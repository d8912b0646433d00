------------------------------- MODULE Callsign -------------------------------
(***************************************************************************)
(* The callsign lookup: one helper process that all connections share, one *)
(* request at a time, its answer read by the periodic tick, a deadline,    *)
(* and the restart of the helper.                                          *)
(*                                                                         *)
(* The helper is a process of the operating system: it may hang or crash.  *)
(* It is configured and can be started.  Every handler that starts it also *)
(* waits for its banner and stops it if none comes, so between handlers a  *)
(* running helper is a ready one (callsign_lookup_ready).                  *)
(*                                                                         *)
(* The close of a connection leaves callsign_lookup_client as it is: what  *)
(* the poll then sends goes to a record that was freed, taken to have no   *)
(* effect here, or that another connection has by now.                     *)
(***************************************************************************)
EXTENDS Sequences

CONSTANTS
    Client,         \* connection records, used again after they close
    NoClient        \* callsign_lookup_client == NULL

ASSUME CallsignAssumption == NoClient \notin Client

VARIABLES
    connected,
    waiting,        \* has the connection an accepted request without an answer?
    refused,        \* was it told "still starting; please retry shortly" last?
    helper,         \* "none", "running" or "crashed" (which nobody noticed yet)
    prompt,         \* external: would a helper started now show its banner in 250 ms?
    requests,       \* external: the requests whose answers are not read yet
    lookup_pending,
    lookup_client,
    overdue,        \* is now >= callsign_lookup_deadline?
    asker_left      \* history: has the connection of the pending request closed?

clientVars == <<connected, waiting, refused>>
lookupVars == <<helper, requests, lookup_pending, lookup_client, overdue>>
vars == <<clientVars, lookupVars, prompt, asker_left>>

-----------------------------------------------------------------------------
(* Helpers *)

\* callsign_lookup_stop, and the helper's pipes with what is in them.
Stop ==
    /\ helper' = "none"
    /\ requests' = <<>>
    /\ lookup_pending' = FALSE
    /\ lookup_client' = NoClient
    /\ overdue' = FALSE
    /\ asker_left' = FALSE

Told(c, is_refused) ==
    /\ refused' = [refused EXCEPT ![c] = is_refused]
    /\ waiting' = [waiting EXCEPT ![c] = ~is_refused]

\* A helper that takes the line: one that runs, or one that is started now and
\* shows its banner in time.
Writable == helper = "running" \/ (helper = "none" /\ prompt)

-----------------------------------------------------------------------------
(* Connections *)

Connect(c) ==
    /\ ~connected[c]
    /\ connected' = [connected EXCEPT ![c] = TRUE]
    /\ UNCHANGED <<waiting, refused, lookupVars, prompt, asker_left>>

\* The lookup is not told, and its answer still goes to the address of the record.
Disconnect(c) ==
    /\ connected[c]
    /\ connected' = [connected EXCEPT ![c] = FALSE]
    /\ waiting' = [waiting EXCEPT ![c] = FALSE]
    /\ refused' = [refused EXCEPT ![c] = FALSE]
    /\ asker_left' = (asker_left \/ lookup_client = c)
    /\ UNCHANGED <<lookupVars, prompt>>

-----------------------------------------------------------------------------
(* callsign_lookup_request *)

RequestAccepted(c) ==
    /\ connected[c]
    /\ ~lookup_pending
    /\ Writable
    /\ helper' = "running"
    /\ requests' = Append(requests, c)
    /\ lookup_pending' = TRUE
    /\ lookup_client' = c
    /\ overdue' = FALSE
    /\ asker_left' = FALSE
    /\ Told(c, FALSE)
    /\ UNCHANGED <<connected, prompt>>

\* One request at a time.  Whoever asks again before the answer still gets it, and so
\* does who has the record of the one who asked.
RequestBusy(c) ==
    /\ connected[c]
    /\ lookup_pending
    /\ refused' = [refused EXCEPT ![c] = TRUE]
    /\ UNCHANGED <<connected, waiting, lookupVars, prompt, asker_left>>

\* Bug: a helper that does not take the line is left as it is.
RequestFailsLeaves(c) ==
    /\ connected[c]
    /\ ~lookup_pending
    /\ ~Writable
    /\ Told(c, TRUE)
    /\ UNCHANGED <<connected, lookupVars, prompt, asker_left>>

\* The helper is gone, or was started now and is stopped as it shows no banner
\* within 250 ms, although the user is told that it is starting.
RequestFails(c) ==
    /\ connected[c]
    /\ ~lookup_pending
    /\ ~Writable
    /\ Stop
    /\ Told(c, TRUE)
    /\ UNCHANGED <<connected, prompt>>

Request(c) == RequestAccepted(c) \/ RequestBusy(c) \/ RequestFails(c)

-----------------------------------------------------------------------------
(* ws_callsign_lookup_poll *)

\* callsign_lookup_send_reply, whatever the lines say, or the error in its place.
Reply(c) == waiting' = [waiting EXCEPT ![c] = FALSE]

\* The end of an answer is read, and the answer sent.  A helper that crashed may have
\* left it in the pipe.
PollAnswered ==
    /\ lookup_pending
    /\ helper # "none"
    /\ requests # <<>>
    /\ requests' = Tail(requests)
    /\ lookup_pending' = FALSE
    /\ lookup_client' = NoClient
    /\ overdue' = FALSE
    /\ asker_left' = FALSE
    /\ Reply(lookup_client)
    /\ UNCHANGED <<connected, refused, helper, prompt>>

\* Bug: the helper that did not answer in time is kept.
PollTimesOutKeeps ==
    /\ lookup_pending
    /\ overdue
    /\ lookup_pending' = FALSE
    /\ lookup_client' = NoClient
    /\ overdue' = FALSE
    /\ asker_left' = FALSE
    /\ Reply(lookup_client)
    /\ UNCHANGED <<connected, refused, helper, requests, prompt>>

\* Bug: the poll gives up early on a helper that is gone.
PollTimesOutRunning ==
    /\ lookup_pending
    /\ overdue
    /\ helper = "running"
    /\ Stop
    /\ Reply(lookup_client)
    /\ UNCHANGED <<connected, refused, prompt>>

\* No end of an answer can be read, and the deadline has passed: the helper is
\* stopped, so that its answer is never read.
PollTimesOut ==
    /\ lookup_pending
    /\ overdue
    /\ Stop
    /\ Reply(lookup_client)
    /\ UNCHANGED <<connected, refused, prompt>>

-----------------------------------------------------------------------------
(* The helper and the clock *)

Crash ==
    /\ helper = "running"
    /\ helper' = "crashed"
    /\ UNCHANGED <<clientVars, requests, lookup_pending, lookup_client, overdue,
                   prompt, asker_left>>

\* Thirty seconds after the request.
Deadline ==
    /\ lookup_pending
    /\ ~overdue
    /\ overdue' = TRUE
    /\ UNCHANGED <<clientVars, helper, requests, lookup_pending, lookup_client,
                   prompt, asker_left>>

\* What the start of a helper takes changes with the load of the machine.
Pace ==
    /\ prompt' = ~prompt
    /\ UNCHANGED <<clientVars, lookupVars, asker_left>>

-----------------------------------------------------------------------------
\* The server waits five seconds for the banner when it starts.
Init ==
    /\ connected = [c \in Client |-> FALSE]
    /\ waiting = [c \in Client |-> FALSE]
    /\ refused = [c \in Client |-> FALSE]
    /\ helper \in {"none", "running"}
    /\ requests = <<>>
    /\ lookup_pending = FALSE
    /\ lookup_client = NoClient
    /\ overdue = FALSE
    /\ prompt \in BOOLEAN
    /\ asker_left = FALSE

Next ==
    \/ \E c \in Client : Connect(c) \/ Disconnect(c) \/ Request(c)
    \/ PollAnswered
    \/ PollTimesOut
    \/ Crash
    \/ Deadline
    \/ Pace

\* Time passes, the tick polls again and again, and a connection that was told
\* to retry does so.
Fairness ==
    /\ WF_vars(Deadline)
    /\ WF_vars(PollTimesOut)
    /\ \A c \in Client : WF_vars(refused[c] /\ Request(c))

Spec == Init /\ [][Next]_vars

FairSpec == Spec /\ Fairness

-----------------------------------------------------------------------------
(* Properties *)

\* Every variable has its type, and the helper has at most one request.
TypeOK ==
    /\ connected \in [Client -> BOOLEAN]
    /\ waiting \in [Client -> BOOLEAN]
    /\ refused \in [Client -> BOOLEAN]
    /\ helper \in {"none", "running", "crashed"}
    /\ requests \in {<<>>} \cup {<<c>> : c \in Client}
    /\ lookup_pending \in BOOLEAN
    /\ lookup_client \in Client \cup {NoClient}
    /\ overdue \in BOOLEAN
    /\ prompt \in BOOLEAN
    /\ asker_left \in BOOLEAN

\* The helper owes the answer to the outstanding request and no other, so that what
\* is read is never the late answer to a request that timed out.  And it is sent to
\* the connection that asked, as long as that is there: it waits until then, and
\* nobody else does.  Who asked and left has its answer sent to its record all the
\* same, whoever has that by now.
AnswersMatch ==
    /\ requests = IF lookup_pending THEN <<lookup_client>> ELSE <<>>
    /\ \A c \in Client :
          waiting[c] <=> lookup_pending /\ lookup_client = c /\ ~asker_left

\* Every lookup comes to an end, even if the helper hangs or crashes.
LookupEnds == lookup_pending ~> ~lookup_pending

\* After a crash, and however slowly the helper started at times: once its banner
\* comes in 250 ms, some retry is accepted unless everyone who was refused has left.
\* As long as it takes longer none is, although srv.chat.c:1287 says "Callsign lookup
\* is still starting; please retry shortly": each request stops the helper it started.
RetrySucceeds ==
    <>[]prompt =>
        ((\E c \in Client : refused[c]) ~> lookup_pending \/ \A c \in Client : ~refused[c])
=============================================================================
