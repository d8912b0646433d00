---------------------------- MODULE CallsignProofs ----------------------------
(***************************************************************************)
(* What module Callsign keeps for any connections and for a helper that    *)
(* starts fast or slowly: types, which answer is read next, and who it is  *)
(* sent to while the connection that asked is there.                       *)
(***************************************************************************)
EXTENDS Callsign, TLAPS

IInv == TypeOK /\ AnswersMatch

LEMMA InitMatch == Init => IInv
<1> SUFFICES ASSUME Init PROVE IInv
  OBVIOUS
<1>1. TypeOK
  BY Zenon DEF Init, TypeOK
<1>2. AnswersMatch
  BY DEF Init, AnswersMatch
<1> QED
  BY <1>1, <1>2 DEF IInv

\* Nobody waits while no request is outstanding, and only its asker while one is.
LEMMA OnlyAskerWaits ==
  ASSUME IInv, NEW c \in Client, c # lookup_client \/ ~lookup_pending
  PROVE  waiting[c] = FALSE
BY DEF IInv, TypeOK, AnswersMatch

LEMMA RequestStep ==
  ASSUME IInv, NEW c \in Client, Request(c)
  PROVE  IInv'
<1>1. CASE RequestAccepted(c)
  <2>1. requests' = <<c>>
    BY <1>1 DEF RequestAccepted, IInv, AnswersMatch
  <2>2. TypeOK'
    <3>1. waiting' \in [Client -> BOOLEAN] /\ refused' \in [Client -> BOOLEAN]
      BY <1>1 DEF RequestAccepted, Told, IInv, TypeOK
    <3> QED
      BY <1>1, <2>1, <3>1 DEF RequestAccepted, IInv, TypeOK
  <2>3. ASSUME NEW d \in Client, waiting'[d] PROVE d = c
    <3>1. waiting' = [waiting EXCEPT ![c] = TRUE]
      BY <1>1 DEF RequestAccepted, Told
    <3>2. ~lookup_pending
      BY <1>1 DEF RequestAccepted
    <3> QED
      BY <2>3, <3>1, <3>2, OnlyAskerWaits DEF IInv, TypeOK
  <2>4. waiting'[c]
    BY <1>1 DEF RequestAccepted, Told, IInv, TypeOK
  <2>5. lookup_pending' /\ lookup_client' = c /\ ~asker_left'
    BY <1>1 DEF RequestAccepted
  <2>6. AnswersMatch'
    BY <2>1, <2>3, <2>4, <2>5 DEF AnswersMatch
  <2> QED
    BY <2>2, <2>6 DEF IInv
<1>2. CASE RequestBusy(c)
  BY <1>2 DEF RequestBusy, lookupVars, IInv, TypeOK, AnswersMatch
<1>3. CASE RequestFails(c)
  <2>1. waiting' = [waiting EXCEPT ![c] = FALSE] /\ ~lookup_pending
    BY <1>3 DEF RequestFails, Told
  <2>2. ASSUME NEW d \in Client PROVE waiting'[d] = FALSE
    BY <2>1, OnlyAskerWaits DEF IInv, TypeOK
  <2>3. TypeOK'
    BY <1>3, <2>1 DEF RequestFails, Told, Stop, IInv, TypeOK
  <2> QED
    BY <1>3, <2>2, <2>3 DEF RequestFails, Stop, IInv, AnswersMatch
<1> QED
  BY <1>1, <1>2, <1>3 DEF Request

\* The end of a request, with its answer or without.
LEMMA EndStep ==
  ASSUME IInv, lookup_pending, Reply(lookup_client),
         helper' \in {"none", "running", "crashed"}, requests' = <<>>,
         lookup_pending' = FALSE, lookup_client' = NoClient, overdue' = FALSE,
         asker_left' = FALSE, UNCHANGED <<connected, refused, prompt>>
  PROVE  IInv'
<1>1. ASSUME NEW c \in Client PROVE waiting'[c] = FALSE
  BY OnlyAskerWaits DEF Reply, IInv, TypeOK
<1>2. TypeOK'
  BY DEF Reply, IInv, TypeOK
<1> QED
  BY <1>1, <1>2 DEF IInv, AnswersMatch

LEMMA Step == IInv /\ [Next]_vars => IInv'
<1> SUFFICES ASSUME IInv, [Next]_vars PROVE IInv'
  OBVIOUS
<1>1. ASSUME NEW c \in Client, Connect(c) PROVE IInv'
  <2>1. UNCHANGED <<waiting, lookupVars, asker_left>>
    BY <1>1 DEF Connect
  <2>2. TypeOK'
    BY <1>1 DEF Connect, lookupVars, IInv, TypeOK
  <2>3. AnswersMatch'
    BY <2>1 DEF lookupVars, IInv, AnswersMatch
  <2> QED
    BY <2>2, <2>3 DEF IInv
<1>2. ASSUME NEW c \in Client, Disconnect(c) PROVE IInv'
  <2>1. UNCHANGED lookupVars /\ asker_left' = (asker_left \/ lookup_client = c)
    BY <1>2 DEF Disconnect
  <2>2. TypeOK'
    <3>1. /\ connected' \in [Client -> BOOLEAN]
          /\ waiting' \in [Client -> BOOLEAN]
          /\ refused' \in [Client -> BOOLEAN]
      BY <1>2 DEF Disconnect, IInv, TypeOK
    <3>2. asker_left' \in BOOLEAN
      BY <2>1, Zenon
    <3>3. UNCHANGED <<lookupVars, prompt>>
      BY <1>2 DEF Disconnect
    <3> QED
      BY <3>1, <3>2, <3>3 DEF lookupVars, IInv, TypeOK
  \* Who leaves does not wait, and if it asked, its request has lost its asker.
  <2>3. ASSUME NEW d \in Client
        PROVE  waiting'[d] <=> waiting[d] /\ d # c
    BY <1>2 DEF Disconnect, IInv, TypeOK
  <2>4. AnswersMatch'
    BY <2>1, <2>3 DEF lookupVars, IInv, AnswersMatch
  <2> QED
    BY <2>2, <2>4 DEF IInv
<1>3. ASSUME NEW c \in Client, Request(c) PROVE IInv'
  BY <1>3, RequestStep
<1>4. CASE PollAnswered
  <2>1. requests' = <<>>
    BY <1>4 DEF PollAnswered, IInv, AnswersMatch
  <2> QED
    BY <1>4, <2>1, EndStep DEF PollAnswered, IInv, TypeOK
<1>5. CASE PollTimesOut
  BY <1>5, EndStep DEF PollTimesOut, Stop
<1>6. ASSUME UNCHANGED <<clientVars, requests, lookup_pending, lookup_client, asker_left>>,
             helper' \in {"none", "running", "crashed"}, overdue' \in BOOLEAN,
             prompt' \in BOOLEAN
      PROVE  IInv'
  <2>1. TypeOK'
    BY <1>6, Zenon DEF clientVars, IInv, TypeOK
  <2>2. AnswersMatch'
    BY <1>6 DEF clientVars, IInv, AnswersMatch
  <2> QED
    BY <2>1, <2>2 DEF IInv
<1>7. CASE Crash
  <2>1. helper' = "crashed" /\ overdue' = overdue /\ prompt' = prompt
    BY <1>7 DEF Crash
  <2>2. overdue' \in BOOLEAN /\ prompt' \in BOOLEAN
    BY <2>1, Zenon DEF IInv, TypeOK
  <2> QED
    BY <1>6, <1>7, <2>1, <2>2 DEF Crash
<1>8. CASE Deadline
  <2>1. overdue' \in BOOLEAN
    BY <1>8, Zenon DEF Deadline
  <2>2. helper' \in {"none", "running", "crashed"} /\ prompt' \in BOOLEAN
    BY <1>8 DEF Deadline, IInv, TypeOK
  <2> QED
    BY <1>6, <1>8, <2>1, <2>2 DEF Deadline
<1>9. CASE Pace
  <2>1. prompt' \in BOOLEAN
    BY <1>9, Zenon DEF Pace
  <2>2. helper' \in {"none", "running", "crashed"} /\ overdue' \in BOOLEAN
    BY <1>9 DEF Pace, lookupVars, IInv, TypeOK
  <2> QED
    BY <1>6, <1>9, <2>1, <2>2 DEF Pace, lookupVars
<1>10. CASE UNCHANGED vars
  <2>1. helper' = helper /\ overdue' = overdue /\ prompt' = prompt
    BY <1>10 DEF vars, lookupVars
  <2>2. /\ helper' \in {"none", "running", "crashed"}
        /\ overdue' \in BOOLEAN
        /\ prompt' \in BOOLEAN
    BY <2>1, Zenon DEF IInv, TypeOK
  <2> QED
    BY <1>6, <1>10, <2>2 DEF vars, lookupVars
<1> QED
  BY <1>1, <1>2, <1>3, <1>4, <1>5, <1>7, <1>8, <1>9, <1>10 DEF Next

LEMMA Inductive == Spec => []IInv
  BY InitMatch, Step, PTL DEF Spec

\* Every reachable state is well typed, and the helper never has two requests.
THEOREM CallsignTypeCorrect == Spec => []TypeOK
<1>1. IInv => TypeOK
  BY DEF IInv
<1> QED
  BY <1>1, Inductive, PTL

\* For any number of connections, whatever they close, and however the helper hangs,
\* crashes or starts: what the poll (ws_callsign_lookup_poll) reads next is the answer
\* to the outstanding request, and the connection that asked is the one and only that
\* waits for it, until it is sent there or that connection has closed.
THEOREM AnswersToAskers == Spec => []AnswersMatch
<1>1. IInv => AnswersMatch
  BY DEF IInv
<1> QED
  BY <1>1, Inductive, PTL
=============================================================================
