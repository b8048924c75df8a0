------------------------ MODULE OpenApiClientProofs ------------------------
(***************************************************************************)
(* Theorems about OpenApiClient, for any number of coroutines, tokens and  *)
(* hosts.  Each invariant is proved from the ones above it.                *)
(***************************************************************************)
EXTENDS OpenApiClient, TLAPS

(* The inductive invariant, one named part per idea. *)

\* Every token in circulation was minted by the platform.
IssuedInv ==
  /\ accessToken \in issued \cup {NoToken}
  /\ live \subseteq issued
  /\ \A t \in Tasks :
       /\ pc[t] \in DataPc => tokenUsed[t] \in issued
       /\ pc[t] = "fetchReply" /\ reply[t].code = "ok" => reply[t].token \in issued

\* The token lock is held exactly by the coroutine that is fetching.
LockInv ==
  \A t \in Tasks : pc[t] \in FetchPc <=> tokenLock = t

\* A rejected token stays dead, and every rejection a coroutine acts on is real.
RejectedInv ==
  /\ rejected \subseteq issued
  /\ live \cap rejected = {}
  /\ \A t \in Tasks :
       /\ pc[t] = "reply" /\ reply[t].code = "overdue" => tokenUsed[t] \in rejected
       /\ staleToken[t] \in rejected \cup {NoToken}
       /\ ~firstTry[t] => staleToken[t] \in rejected

\* A fetched token is not the one whose rejection made its reader fetch.
FetchedInv ==
  \A t \in Tasks : pc[t] = "fetchReply" /\ reply[t].code = "ok" =>
    reply[t].token # staleToken[t]

\* The client holds its token together with a host the pair was stored with.
HeldInv ==
  /\ accessToken # NoToken => <<accessToken, apiUrl>> \in held
  /\ TokenHostPaired

\* How many data requests the current call has sent, from where it stands.
AttemptInv ==
  \A t \in Tasks :
    /\ pc[t] = "idle" => firstTry[t]
    /\ attempts[t] = (IF firstTry[t] THEN 0 ELSE 1)
                     + (IF pc[t] \in {"sent", "reply"} THEN 1 ELSE 0)

IInv ==
  /\ TypeOK /\ IssuedInv /\ LockInv /\ RejectedInv /\ FetchedInv /\ HeldInv
  /\ RefreshOnlyWhenRejected /\ RetryUsesOtherToken /\ AttemptInv

-----------------------------------------------------------------------------
\* What one coroutine owns, and the lock: the variables Finish and
\* EnsureToken write.
TaskTypes ==
  /\ tokenLock \in Tasks \cup {NoTask}
  /\ pc \in [Tasks -> {"idle", "lock"} \cup FetchPc \cup DataPc]
  /\ tokenUsed \in [Tasks -> Tokens \cup {NoToken}]
  /\ hostUsed \in [Tasks -> Hosts \cup {NoHost}]

\* Returning or raising leaves well-typed locals behind.
LEMMA FinishTypes ==
  ASSUME TypeOK, NEW t \in Tasks, Finish(t)
  PROVE  /\ TaskTypes'
         /\ kind' \in [Tasks -> Kinds]
         /\ firstTry' \in [Tasks -> BOOLEAN]
         /\ staleToken' \in [Tasks -> Tokens \cup {NoToken}]
         /\ reply' \in [Tasks -> Replies]
         /\ attempts' \in [Tasks -> Nat]
<1> USE DEF TypeOK, Finish
<1>1. TaskTypes'
  BY DEF TaskTypes
<1>2. NoReply \in Replies
  BY DEF NoReply, Answer, Replies
<1> QED
  BY <1>1, <1>2 DEF Kinds

\* So does asking for a token, whichever way it goes.
LEMMA EnsureTokenTypes ==
  ASSUME TypeOK, NEW t \in Tasks, NEW stale, EnsureToken(t, stale)
  PROVE  TaskTypes'
<1> USE DEF TypeOK, TaskTypes, FetchPc, DataPc
<1>1. CASE HasUsableToken(stale) /\ BuildData(t, accessToken, apiUrl)
           /\ UNCHANGED tokenLock
  BY <1>1 DEF HasUsableToken, BuildData
<1>2. CASE BuildFetch(t)
  BY <1>2 DEF BuildFetch
<1>3. CASE QueueForLock(t)
  BY <1>3 DEF QueueForLock
<1> QED
  BY <1>1, <1>2, <1>3 DEF EnsureToken

\* The client's variables keep their types.
LEMMA TypeStep == TypeOK /\ IssuedInv /\ [Next]_vars => TypeOK'
<1> SUFFICES ASSUME TypeOK, IssuedInv, [Next]_vars PROVE TypeOK'
  OBVIOUS
<1> USE DEF TypeOK, IssuedInv, clientVars, taskVars, serverVars, FetchPc, DataPc, Kinds,
            Replies, NoReply, Answer
<1>1. ASSUME NEW t \in Tasks, BeginRequest(t) PROVE TypeOK'
  BY <1>1, EnsureTokenTypes DEF BeginRequest, TaskTypes
<1>2. ASSUME NEW t \in Tasks, BeginLogin(t) PROVE TypeOK'
  BY <1>2 DEF BeginLogin, BuildFetch, QueueForLock
<1>3. ASSUME NEW t \in Tasks, AcquireTokenLock(t) PROVE TypeOK'
  BY <1>3 DEF AcquireTokenLock, BuildData, BuildFetch, HasUsableToken
<1>4. ASSUME NEW t \in Tasks, CancelWait(t) \/ Fail(t) \/ ReceiveData(t)
      PROVE TypeOK'
  BY <1>4, FinishTypes DEF CancelWait, Fail, ReceiveData, TaskTypes
<1>5. ASSUME NEW t \in Tasks, SendFetch(t) PROVE TypeOK'
  BY <1>5 DEF SendFetch
<1>6. ASSUME NEW t \in Tasks, SendData(t) PROVE TypeOK'
  BY <1>6 DEF SendData
<1>7. ASSUME NEW t \in Tasks, ServeFetch(t) PROVE TypeOK'
  BY <1>7 DEF ServeFetch
<1>8. ASSUME NEW t \in Tasks, ServeData(t) PROVE TypeOK'
  BY <1>8 DEF ServeData
<1>9. ASSUME NEW t \in Tasks, ReceiveFetch(t) PROVE TypeOK'
  <2> DEFINE token == reply[t].token
             host == IF reply[t].host = NoHost THEN apiUrl ELSE reply[t].host
  <2>1. pc[t] = "fetchReply" /\ reply[t].code = "ok" /\ reply[t] \in Replies
    BY <1>9 DEF ReceiveFetch
  <2>2. token \in Tokens /\ host \in Hosts
    <3>1. token \in issued
      BY <2>1
    <3>2. reply[t].host \in Hosts \cup {NoHost}
      BY <2>1
    <3> QED
      BY <3>1, <3>2
  <2>3. accessToken' = token /\ apiUrl' = host /\ held' = held \cup {<<token, host>>}
    BY <1>9 DEF ReceiveFetch
  <2>4. CASE Finish(t)
    BY <1>9, <2>2, <2>3, <2>4, FinishTypes DEF ReceiveFetch, TaskTypes
  <2>5. CASE kind[t] # "login"
    <3>1. tokenLock' = NoTask /\ BuildData(t, token, host)
      BY <1>9, <2>5 DEF ReceiveFetch
    <3>2. reply' = [reply EXCEPT ![t] = NoReply]
      BY <1>9, <2>5 DEF ReceiveFetch
    <3>3. UNCHANGED <<kind, firstTry, staleToken, attempts, serverVars>>
      BY <1>9, <2>5 DEF ReceiveFetch
    <3> HIDE DEF token, host
    <3> QED
      BY <2>2, <2>3, <3>1, <3>2, <3>3 DEF BuildData
  <2> QED
    BY <1>9, <2>4, <2>5 DEF ReceiveFetch
<1>10. ASSUME NEW t \in Tasks, ReceiveOverdue(t) PROVE TypeOK'
  <2>1. TaskTypes'
    BY <1>10, EnsureTokenTypes DEF ReceiveOverdue
  <2> QED
    BY <1>10, <2>1 DEF ReceiveOverdue, TaskTypes
<1>11. ASSUME NEW token \in Tokens, Expire(token) PROVE TypeOK'
  BY <1>11 DEF Expire
<1>12. CASE UNCHANGED vars
  BY <1>12 DEF vars
<1> QED
  BY <1>1, <1>2, <1>3, <1>4, <1>5, <1>6, <1>7, <1>8, <1>9, <1>10, <1>11, <1>12
     DEF Next, Progress

\* Every token still comes from the platform after a step.
LEMMA IssuedStep == TypeOK /\ IssuedInv /\ [Next]_vars => IssuedInv'
<1> SUFFICES ASSUME TypeOK, IssuedInv, [Next]_vars PROVE IssuedInv'
  OBVIOUS
<1> USE DEF TypeOK, clientVars, taskVars, serverVars, FetchPc, DataPc, IssuedInv, NoReply, Answer
<1>1. ASSUME NEW t \in Tasks, BeginRequest(t) PROVE IssuedInv'
  BY <1>1 DEF BeginRequest, EnsureToken, BuildData, BuildFetch, QueueForLock,
              HasUsableToken
<1>2. ASSUME NEW t \in Tasks, BeginLogin(t) PROVE IssuedInv'
  BY <1>2 DEF BeginLogin, BuildFetch, QueueForLock
<1>3. ASSUME NEW t \in Tasks, AcquireTokenLock(t) PROVE IssuedInv'
  BY <1>3 DEF AcquireTokenLock, BuildData, BuildFetch, HasUsableToken
<1>4. ASSUME NEW t \in Tasks, CancelWait(t) PROVE IssuedInv'
  BY <1>4 DEF CancelWait, Finish
<1>5. ASSUME NEW t \in Tasks, SendFetch(t) PROVE IssuedInv'
  BY <1>5 DEF SendFetch
<1>6. ASSUME NEW t \in Tasks, SendData(t) PROVE IssuedInv'
  BY <1>6 DEF SendData
<1>7. ASSUME NEW t \in Tasks, ServeFetch(t) PROVE IssuedInv'
  BY <1>7 DEF ServeFetch, Answer
<1>8. ASSUME NEW t \in Tasks, ServeData(t) PROVE IssuedInv'
  BY <1>8 DEF ServeData, Answer
<1>9. ASSUME NEW t \in Tasks, ReceiveFetch(t) PROVE IssuedInv'
  BY <1>9 DEF ReceiveFetch, Finish, BuildData
<1>10. ASSUME NEW t \in Tasks, ReceiveData(t) PROVE IssuedInv'
  BY <1>10 DEF ReceiveData, Finish
<1>11. ASSUME NEW t \in Tasks, ReceiveOverdue(t) PROVE IssuedInv'
  BY <1>11 DEF ReceiveOverdue, EnsureToken, BuildData, BuildFetch, QueueForLock,
               HasUsableToken
<1>12. ASSUME NEW t \in Tasks, Fail(t) PROVE IssuedInv'
  BY <1>12 DEF Fail, Finish
<1>13. ASSUME NEW token \in Tokens, Expire(token) PROVE IssuedInv'
  BY <1>13 DEF Expire
<1>14. CASE UNCHANGED vars
  BY <1>14 DEF vars
<1> QED
  BY <1>1, <1>2, <1>3, <1>4, <1>5, <1>6, <1>7, <1>8, <1>9, <1>10, <1>11, <1>12,
     <1>13, <1>14 DEF Next, Progress

\* The token lock keeps following the one coroutine that fetches.
LEMMA LockStep == TypeOK /\ LockInv /\ [Next]_vars => LockInv'
<1> SUFFICES ASSUME TypeOK, LockInv, [Next]_vars PROVE LockInv'
  OBVIOUS
<1> USE DEF TypeOK, clientVars, taskVars, serverVars, FetchPc, DataPc, LockInv, LockIsFree
<1>1. ASSUME NEW t \in Tasks, BeginRequest(t) PROVE LockInv'
  BY <1>1, SentinelAssumption DEF BeginRequest, EnsureToken, BuildData, BuildFetch, QueueForLock,
              HasUsableToken
<1>2. ASSUME NEW t \in Tasks, BeginLogin(t) PROVE LockInv'
  BY <1>2, SentinelAssumption DEF BeginLogin, BuildFetch, QueueForLock
<1>3. ASSUME NEW t \in Tasks, AcquireTokenLock(t) PROVE LockInv'
  BY <1>3, SentinelAssumption DEF AcquireTokenLock, BuildData, BuildFetch, HasUsableToken
<1>4. ASSUME NEW t \in Tasks, CancelWait(t) PROVE LockInv'
  BY <1>4 DEF CancelWait, Finish
<1>5. ASSUME NEW t \in Tasks, SendFetch(t) PROVE LockInv'
  BY <1>5 DEF SendFetch
<1>6. ASSUME NEW t \in Tasks, SendData(t) PROVE LockInv'
  BY <1>6 DEF SendData
<1>7. ASSUME NEW t \in Tasks, ServeFetch(t) PROVE LockInv'
  BY <1>7 DEF ServeFetch, Answer
<1>8. ASSUME NEW t \in Tasks, ServeData(t) PROVE LockInv'
  BY <1>8 DEF ServeData, Answer
<1>9. ASSUME NEW t \in Tasks, ReceiveFetch(t) PROVE LockInv'
  BY <1>9, SentinelAssumption DEF ReceiveFetch, Finish, BuildData
<1>10. ASSUME NEW t \in Tasks, ReceiveData(t) PROVE LockInv'
  BY <1>10 DEF ReceiveData, Finish
<1>11. ASSUME NEW t \in Tasks, ReceiveOverdue(t) PROVE LockInv'
  BY <1>11, SentinelAssumption DEF ReceiveOverdue, EnsureToken, BuildData, BuildFetch, QueueForLock,
               HasUsableToken
<1>12. ASSUME NEW t \in Tasks, Fail(t) PROVE LockInv'
  BY <1>12, SentinelAssumption DEF Fail, Finish
<1>13. ASSUME NEW token \in Tokens, Expire(token) PROVE LockInv'
  BY <1>13 DEF Expire
<1>14. CASE UNCHANGED vars
  BY <1>14 DEF vars
<1> QED
  BY <1>1, <1>2, <1>3, <1>4, <1>5, <1>6, <1>7, <1>8, <1>9, <1>10, <1>11, <1>12,
     <1>13, <1>14 DEF Next, Progress

\* Rejections stay real and final.
LEMMA RejectedStep ==
  TypeOK /\ IssuedInv /\ RejectedInv
    /\ [Next]_vars
  => RejectedInv'
<1> SUFFICES ASSUME TypeOK, IssuedInv, RejectedInv, [Next]_vars PROVE RejectedInv'
  OBVIOUS
<1> USE DEF TypeOK, clientVars, taskVars, serverVars, FetchPc, DataPc, IssuedInv, RejectedInv, NoReply, Answer
<1>1. ASSUME NEW t \in Tasks, BeginRequest(t) PROVE RejectedInv'
  BY <1>1 DEF BeginRequest, EnsureToken, BuildData, BuildFetch, QueueForLock,
              HasUsableToken
<1>2. ASSUME NEW t \in Tasks, BeginLogin(t) PROVE RejectedInv'
  BY <1>2 DEF BeginLogin, BuildFetch, QueueForLock
<1>3. ASSUME NEW t \in Tasks, AcquireTokenLock(t) PROVE RejectedInv'
  BY <1>3 DEF AcquireTokenLock, BuildData, BuildFetch, HasUsableToken
<1>4. ASSUME NEW t \in Tasks, CancelWait(t) PROVE RejectedInv'
  BY <1>4 DEF CancelWait, Finish
<1>5. ASSUME NEW t \in Tasks, SendFetch(t) PROVE RejectedInv'
  BY <1>5 DEF SendFetch
<1>6. ASSUME NEW t \in Tasks, SendData(t) PROVE RejectedInv'
  BY <1>6 DEF SendData
<1>7. ASSUME NEW t \in Tasks, ServeFetch(t) PROVE RejectedInv'
  BY <1>7 DEF ServeFetch, Answer
<1>8. ASSUME NEW t \in Tasks, ServeData(t) PROVE RejectedInv'
  BY <1>8 DEF ServeData, Answer
<1>9. ASSUME NEW t \in Tasks, ReceiveFetch(t) PROVE RejectedInv'
  BY <1>9 DEF ReceiveFetch, Finish, BuildData
<1>10. ASSUME NEW t \in Tasks, ReceiveData(t) PROVE RejectedInv'
  BY <1>10 DEF ReceiveData, Finish
<1>11. ASSUME NEW t \in Tasks, ReceiveOverdue(t) PROVE RejectedInv'
  BY <1>11 DEF ReceiveOverdue, EnsureToken, BuildData, BuildFetch, QueueForLock,
               HasUsableToken
<1>12. ASSUME NEW t \in Tasks, Fail(t) PROVE RejectedInv'
  BY <1>12 DEF Fail, Finish
<1>13. ASSUME NEW token \in Tokens, Expire(token) PROVE RejectedInv'
  BY <1>13 DEF Expire
<1>14. CASE UNCHANGED vars
  BY <1>14 DEF vars
<1> QED
  BY <1>1, <1>2, <1>3, <1>4, <1>5, <1>6, <1>7, <1>8, <1>9, <1>10, <1>11, <1>12,
     <1>13, <1>14 DEF Next, Progress

\* The platform never hands a rejected token out again.
LEMMA FetchedStep ==
  TypeOK /\ IssuedInv /\ RejectedInv /\ FetchedInv
    /\ [Next]_vars
  => FetchedInv'
<1> SUFFICES ASSUME TypeOK, IssuedInv, RejectedInv, FetchedInv, [Next]_vars PROVE FetchedInv'
  OBVIOUS
<1> USE DEF TypeOK, clientVars, taskVars, serverVars, FetchPc, DataPc, IssuedInv, RejectedInv, FetchedInv, NoReply, Answer
<1>1. ASSUME NEW t \in Tasks, BeginRequest(t) PROVE FetchedInv'
  BY <1>1 DEF BeginRequest, EnsureToken, BuildData, BuildFetch, QueueForLock,
              HasUsableToken
<1>2. ASSUME NEW t \in Tasks, BeginLogin(t) PROVE FetchedInv'
  BY <1>2 DEF BeginLogin, BuildFetch, QueueForLock
<1>3. ASSUME NEW t \in Tasks, AcquireTokenLock(t) PROVE FetchedInv'
  BY <1>3 DEF AcquireTokenLock, BuildData, BuildFetch, HasUsableToken
<1>4. ASSUME NEW t \in Tasks, CancelWait(t) PROVE FetchedInv'
  BY <1>4 DEF CancelWait, Finish
<1>5. ASSUME NEW t \in Tasks, SendFetch(t) PROVE FetchedInv'
  BY <1>5 DEF SendFetch
<1>6. ASSUME NEW t \in Tasks, SendData(t) PROVE FetchedInv'
  BY <1>6 DEF SendData
<1>7. ASSUME NEW t \in Tasks, ServeFetch(t) PROVE FetchedInv'
  BY <1>7, SentinelAssumption DEF ServeFetch, Answer
<1>8. ASSUME NEW t \in Tasks, ServeData(t) PROVE FetchedInv'
  BY <1>8 DEF ServeData, Answer
<1>9. ASSUME NEW t \in Tasks, ReceiveFetch(t) PROVE FetchedInv'
  BY <1>9 DEF ReceiveFetch, Finish, BuildData
<1>10. ASSUME NEW t \in Tasks, ReceiveData(t) PROVE FetchedInv'
  BY <1>10 DEF ReceiveData, Finish
<1>11. ASSUME NEW t \in Tasks, ReceiveOverdue(t) PROVE FetchedInv'
  BY <1>11 DEF ReceiveOverdue, EnsureToken, BuildData, BuildFetch, QueueForLock,
               HasUsableToken
<1>12. ASSUME NEW t \in Tasks, Fail(t) PROVE FetchedInv'
  BY <1>12 DEF Fail, Finish
<1>13. ASSUME NEW token \in Tokens, Expire(token) PROVE FetchedInv'
  BY <1>13 DEF Expire
<1>14. CASE UNCHANGED vars
  BY <1>14 DEF vars
<1> QED
  BY <1>1, <1>2, <1>3, <1>4, <1>5, <1>6, <1>7, <1>8, <1>9, <1>10, <1>11, <1>12,
     <1>13, <1>14 DEF Next, Progress

\* Token and host stay a pair the client held.
LEMMA HeldStep == TypeOK /\ IssuedInv /\ HeldInv /\ [Next]_vars => HeldInv'
<1> SUFFICES ASSUME TypeOK, IssuedInv, HeldInv, [Next]_vars PROVE HeldInv'
  OBVIOUS
<1> USE DEF TypeOK, clientVars, taskVars, serverVars, FetchPc, DataPc, IssuedInv, HeldInv, TokenHostPaired
<1>1. ASSUME NEW t \in Tasks, BeginRequest(t) PROVE HeldInv'
  BY <1>1 DEF BeginRequest, EnsureToken, BuildData, BuildFetch, QueueForLock,
              HasUsableToken
<1>2. ASSUME NEW t \in Tasks, BeginLogin(t) PROVE HeldInv'
  BY <1>2 DEF BeginLogin, BuildFetch, QueueForLock
<1>3. ASSUME NEW t \in Tasks, AcquireTokenLock(t) PROVE HeldInv'
  BY <1>3 DEF AcquireTokenLock, BuildData, BuildFetch, HasUsableToken
<1>4. ASSUME NEW t \in Tasks, CancelWait(t) PROVE HeldInv'
  BY <1>4 DEF CancelWait, Finish
<1>5. ASSUME NEW t \in Tasks, SendFetch(t) PROVE HeldInv'
  BY <1>5 DEF SendFetch
<1>6. ASSUME NEW t \in Tasks, SendData(t) PROVE HeldInv'
  BY <1>6 DEF SendData
<1>7. ASSUME NEW t \in Tasks, ServeFetch(t) PROVE HeldInv'
  BY <1>7 DEF ServeFetch, Answer
<1>8. ASSUME NEW t \in Tasks, ServeData(t) PROVE HeldInv'
  BY <1>8 DEF ServeData, Answer
<1>9. ASSUME NEW t \in Tasks, ReceiveFetch(t) PROVE HeldInv'
  BY <1>9 DEF ReceiveFetch, Finish, BuildData
<1>10. ASSUME NEW t \in Tasks, ReceiveData(t) PROVE HeldInv'
  BY <1>10 DEF ReceiveData, Finish
<1>11. ASSUME NEW t \in Tasks, ReceiveOverdue(t) PROVE HeldInv'
  BY <1>11 DEF ReceiveOverdue, EnsureToken, BuildData, BuildFetch, QueueForLock,
               HasUsableToken
<1>12. ASSUME NEW t \in Tasks, Fail(t) PROVE HeldInv'
  BY <1>12 DEF Fail, Finish
<1>13. ASSUME NEW token \in Tokens, Expire(token) PROVE HeldInv'
  BY <1>13 DEF Expire
<1>14. CASE UNCHANGED vars
  BY <1>14 DEF vars
<1> QED
  BY <1>1, <1>2, <1>3, <1>4, <1>5, <1>6, <1>7, <1>8, <1>9, <1>10, <1>11, <1>12,
     <1>13, <1>14 DEF Next, Progress

\* A fetch for a request only ever starts, and goes on, with the current token refused.
LEMMA RefreshStep ==
  TypeOK /\ IssuedInv /\ LockInv /\ RejectedInv /\ RefreshOnlyWhenRejected
    /\ [Next]_vars
  => RefreshOnlyWhenRejected'
<1> SUFFICES ASSUME TypeOK, IssuedInv, LockInv, RejectedInv, RefreshOnlyWhenRejected, [Next]_vars PROVE RefreshOnlyWhenRejected'
  OBVIOUS
<1> USE DEF TypeOK, clientVars, taskVars, serverVars, FetchPc, DataPc, IssuedInv, LockInv, RejectedInv, RefreshOnlyWhenRejected, LockIsFree
<1>1. ASSUME NEW t \in Tasks, BeginRequest(t) PROVE RefreshOnlyWhenRejected'
  BY <1>1 DEF BeginRequest, EnsureToken, BuildData, BuildFetch, QueueForLock,
              HasUsableToken
<1>2. ASSUME NEW t \in Tasks, BeginLogin(t) PROVE RefreshOnlyWhenRejected'
  BY <1>2 DEF BeginLogin, BuildFetch, QueueForLock
<1>3. ASSUME NEW t \in Tasks, AcquireTokenLock(t) PROVE RefreshOnlyWhenRejected'
  BY <1>3 DEF AcquireTokenLock, BuildData, BuildFetch, HasUsableToken
<1>4. ASSUME NEW t \in Tasks, CancelWait(t) PROVE RefreshOnlyWhenRejected'
  BY <1>4 DEF CancelWait, Finish
<1>5. ASSUME NEW t \in Tasks, SendFetch(t) PROVE RefreshOnlyWhenRejected'
  BY <1>5 DEF SendFetch
<1>6. ASSUME NEW t \in Tasks, SendData(t) PROVE RefreshOnlyWhenRejected'
  BY <1>6 DEF SendData
<1>7. ASSUME NEW t \in Tasks, ServeFetch(t) PROVE RefreshOnlyWhenRejected'
  BY <1>7 DEF ServeFetch, Answer
<1>8. ASSUME NEW t \in Tasks, ServeData(t) PROVE RefreshOnlyWhenRejected'
  BY <1>8 DEF ServeData, Answer
<1>9. ASSUME NEW t \in Tasks, ReceiveFetch(t) PROVE RefreshOnlyWhenRejected'
  BY <1>9 DEF ReceiveFetch, Finish, BuildData
<1>10. ASSUME NEW t \in Tasks, ReceiveData(t) PROVE RefreshOnlyWhenRejected'
  BY <1>10 DEF ReceiveData, Finish
<1>11. ASSUME NEW t \in Tasks, ReceiveOverdue(t) PROVE RefreshOnlyWhenRejected'
  BY <1>11 DEF ReceiveOverdue, EnsureToken, BuildData, BuildFetch, QueueForLock,
               HasUsableToken
<1>12. ASSUME NEW t \in Tasks, Fail(t) PROVE RefreshOnlyWhenRejected'
  BY <1>12 DEF Fail, Finish
<1>13. ASSUME NEW token \in Tokens, Expire(token) PROVE RefreshOnlyWhenRejected'
  BY <1>13 DEF Expire
<1>14. CASE UNCHANGED vars
  BY <1>14 DEF vars
<1> QED
  BY <1>1, <1>2, <1>3, <1>4, <1>5, <1>6, <1>7, <1>8, <1>9, <1>10, <1>11, <1>12,
     <1>13, <1>14 DEF Next, Progress

\* The count of data requests follows the position of the call.
LEMMA AttemptStep == TypeOK /\ AttemptInv /\ [Next]_vars => AttemptInv'
<1> SUFFICES ASSUME TypeOK, AttemptInv, [Next]_vars PROVE AttemptInv'
  OBVIOUS
<1> USE DEF TypeOK, clientVars, taskVars, serverVars, FetchPc, DataPc, AttemptInv
<1>1. ASSUME NEW t \in Tasks, BeginRequest(t) PROVE AttemptInv'
  BY <1>1 DEF BeginRequest, EnsureToken, BuildData, BuildFetch, QueueForLock,
              HasUsableToken
<1>2. ASSUME NEW t \in Tasks, BeginLogin(t) PROVE AttemptInv'
  BY <1>2 DEF BeginLogin, BuildFetch, QueueForLock
<1>3. ASSUME NEW t \in Tasks, AcquireTokenLock(t) PROVE AttemptInv'
  BY <1>3 DEF AcquireTokenLock, BuildData, BuildFetch, HasUsableToken
<1>4. ASSUME NEW t \in Tasks, CancelWait(t) PROVE AttemptInv'
  BY <1>4 DEF CancelWait, Finish
<1>5. ASSUME NEW t \in Tasks, SendFetch(t) PROVE AttemptInv'
  BY <1>5 DEF SendFetch
<1>6. ASSUME NEW t \in Tasks, SendData(t) PROVE AttemptInv'
  BY <1>6 DEF SendData
<1>7. ASSUME NEW t \in Tasks, ServeFetch(t) PROVE AttemptInv'
  BY <1>7 DEF ServeFetch, Answer
<1>8. ASSUME NEW t \in Tasks, ServeData(t) PROVE AttemptInv'
  BY <1>8 DEF ServeData, Answer
<1>9. ASSUME NEW t \in Tasks, ReceiveFetch(t) PROVE AttemptInv'
  BY <1>9 DEF ReceiveFetch, Finish, BuildData
<1>10. ASSUME NEW t \in Tasks, ReceiveData(t) PROVE AttemptInv'
  BY <1>10 DEF ReceiveData, Finish
<1>11. ASSUME NEW t \in Tasks, ReceiveOverdue(t) PROVE AttemptInv'
  BY <1>11 DEF ReceiveOverdue, EnsureToken, BuildData, BuildFetch, QueueForLock,
               HasUsableToken
<1>12. ASSUME NEW t \in Tasks, Fail(t) PROVE AttemptInv'
  BY <1>12 DEF Fail, Finish
<1>13. ASSUME NEW token \in Tokens, Expire(token) PROVE AttemptInv'
  BY <1>13 DEF Expire
<1>14. CASE UNCHANGED vars
  BY <1>14 DEF vars
<1> QED
  BY <1>1, <1>2, <1>3, <1>4, <1>5, <1>6, <1>7, <1>8, <1>9, <1>10, <1>11, <1>12,
     <1>13, <1>14 DEF Next, Progress

\* The repeated request has another token than the rejected one.
LEMMA RetryStep ==
  TypeOK /\ IssuedInv /\ RejectedInv /\ FetchedInv /\ AttemptInv /\ RetryUsesOtherToken
    /\ [Next]_vars
  => RetryUsesOtherToken'
<1> SUFFICES ASSUME TypeOK, IssuedInv, RejectedInv, FetchedInv, AttemptInv, RetryUsesOtherToken, [Next]_vars PROVE RetryUsesOtherToken'
  OBVIOUS
<1> USE DEF TypeOK, clientVars, taskVars, serverVars, FetchPc, DataPc, IssuedInv, RejectedInv, FetchedInv, AttemptInv, RetryUsesOtherToken
<1>1. ASSUME NEW t \in Tasks, BeginRequest(t) PROVE RetryUsesOtherToken'
  BY <1>1 DEF BeginRequest, EnsureToken, BuildData, BuildFetch, QueueForLock,
              HasUsableToken
<1>2. ASSUME NEW t \in Tasks, BeginLogin(t) PROVE RetryUsesOtherToken'
  BY <1>2 DEF BeginLogin, BuildFetch, QueueForLock
<1>3. ASSUME NEW t \in Tasks, AcquireTokenLock(t) PROVE RetryUsesOtherToken'
  BY <1>3 DEF AcquireTokenLock, BuildData, BuildFetch, HasUsableToken
<1>4. ASSUME NEW t \in Tasks, CancelWait(t) PROVE RetryUsesOtherToken'
  BY <1>4 DEF CancelWait, Finish
<1>5. ASSUME NEW t \in Tasks, SendFetch(t) PROVE RetryUsesOtherToken'
  BY <1>5 DEF SendFetch
<1>6. ASSUME NEW t \in Tasks, SendData(t) PROVE RetryUsesOtherToken'
  BY <1>6 DEF SendData
<1>7. ASSUME NEW t \in Tasks, ServeFetch(t) PROVE RetryUsesOtherToken'
  BY <1>7 DEF ServeFetch, Answer
<1>8. ASSUME NEW t \in Tasks, ServeData(t) PROVE RetryUsesOtherToken'
  BY <1>8 DEF ServeData, Answer
<1>9. ASSUME NEW t \in Tasks, ReceiveFetch(t) PROVE RetryUsesOtherToken'
  BY <1>9 DEF ReceiveFetch, Finish, BuildData
<1>10. ASSUME NEW t \in Tasks, ReceiveData(t) PROVE RetryUsesOtherToken'
  BY <1>10 DEF ReceiveData, Finish
<1>11. ASSUME NEW t \in Tasks, ReceiveOverdue(t) PROVE RetryUsesOtherToken'
  BY <1>11 DEF ReceiveOverdue, EnsureToken, BuildData, BuildFetch, QueueForLock,
               HasUsableToken
<1>12. ASSUME NEW t \in Tasks, Fail(t) PROVE RetryUsesOtherToken'
  BY <1>12 DEF Fail, Finish
<1>13. ASSUME NEW token \in Tokens, Expire(token) PROVE RetryUsesOtherToken'
  BY <1>13 DEF Expire
<1>14. CASE UNCHANGED vars
  BY <1>14 DEF vars
<1> QED
  BY <1>1, <1>2, <1>3, <1>4, <1>5, <1>6, <1>7, <1>8, <1>9, <1>10, <1>11, <1>12,
     <1>13, <1>14 DEF Next, Progress

-----------------------------------------------------------------------------
\* The initial state satisfies the inductive invariant.
LEMMA InitIInv == Init => IInv
<1> SUFFICES ASSUME Init PROVE IInv
  OBVIOUS
<1> USE DEF Init, FetchPc, DataPc
<1>1. TypeOK
  BY DEF TypeOK, Kinds, Replies, NoReply, Answer
<1>2. LockInv
  BY SentinelAssumption DEF LockInv
<1>3. IssuedInv /\ RejectedInv /\ FetchedInv /\ AttemptInv
  BY DEF IssuedInv, RejectedInv, FetchedInv, AttemptInv
<1>4. HeldInv
  BY DEF HeldInv, TokenHostPaired
<1>5. RefreshOnlyWhenRejected /\ RetryUsesOtherToken
  BY DEF RefreshOnlyWhenRejected, RetryUsesOtherToken
<1> QED
  BY <1>1, <1>2, <1>3, <1>4, <1>5 DEF IInv

\* It is inductive: every part survives every step.
LEMMA NextIInv == IInv /\ [Next]_vars => IInv'
BY TypeStep, IssuedStep, LockStep, RejectedStep, FetchedStep, HeldStep,
   RefreshStep, AttemptStep, RetryStep DEF IInv

\* The inductive invariant holds in every reachable state.
THEOREM Invariance == Spec => []IInv
BY InitIInv, NextIInv, PTL DEF Spec

\* Every variable keeps its type.
THEOREM TypeCorrect == Spec => []TypeOK
<1>1. IInv => TypeOK
  BY DEF IInv
<1> QED
  BY <1>1, Invariance, PTL

\* Two coroutines never fetch a token at the same time.
THEOREM FetchExclusive == Spec => []OneFetchInFlight
<1>1. IInv => OneFetchInFlight
  BY DEF IInv, LockInv, OneFetchInFlight
<1> QED
  BY <1>1, Invariance, PTL

\* No request throws away a token that has not been refused.
THEOREM RefreshJustified == Spec => []RefreshOnlyWhenRejected
<1>1. IInv => RefreshOnlyWhenRejected
  BY DEF IInv
<1> QED
  BY <1>1, Invariance, PTL

\* A token never reaches a host it was not current on.
THEOREM TokenStaysWithHost == Spec => []TokenHostPaired
<1>1. IInv => TokenHostPaired
  BY DEF IInv, HeldInv
<1> QED
  BY <1>1, Invariance, PTL

\* The repeated request never carries the rejected token.
THEOREM RetryIsFresh == Spec => []RetryUsesOtherToken
<1>1. IInv => RetryUsesOtherToken
  BY DEF IInv
<1> QED
  BY <1>1, Invariance, PTL

\* A call never sends a third data request.
THEOREM RetryIsBounded == Spec => []AtMostOneRetry
<1>1. IInv => AtMostOneRetry
  BY DEF IInv, AttemptInv, AtMostOneRetry, TypeOK
<1> QED
  BY <1>1, Invariance, PTL

-----------------------------------------------------------------------------
\* A step that leaves token, rejections and fetcher alone is a stutter above.
LEMMA TokenStutter ==
  ASSUME UNCHANGED <<accessToken, rejected, Fetcher>>
  PROVE  UNCHANGED TokenFlight!vars
BY DEF TokenFlight!vars

\* Taking the lock to fetch is a Load, or a Force when it is for a login.
LEMMA FetchIsLoad ==
  ASSUME TypeOK, NEW t \in Tasks, tokenLock = NoTask, BuildFetch(t),
         UNCHANGED <<accessToken, rejected>>, kind' \in [Tasks -> Kinds],
         kind'[t] = "login" \/ accessToken \in rejected \cup {NoToken}
  PROVE  TokenFlight!Next
<1> DEFINE c == <<t, kind'[t]>>
<1>1. Fetcher = NoFetcher /\ Fetcher' = c
  BY SentinelAssumption DEF BuildFetch, Fetcher
<1>2. c \in Tasks \X Kinds
  OBVIOUS
<1>3. CASE accessToken \in rejected \cup {NoToken}
  <2>1. TokenFlight!Load("token", c)
    BY <1>1, <1>3 DEF TokenFlight!Load
  <2> QED
    BY <1>2, <2>1 DEF TokenFlight!Next
<1>4. CASE kind'[t] = "login"
  <2>1. TokenFlight!Force("token", c)
    BY <1>1, <1>4 DEF TokenFlight!Force
  <2> QED
    BY <1>2, <2>1 DEF TokenFlight!Next
<1> QED
  BY <1>3, <1>4

\* Asking for a token above: a load when it fetches, a stutter otherwise.
LEMMA EnsureTokenIsLoad ==
  ASSUME TypeOK, NEW t \in Tasks, NEW stale \in rejected \cup {NoToken},
         EnsureToken(t, stale), UNCHANGED <<accessToken, rejected, kind>>
  PROVE  [TokenFlight!Next]_(TokenFlight!vars)
<1>1. CASE UNCHANGED tokenLock
  BY <1>1, TokenStutter DEF Fetcher
<1>2. CASE ~HasUsableToken(stale) /\ LockIsFree /\ BuildFetch(t)
  BY <1>2, FetchIsLoad DEF HasUsableToken, LockIsFree, TypeOK
<1> QED
  BY <1>1, <1>2 DEF EnsureToken, QueueForLock

\* The end of a call above: nothing, or the fetch it was running is given up.
LEMMA FinishIsGiveUp ==
  ASSUME TypeOK, NEW t \in Tasks, Finish(t), UNCHANGED <<accessToken, rejected>>
  PROVE  [TokenFlight!Next]_(TokenFlight!vars)
<1>1. CASE tokenLock = t
  <2>1. Fetcher = <<t, kind[t]>> /\ Fetcher' = NoFetcher
    BY <1>1, SentinelAssumption DEF Finish, Fetcher
  <2>2. Fetcher # NoFetcher
    BY <2>1, SentinelAssumption DEF NoFetcher
  <2>3. TokenFlight!GiveUp("token")
    BY <2>1, <2>2 DEF TokenFlight!GiveUp
  <2> QED
    BY <2>3 DEF TokenFlight!Next
<1>2. CASE tokenLock # t
  BY <1>2, TokenStutter DEF Finish, Fetcher, TypeOK
<1> QED
  BY <1>1, <1>2

\* A fetched token is stored above at the same moment.
LEMMA ReceiveFetchIsStore ==
  ASSUME TypeOK, IssuedInv, LockInv, NEW t \in Tasks, ReceiveFetch(t)
  PROVE  TokenFlight!Next
<1>1. tokenLock = t /\ tokenLock' = NoTask
  BY DEF ReceiveFetch, Finish, LockInv, FetchPc
<1>2. Fetcher # NoFetcher /\ Fetcher' = NoFetcher
  BY <1>1, SentinelAssumption DEF Fetcher, NoFetcher
<1>3. reply[t].token \in Tokens /\ accessToken' = reply[t].token
  BY DEF ReceiveFetch, IssuedInv, TypeOK
<1>4. UNCHANGED rejected
  BY DEF ReceiveFetch, serverVars
<1>5. TokenFlight!Store("token", reply[t].token)
  BY <1>2, <1>3, <1>4 DEF TokenFlight!Store
<1> QED
  BY <1>3, <1>5 DEF TokenFlight!Next

\* Every step of the client is a step of SingleFlight or leaves it alone.
LEMMA TokenStep == IInv /\ [Next]_vars => [TokenFlight!Next]_(TokenFlight!vars)
<1> SUFFICES ASSUME IInv, [Next]_vars PROVE [TokenFlight!Next]_(TokenFlight!vars)
  OBVIOUS
<1> USE DEF IInv, clientVars, taskVars, serverVars
<1>1. ASSUME NEW t \in Tasks, BeginRequest(t)
      PROVE [TokenFlight!Next]_(TokenFlight!vars)
  BY <1>1, EnsureTokenIsLoad DEF BeginRequest
<1>2. ASSUME NEW t \in Tasks, BeginLogin(t)
      PROVE [TokenFlight!Next]_(TokenFlight!vars)
  <2>1. CASE LockIsFree
    <3>1. kind' \in [Tasks -> Kinds] /\ kind'[t] = "login"
      BY <1>2 DEF BeginLogin, TypeOK, Kinds
    <3>2. tokenLock = NoTask /\ BuildFetch(t) /\ UNCHANGED <<accessToken, rejected>>
      BY <1>2, <2>1 DEF BeginLogin, LockIsFree
    <3> QED
      BY <3>1, <3>2, FetchIsLoad
  <2>2. CASE ~LockIsFree
    <3>1. tokenLock # t
      BY <1>2 DEF BeginLogin, LockInv, FetchPc
    <3>2. UNCHANGED <<accessToken, rejected, Fetcher>>
      BY <1>2, <2>2, <3>1 DEF BeginLogin, QueueForLock, Fetcher, TypeOK
    <3> QED
      BY <3>2, TokenStutter
  <2> QED
    BY <2>1, <2>2
<1>3. ASSUME NEW t \in Tasks, AcquireTokenLock(t)
      PROVE [TokenFlight!Next]_(TokenFlight!vars)
  <2>1. CASE kind[t] = "request" /\ HasUsableToken(staleToken[t])
    BY <1>3, <2>1, TokenStutter DEF AcquireTokenLock, Fetcher
  <2>2. CASE ~(kind[t] = "request" /\ HasUsableToken(staleToken[t]))
    <3>1. tokenLock = NoTask /\ BuildFetch(t)
          /\ UNCHANGED <<accessToken, rejected, kind>>
      BY <1>3, <2>2 DEF AcquireTokenLock
    <3>2. kind[t] = "login" \/ accessToken \in rejected \cup {NoToken}
      BY <2>2 DEF HasUsableToken, RejectedInv, TypeOK, Kinds
    <3>3. kind' \in [Tasks -> Kinds]
      BY <3>1 DEF TypeOK
    <3> QED
      BY <3>1, <3>2, <3>3, FetchIsLoad
  <2> QED
    BY <2>1, <2>2
<1>4. ASSUME NEW t \in Tasks, CancelWait(t) \/ Fail(t) \/ ReceiveData(t)
      PROVE [TokenFlight!Next]_(TokenFlight!vars)
  BY <1>4, FinishIsGiveUp DEF CancelWait, Fail, ReceiveData
<1>5. ASSUME NEW t \in Tasks, SendFetch(t) \/ SendData(t) \/ ServeFetch(t)
      PROVE [TokenFlight!Next]_(TokenFlight!vars)
  BY <1>5, TokenStutter DEF SendFetch, SendData, ServeFetch, Fetcher
<1>6. ASSUME NEW t \in Tasks, ServeData(t)
      PROVE [TokenFlight!Next]_(TokenFlight!vars)
  <2>1. CASE tokenUsed[t] \in live
    BY <1>6, <2>1, TokenStutter DEF ServeData, Fetcher
  <2>2. CASE tokenUsed[t] \notin live
    <3>1. tokenUsed[t] \in Tokens
      BY <1>6 DEF ServeData, IssuedInv, TypeOK, DataPc
    <3>2. TokenFlight!Discredit(tokenUsed[t])
      BY <1>6, <2>2 DEF ServeData, TokenFlight!Discredit, Fetcher
    <3> QED
      BY <3>1, <3>2 DEF TokenFlight!Next
  <2> QED
    BY <2>1, <2>2
<1>7. ASSUME NEW t \in Tasks, ReceiveFetch(t)
      PROVE [TokenFlight!Next]_(TokenFlight!vars)
  BY <1>7, ReceiveFetchIsStore
<1>8. ASSUME NEW t \in Tasks, ReceiveOverdue(t)
      PROVE [TokenFlight!Next]_(TokenFlight!vars)
  BY <1>8, EnsureTokenIsLoad DEF ReceiveOverdue, RejectedInv
<1>9. ASSUME NEW token \in Tokens, Expire(token)
      PROVE [TokenFlight!Next]_(TokenFlight!vars)
  BY <1>9, TokenStutter DEF Expire, Fetcher
<1>10. CASE UNCHANGED vars
  BY <1>10, TokenStutter DEF vars, Fetcher
<1> QED
  BY <1>1, <1>2, <1>3, <1>4, <1>5, <1>6, <1>7, <1>8, <1>9, <1>10
     DEF Next, Progress

\* The client's token is a single-flight value: the lock, the re-check behind
\* it and the fetch implement the abstract load.
THEOREM TokenRefinement == Spec => TokenIsSingleFlight
<1>1. Init => TokenFlight!Init
  BY DEF Init, TokenFlight!Init, Fetcher
<1>2. IInv /\ [Next]_vars => [TokenFlight!Next]_(TokenFlight!vars)
  BY TokenStep
<1> QED
  BY <1>1, <1>2, Invariance, PTL DEF Spec, TokenIsSingleFlight, TokenFlight!SafeSpec
=============================================================================
