--------------------------- MODULE OpenApiClient ---------------------------
(***************************************************************************)
(* The token lifecycle of ImouOpenApiClient (pyimouapi/openapi.py).        *)
(*                                                                         *)
(* Tasks are asyncio coroutines calling async_request_api ("request") or   *)
(* async_get_token ("login").  A step is the code one coroutine runs       *)
(* between two points where it can really be suspended: the token lock     *)
(* when it is taken, the HTTP session, the wire.  Two coroutines never     *)
(* interleave inside a step.                                               *)
(*                                                                         *)
(* The platform (tokens it minted, tokens still alive) is external: it is  *)
(* modelled from the answers the code distinguishes.                       *)
(***************************************************************************)
EXTENDS Naturals, FiniteSets

CONSTANTS
  Tasks,     \* coroutines that may be inside the client at once
  Tokens,    \* access tokens the platform can mint
  Hosts,     \* API hosts, the configured one and the regional ones
  NoTask, NoToken, NoHost

ASSUME SentinelAssumption ==
  NoTask \notin Tasks /\ NoToken \notin Tokens /\ NoHost \notin Hosts

VARIABLES
  accessToken,  \* self._access_token
  apiUrl,       \* self._api_url
  tokenLock,    \* owner of self._token_lock
  pc,           \* where each coroutine is suspended
  kind,         \* which entry point it is running
  firstTry,     \* refresh_on_expiry of the data request
  staleToken,   \* the token it saw rejected
  tokenUsed,    \* payload[PARAM_TOKEN] of its data request
  hostUsed,     \* host in the url of its request
  reply,        \* what the platform answered
  live,         \* platform: tokens it accepts
  issued,       \* platform: tokens it ever minted
  rejected,     \* history: tokens answered with ERROR_CODE_TOKEN_OVERDUE
  held,         \* history: <<token, host>> pairs the client held together
  attempts      \* history: data requests sent by the current call

clientVars == <<accessToken, apiUrl, tokenLock>>
taskVars   == <<pc, kind, firstTry, staleToken, tokenUsed, hostUsed, reply>>
serverVars == <<live, issued, rejected>>
vars == <<clientVars, taskVars, serverVars, held, attempts>>

FetchPc == {"fetchSession", "fetchSent", "fetchReply"}
DataPc  == {"session", "sent", "reply"}
Kinds   == {"request", "login"}
Answer(code) == [code |-> code, token |-> NoToken, host |-> NoHost]
NoReply == Answer("none")
Replies == [code : {"none", "ok", "overdue"},
            token : Tokens \cup {NoToken}, host : Hosts \cup {NoHost}]

TypeOK ==
  /\ accessToken \in Tokens \cup {NoToken}
  /\ apiUrl \in Hosts
  /\ tokenLock \in Tasks \cup {NoTask}
  /\ pc \in [Tasks -> {"idle", "lock"} \cup FetchPc \cup DataPc]
  /\ kind \in [Tasks -> Kinds]
  /\ firstTry \in [Tasks -> BOOLEAN]
  /\ staleToken \in [Tasks -> Tokens \cup {NoToken}]
  /\ tokenUsed \in [Tasks -> Tokens \cup {NoToken}]
  /\ hostUsed \in [Tasks -> Hosts \cup {NoHost}]
  /\ reply \in [Tasks -> Replies]
  /\ live \subseteq Tokens /\ issued \subseteq Tokens /\ rejected \subseteq Tokens
  /\ held \subseteq Tokens \X Hosts
  /\ attempts \in [Tasks -> Nat]

Init ==
  /\ accessToken = NoToken
  /\ apiUrl \in Hosts
  /\ tokenLock = NoTask
  /\ pc = [t \in Tasks |-> "idle"]
  /\ kind = [t \in Tasks |-> "request"]
  /\ firstTry = [t \in Tasks |-> TRUE]
  /\ staleToken = [t \in Tasks |-> NoToken]
  /\ tokenUsed = [t \in Tasks |-> NoToken]
  /\ hostUsed = [t \in Tasks |-> NoHost]
  /\ reply = [t \in Tasks |-> NoReply]
  /\ live = {} /\ issued = {} /\ rejected = {}
  /\ held = {}
  /\ attempts = [t \in Tasks |-> 0]

-----------------------------------------------------------------------------
(* Steps of a coroutine.  A definition with an underscore in its name is a   *)
(* plausible slip in the one it is named after; it is not part of Next and   *)
(* only shows which property notices the slip.                               *)

\* The rejected token is not compared with the current one.
HasUsableToken_AnyToken(stale) == accessToken # NoToken

\* _has_usable_token(stale_token)
HasUsableToken(stale) == accessToken # NoToken /\ accessToken # stale

\* The token lock can be taken without suspending: asyncio.Lock is free and
\* nobody queues for it.
LockIsFree == tokenLock = NoTask /\ \A u \in Tasks : pc[u] # "lock"

\* Capture token and host for the data request and go for the HTTP session.
BuildData(t, token, host) ==
  /\ pc' = [pc EXCEPT ![t] = "session"]
  /\ tokenUsed' = [tokenUsed EXCEPT ![t] = token]
  /\ hostUsed' = [hostUsed EXCEPT ![t] = host]

\* Start the accessToken request; the caller holds the token lock.
BuildFetch(t) ==
  /\ tokenLock' = t
  /\ pc' = [pc EXCEPT ![t] = "fetchSession"]
  /\ hostUsed' = [hostUsed EXCEPT ![t] = apiUrl]
  /\ UNCHANGED tokenUsed

QueueForLock(t) ==
  /\ pc' = [pc EXCEPT ![t] = "lock"]
  /\ UNCHANGED <<tokenLock, tokenUsed, hostUsed>>

\* _async_ensure_token(stale) up to its first suspension, and the data
\* request it leads to when no suspension is needed.
EnsureToken(t, stale) ==
  \/ HasUsableToken(stale) /\ BuildData(t, accessToken, apiUrl) /\ UNCHANGED tokenLock
  \/ ~HasUsableToken(stale) /\ LockIsFree /\ BuildFetch(t)
  \/ ~HasUsableToken(stale) /\ ~LockIsFree /\ QueueForLock(t)

\* The lock survives an exception raised while it is held.
Finish_KeepLock(t) ==
  /\ pc' = [pc EXCEPT ![t] = "idle"]
  /\ kind' = [kind EXCEPT ![t] = "request"]
  /\ firstTry' = [firstTry EXCEPT ![t] = TRUE]
  /\ staleToken' = [staleToken EXCEPT ![t] = NoToken]
  /\ tokenUsed' = [tokenUsed EXCEPT ![t] = NoToken]
  /\ hostUsed' = [hostUsed EXCEPT ![t] = NoHost]
  /\ reply' = [reply EXCEPT ![t] = NoReply]
  /\ attempts' = [attempts EXCEPT ![t] = 0]
  /\ UNCHANGED tokenLock

\* The coroutine returns or raises: its locals go, and so does the lock.
Finish(t) ==
  /\ pc' = [pc EXCEPT ![t] = "idle"]
  /\ kind' = [kind EXCEPT ![t] = "request"]
  /\ firstTry' = [firstTry EXCEPT ![t] = TRUE]
  /\ staleToken' = [staleToken EXCEPT ![t] = NoToken]
  /\ tokenUsed' = [tokenUsed EXCEPT ![t] = NoToken]
  /\ hostUsed' = [hostUsed EXCEPT ![t] = NoHost]
  /\ reply' = [reply EXCEPT ![t] = NoReply]
  /\ attempts' = [attempts EXCEPT ![t] = 0]
  /\ tokenLock' = IF tokenLock = t THEN NoTask ELSE tokenLock

\* async_request_api(endpoint, params)
BeginRequest(t) ==
  /\ pc[t] = "idle"
  /\ EnsureToken(t, NoToken)
  /\ UNCHANGED <<accessToken, apiUrl, kind, firstTry, staleToken, reply,
                 serverVars, held, attempts>>

\* async_get_token(): fetches whatever token is held.
BeginLogin(t) ==
  /\ pc[t] = "idle"
  /\ kind' = [kind EXCEPT ![t] = "login"]
  /\ IF LockIsFree THEN BuildFetch(t) ELSE QueueForLock(t)
  /\ UNCHANGED <<accessToken, apiUrl, firstTry, staleToken, reply,
                 serverVars, held, attempts>>

\* A waiter fetches without looking whether somebody has refreshed.
AcquireTokenLock_NoRecheck(t) ==
  /\ pc[t] = "lock"
  /\ tokenLock = NoTask
  /\ BuildFetch(t)
  /\ UNCHANGED <<accessToken, apiUrl, kind, firstTry, staleToken, reply,
                 serverVars, held, attempts>>

\* A waiter gets the lock.  An _async_ensure_token waiter re-checks first and
\* gives the lock straight back when somebody has refreshed meanwhile.
AcquireTokenLock(t) ==
  /\ pc[t] = "lock"
  /\ tokenLock = NoTask
  /\ IF kind[t] = "request" /\ HasUsableToken(staleToken[t])
       THEN BuildData(t, accessToken, apiUrl) /\ UNCHANGED tokenLock
       ELSE BuildFetch(t)
  /\ UNCHANGED <<accessToken, apiUrl, kind, firstTry, staleToken, reply,
                 serverVars, held, attempts>>

\* _async_get_session() returned, the request goes out.
SendFetch(t) ==
  /\ pc[t] = "fetchSession"
  /\ pc' = [pc EXCEPT ![t] = "fetchSent"]
  /\ UNCHANGED <<clientVars, kind, firstTry, staleToken, tokenUsed, hostUsed,
                 reply, serverVars, held, attempts>>

\* The url is formatted after the wait for the session, the token before it.
SendData_LateHost(t) ==
  /\ pc[t] = "session"
  /\ pc' = [pc EXCEPT ![t] = "sent"]
  /\ attempts' = [attempts EXCEPT ![t] = @ + 1]
  /\ hostUsed' = [hostUsed EXCEPT ![t] = apiUrl]
  /\ UNCHANGED <<clientVars, kind, firstTry, staleToken, tokenUsed,
                 reply, serverVars, held>>

SendData(t) ==
  /\ pc[t] = "session"
  /\ pc' = [pc EXCEPT ![t] = "sent"]
  /\ attempts' = [attempts EXCEPT ![t] = @ + 1]
  /\ UNCHANGED <<clientVars, kind, firstTry, staleToken, tokenUsed, hostUsed,
                 reply, serverVars, held>>

\* The accessToken answer arrives: store the token, follow a regional
\* redirect, release the lock and, for a request, go on to the data request.
ReceiveFetch(t) ==
  LET token == reply[t].token
      host == IF reply[t].host = NoHost THEN apiUrl ELSE reply[t].host
  IN
  /\ pc[t] = "fetchReply" /\ reply[t].code = "ok"
  /\ accessToken' = token
  /\ apiUrl' = host
  /\ held' = held \cup {<<token, host>>}
  /\ IF kind[t] = "login"
       THEN Finish(t)
       ELSE /\ tokenLock' = NoTask
            /\ BuildData(t, token, host)
            /\ reply' = [reply EXCEPT ![t] = NoReply]
            /\ UNCHANGED <<kind, firstTry, staleToken, attempts>>
  /\ UNCHANGED serverVars

\* The data answer arrives and the call returns.
ReceiveData(t) ==
  /\ pc[t] = "reply" /\ reply[t].code = "ok"
  /\ Finish(t)
  /\ UNCHANGED <<accessToken, apiUrl, serverVars, held>>

\* The data answer is TK1002: refresh unless somebody already has, and send
\* the request once more with refresh_on_expiry=False.
ReceiveOverdue(t) ==
  /\ pc[t] = "reply" /\ reply[t].code = "overdue" /\ firstTry[t]
  /\ EnsureToken(t, tokenUsed[t])
  /\ firstTry' = [firstTry EXCEPT ![t] = FALSE]
  /\ staleToken' = [staleToken EXCEPT ![t] = tokenUsed[t]]
  /\ reply' = [reply EXCEPT ![t] = NoReply]
  /\ UNCHANGED <<accessToken, apiUrl, kind, serverVars, held, attempts>>

\* The HTTP leg raises: the injected session is closed, the transport fails,
\* the 30 s deadline passes, the answer is an HTTP error, malformed, a refusal
\* or any other code, or the coroutine is cancelled.
Fail(t) ==
  /\ pc[t] \in FetchPc \cup DataPc
  /\ Finish(t)
  /\ UNCHANGED <<accessToken, apiUrl, serverVars, held>>

\* Cancelled while queued for the lock, which no deadline covers.
CancelWait(t) ==
  /\ pc[t] = "lock"
  /\ Finish(t)
  /\ UNCHANGED <<accessToken, apiUrl, serverVars, held>>

-----------------------------------------------------------------------------
(* The platform (external). *)

\* accessToken: mint a token, hand out one that is still alive, or answer
\* TK1002; with or without currentDomain.  It is assumed that the platform never
\* hands out a token again that it has rejected; RetryUsesOtherToken rests on it.
ServeFetch(t) ==
  /\ pc[t] = "fetchSent"
  /\ pc' = [pc EXCEPT ![t] = "fetchReply"]
  /\ \/ \E token \in live \cup (Tokens \ issued), host \in Hosts \cup {NoHost} :
          /\ reply' = [reply EXCEPT ![t] =
                         [code |-> "ok", token |-> token, host |-> host]]
          /\ live' = live \cup {token}
          /\ issued' = issued \cup {token}
     \/ /\ reply' = [reply EXCEPT ![t] = Answer("overdue")]
        /\ UNCHANGED <<live, issued>>
  /\ UNCHANGED <<clientVars, kind, firstTry, staleToken, tokenUsed, hostUsed,
                 rejected, held, attempts>>

\* A data endpoint: TK1002 exactly when the token is no longer alive.
ServeData(t) ==
  LET alive == tokenUsed[t] \in live IN
  /\ pc[t] = "sent"
  /\ pc' = [pc EXCEPT ![t] = "reply"]
  /\ reply' = [reply EXCEPT ![t] = Answer(IF alive THEN "ok" ELSE "overdue")]
  /\ rejected' = IF alive THEN rejected ELSE rejected \cup {tokenUsed[t]}
  /\ UNCHANGED <<clientVars, kind, firstTry, staleToken, tokenUsed, hostUsed,
                 live, issued, held, attempts>>

\* A token's lifetime ends, at any moment.
Expire(token) ==
  /\ token \in live
  /\ live' = live \ {token}
  /\ UNCHANGED <<clientVars, taskVars, issued, rejected, held, attempts>>

-----------------------------------------------------------------------------
Progress(t) ==
  \/ SendFetch(t) \/ SendData(t)
  \/ ServeFetch(t) \/ ServeData(t)
  \/ ReceiveFetch(t) \/ ReceiveData(t) \/ ReceiveOverdue(t)
  \/ Fail(t)

Next ==
  \/ \E t \in Tasks : \/ BeginRequest(t) \/ BeginLogin(t)
                      \/ AcquireTokenLock(t) \/ CancelWait(t)
                      \/ Progress(t)
  \/ \E token \in Tokens : Expire(token)

Spec == Init /\ [][Next]_vars

\* The event loop runs every ready coroutine and asyncio.timeout(30) ends every
\* wait on the wire (Fail); asyncio.Lock wakes its waiters in order, so a
\* waiter is not passed over for ever.  Nobody has to start or cancel a call.
Fairness == \A t \in Tasks : WF_vars(Progress(t)) /\ SF_vars(AcquireTokenLock(t))

FairSpec == Spec /\ Fairness

-----------------------------------------------------------------------------
(* Safety. *)

\* Coroutines coalesce into a single accessToken request: whoever is fetching
\* owns the token lock, so there is never a second fetch in flight
\* (openapi.py:182 "Concurrent callers coalesce into a single request").
OneFetchInFlight ==
  \A t \in Tasks : pc[t] \in FetchPc => tokenLock = t

\* A data request never makes the client drop a token that nobody has seen
\* rejected: while it fetches, the current token is missing or was refused
\* (openapi.py:184 "a refresh only happens while that same token is still the
\* current one").  A burst of TK1002 for one token costs one fetch.
RefreshOnlyWhenRejected ==
  \A t \in Tasks : pc[t] \in FetchPc /\ kind[t] = "request" =>
    accessToken \in rejected \cup {NoToken}

\* A data request carries a token to the host that token was current on, even
\* when a refresh moves the client to another region while the request waits
\* for the session (openapi.py:224 and :244 with no suspension between them).
TokenHostPaired ==
  \A t \in Tasks : pc[t] \in DataPc => <<tokenUsed[t], hostUsed[t]>> \in held

\* The request repeated after TK1002 never goes out with the rejected token,
\* whichever coroutine refreshed (openapi.py:290-294).
RetryUsesOtherToken ==
  \A t \in Tasks : pc[t] \in DataPc /\ ~firstTry[t] => tokenUsed[t] # staleToken[t]

\* One call puts at most two data requests on the wire, however often the
\* platform rejects fresh tokens (openapi.py:293 refresh_on_expiry=False).
AtMostOneRetry ==
  \A t \in Tasks : attempts[t] <= 2

(* Liveness. *)

\* Every call returns or raises: no coroutine is left waiting for a lock that
\* its owner lost track of, nor does a refresh wait for itself.
EveryCallEnds ==
  \A t \in Tasks : pc[t] # "idle" ~> pc[t] = "idle"

(* Refinement. *)

\* The coroutine that is fetching, and for which entry point.
NoFetcher == <<NoTask, "nobody">>
Fetcher == IF tokenLock = NoTask THEN NoFetcher ELSE <<tokenLock, kind[tokenLock]>>

\* The token is a SingleFlight value; only async_get_token forces a load.
TokenFlight == INSTANCE SingleFlight WITH
  Keys <- {"token"},
  Callers <- Tasks \X Kinds,
  Forcers <- Tasks \X {"login"},
  Values <- Tokens,
  NoCaller <- NoFetcher,
  NoValue <- NoToken,
  value <- [k \in {"token"} |-> accessToken],
  bad <- rejected,
  loader <- [k \in {"token"} |-> Fetcher]

\* Lock, re-check and fetch together give what SingleFlight promises.
TokenIsSingleFlight == TokenFlight!SafeSpec
=============================================================================
