---------------------------- MODULE HttpSession ----------------------------
(***************************************************************************)
(* The HTTP session that every request of the client goes through: made on  *)
(* demand, replaced when it is closed, closed by async_close unless the     *)
(* caller owns it, with a pool of connections per host if the client made it *)
(* (pyimouapi/openapi.py 100-168, 247-257).                                 *)
(*                                                                         *)
(* Under _session_lock only async_close waits, for the session to close;    *)
(* everything else is done in one step once the lock is free.  What the     *)
(* platform answers to an API request is OpenApiClient's.                   *)
(***************************************************************************)
EXTENDS Naturals, FiniteSets

CONSTANTS
  Api,        \* coroutines that send a request to the API host
  Downloads,  \* coroutines in async_download, from the storage host
  Sessions,   \* identities of sessions, used again once nobody has them
  NoSession,
  Limit       \* CONNECTION_LIMIT, or what the connector of the caller's
              \* session is limited to

Requests == Api \cup Downloads

ASSUME SessionAssumption ==
  /\ Api \cap Downloads = {} /\ NoSession \notin Sessions
  /\ Limit \in Nat \ {0}

VARIABLES
  owned,    \* _owns_session
  current,  \* _session
  open,     \* sessions that are not closed
  closing,  \* the session async_close waits for; it holds the lock meanwhile
  pc,       \* per request: where it is
  uses,     \* per request: its session
  body,     \* per request: what has come of the body
  result    \* per request: how its last call ended
vars == <<owned, current, open, closing, pc, uses, body, result>>

TypeOK ==
  /\ owned \in BOOLEAN
  /\ current \in Sessions \cup {NoSession} /\ closing \in Sessions \cup {NoSession}
  /\ open \subseteq Sessions
  /\ pc \in [Requests -> {"idle", "session", "queued", "connected"}]
  /\ uses \in [Requests -> Sessions \cup {NoSession}]
  /\ body \in [Requests -> {"none", "part", "whole"}]
  /\ result \in [Requests -> {"none", "failed", "part", "whole"}]

Init ==
  /\ owned \in BOOLEAN
  /\ IF owned THEN current = NoSession /\ open = {}
              ELSE current \in Sessions /\ open = {current}
  /\ closing = NoSession
  /\ pc = [r \in Requests |-> "idle"]
  /\ uses = [r \in Requests |-> NoSession]
  /\ body = [r \in Requests |-> "none"]
  /\ result = [r \in Requests |-> "none"]

-----------------------------------------------------------------------------
LockIsFree == closing = NoSession
Unused == Sessions \ (open \cup {current, closing} \cup {uses[r] : r \in Requests})
NewSession == CHOOSE s \in Unused : TRUE   \* their identity does not matter

Begin(r) ==
  /\ pc[r] = "idle"
  /\ pc' = [pc EXCEPT ![r] = "session"]
  /\ result' = [result EXCEPT ![r] = "none"]
  /\ UNCHANGED <<owned, current, open, closing, uses, body>>

\* The call returns or raises, and its connection is released with it.
End(r, how) ==
  /\ pc' = [pc EXCEPT ![r] = "idle"]
  /\ uses' = [uses EXCEPT ![r] = NoSession]
  /\ body' = [body EXCEPT ![r] = "none"]
  /\ result' = [result EXCEPT ![r] = how]

\* The request goes out in the session s.
Use(r, s) ==
  /\ pc' = [pc EXCEPT ![r] = "queued"]
  /\ uses' = [uses EXCEPT ![r] = s]
  /\ UNCHANGED <<body, result>>

\* _async_get_session: the session there is, or a new one; one of the caller's
\* is not replaced when the caller has closed it.
AsyncGetSession(r) ==
  /\ pc[r] = "session" /\ LockIsFree
  /\ IF current \in open
       THEN Use(r, current) /\ UNCHANGED <<current, open>>
     ELSE IF ~owned
       THEN End(r, "failed") /\ UNCHANGED <<current, open>>
     ELSE /\ Unused # {}
          /\ current' = NewSession /\ open' = open \cup {NewSession}
          /\ Use(r, NewSession)
  /\ UNCHANGED <<owned, closing>>

\* The connections of a session that some of the requests have.
Connections(s, some) == {q \in some : pc[q] = "connected" /\ uses[q] = s}

\* One pool for all hosts, whoever made the session.
HasSlot_OnePool(r) == Cardinality(Connections(uses[r], Requests)) < Limit

\* limit_per_host: the connector of a session that the client has made counts the
\* connections of each host.  One that the caller has made is taken to have what
\* aiohttp gives it by default, a single pool for all hosts.  The client's has such
\* a pool too, of 100, which ten storage hosts would fill; there is one here.
HasSlot(r) ==
  LET host == IF r \in Api THEN Api ELSE Downloads
      pool == IF owned THEN host ELSE Requests
  IN Cardinality(Connections(uses[r], pool)) < Limit

Connect(r) ==
  /\ pc[r] = "queued" /\ uses[r] \in open /\ HasSlot(r)
  /\ pc' = [pc EXCEPT ![r] = "connected"]
  /\ UNCHANGED <<owned, current, open, closing, uses, body, result>>

\* Some of the body arrives, or the rest of it.
BodyArrives(r, much) ==
  /\ pc[r] = "connected" /\ body[r] # "whole" /\ body[r] # much
  /\ body' = [body EXCEPT ![r] = much]
  /\ UNCHANGED <<owned, current, open, closing, pc, uses, result>>

\* response.text() waits for the end of the body; StreamReader.read(n) of
\* async_download returns what has arrived.
BodyRead(r) ==
  /\ pc[r] = "connected"
  /\ IF r \in Api THEN body[r] = "whole" ELSE body[r] # "none"
  /\ End(r, body[r])
  /\ UNCHANGED <<owned, current, open, closing>>

\* The request cannot be made or completed: its session was closed, its deadline
\* has passed, it was refused, the body is over the size limit, or the caller
\* has cancelled it.  The context managers release the connection.
Fails(r) ==
  /\ pc[r] # "idle"
  /\ End(r, "failed")
  /\ UNCHANGED <<owned, current, open, closing>>

-----------------------------------------------------------------------------
\* The caller's session is closed as well.
AsyncClose_Anyones ==
  /\ LockIsFree
  /\ current' = NoSession
  /\ closing' = IF current \in open THEN current ELSE NoSession
  /\ UNCHANGED <<owned, open, pc, uses, body, result>>

\* async_close forgets the session, and then waits for it to close.
AsyncClose ==
  /\ LockIsFree /\ owned
  /\ current' = NoSession
  /\ closing' = IF current \in open THEN current ELSE NoSession
  /\ UNCHANGED <<owned, open, pc, uses, body, result>>

Closed ==
  /\ closing # NoSession
  /\ open' = open \ {closing} /\ closing' = NoSession
  /\ UNCHANGED <<owned, current, pc, uses, body, result>>

\* The owner of an injected session closes it (external).
CallerCloses ==
  /\ ~owned /\ open # {}
  /\ open' = {}
  /\ UNCHANGED <<owned, current, closing, pc, uses, body, result>>

-----------------------------------------------------------------------------
Next ==
  \/ \E r \in Requests :
       \/ Begin(r) \/ AsyncGetSession(r) \/ Connect(r)
       \/ \E much \in {"part", "whole"} : BodyArrives(r, much)
       \/ BodyRead(r) \/ Fails(r)
  \/ AsyncClose \/ Closed \/ CallerCloses

Spec == Init /\ [][Next]_vars

\* The lock and the pool serve those who wait in turn, the API host answers, a
\* session that is closed fails what it carries.  Storage may hang for ever, and
\* no request is saved by its deadline.
Fairness ==
  /\ WF_vars(Closed)
  /\ \A r \in Api :
       /\ SF_vars(AsyncGetSession(r)) /\ SF_vars(Connect(r))
       /\ WF_vars(BodyArrives(r, "whole")) /\ WF_vars(BodyRead(r))
       /\ WF_vars(uses[r] \in Sessions \ open /\ Fails(r))

FairSpec == Spec /\ Fairness

-----------------------------------------------------------------------------
\* No session the client has made is lost open: it is the one of the next
\* request and the next async_close, or is being closed.  A session of the
\* caller's stays and is nobody else's to close (openapi.py:160 "is left open").
SessionsHaveOneOwner ==
  IF owned THEN open \subseteq {current, closing}
           ELSE closing = NoSession /\ current \in Sessions

\* In a session that the client makes itself, however many downloads hang, closed
\* and made anew as the session may be, no request to the API host waits for them
\* (openapi.py:116 "a handful of slow downloads holding every slot").  A session
\* of the caller's is not promised that.
DownloadsNeverHoldTheApi ==
  owned => \A r \in Api : pc[r] # "idle" ~> pc[r] = "idle"
=============================================================================
