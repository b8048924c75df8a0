---------------------------- MODULE AlarmPicture ----------------------------
(***************************************************************************)
(* A picture of an alarm, from the push to the screen: its address is taken *)
(* from the payload (PushPayload), it is downloaded through the shared       *)
(* session (HttpSession), and what has come is decrypted in a thread         *)
(* (PicDecode), while requests of the API, the end of the session and other  *)
(* threads that load the library go on.                                     *)
(*                                                                         *)
(* The caller who joins the three is external: the docs of push.py and       *)
(* pic_decode.py say in which order.                                        *)
(***************************************************************************)
EXTENDS HttpSession, PicDecode, PushPayload

CONSTANT Pushes   \* the payloads that are looked at, a subset of AnyPush

\* The picture fields in the order of push.py, each a list.
AnyPush ==
  [type : MsgTypes, hasProduct : BOOLEAN, fields : [1..4 -> Seq(Urls \cup {Other})]]

ASSUME ThreadsAssumption == Downloads \subseteq Threads /\ Pushes \subseteq AnyPush

VARIABLES
  push,  \* per download: the payload it comes from, until it starts
  url    \* per download: the address taken from it

NoPush == [type |-> "none", hasProduct |-> FALSE, fields |-> [i \in 1..4 |-> << >>]]
pvars == <<vars, dvars, push, url>>

\* What a download that ended so can have brought of a picture.
Brought(how) ==
  CASE how = "part" -> {"part"} [] how = "whole" -> {"whole", "none"} [] OTHER -> {}

PictureInit ==
  /\ Init /\ DecoderInit
  /\ push = [d \in Downloads |-> NoPush]
  /\ url = [d \in Downloads |-> NoUrl]

IsWanted(p) == IsAlarmMsgType(p.type) /\ ~IsIotNonEvent(p.hasProduct, p.type)

\* A push comes, unless one waits; the last picture is done with.
PushArrives(d, p) ==
  /\ pc[d] = "idle" /\ at[d] = "idle" /\ url[d] = NoUrl
  /\ push' = [push EXCEPT ![d] = p]
  /\ url' = [url EXCEPT ![d] = IF IsWanted(p) THEN PreferredPicUrl(PicUrls(p.fields)) ELSE NoUrl]
  /\ result' = [result EXCEPT ![d] = "none"]
  /\ job' = [job EXCEPT ![d] = NoJob]
  /\ outcome' = [outcome EXCEPT ![d] = "none"]
  /\ UNCHANGED <<owned, current, open, closing, pc, uses, body>>
  /\ UNCHANGED <<present, loaded, sdk, declared, at, left, grown>>

BeginDownload(d) ==
  /\ url[d] # NoUrl
  /\ Begin(d)
  /\ push' = [push EXCEPT ![d] = NoPush]
  /\ url' = [url EXCEPT ![d] = NoUrl]
  /\ UNCHANGED dvars

DecryptDownload(d, p, given) ==
  /\ pc[d] = "idle" /\ p.data \in Brought(result[d])
  /\ job[d] = NoJob
  /\ BeginDecrypt(d, p, given)
  /\ UNCHANGED <<vars, push, url>>

HttpStep ==
  \/ \E r \in Api : Begin(r)
  \/ \E r \in Requests :
       \/ AsyncGetSession(r) \/ Connect(r)
       \/ \E much \in {"part", "whole"} : BodyArrives(r, much)
       \/ BodyRead(r) \/ Fails(r)
  \/ AsyncClose \/ Closed \/ CallerCloses

LoadStep(t) ==
  Load(t) \/ LoadOpen(t) \/ LoadFails(t) \/ \E f \in Functions : LoadDeclare(t, f)

PictureNext ==
  \/ HttpStep /\ UNCHANGED <<dvars, push, url>>
  \/ \E d \in Downloads :
       \/ \E p \in Pushes : PushArrives(d, p)
       \/ BeginDownload(d)
       \/ \E p \in Pictures, given \in Given : DecryptDownload(d, p, given)
  \/ \E t \in Threads : (LoadStep(t) \/ Try(t)) /\ UNCHANGED <<vars, push, url>>
  \/ Install /\ UNCHANGED <<vars, push, url>>

PictureSpec == PictureInit /\ [][PictureNext]_pvars
PictureFairSpec == PictureSpec /\ Fairness

-----------------------------------------------------------------------------
\* An alarm that carries an address in any of the fields has its picture
\* downloaded, whatever else is in the fields before it.
UsableUrlIsTaken ==
  \A d \in Downloads :
    url[d] # NoUrl <=>
      /\ IsWanted(push[d])
      /\ \E i \in 1..4 : \E j \in DOMAIN push[d].fields[i] : push[d].fields[i][j] \in Urls

\* A download that succeeds has the whole picture (openapi.py:124 "GET a binary
\* payload such as a device snapshot"), so that none fails to decrypt for being
\* short (pic_decode.py:5 "a short body fails the decrypt with code 1 on a
\* picture that is perfectly decryptable").
NothingIsShort ==
  \A d \in Downloads : outcome[d] # "short"
=============================================================================
