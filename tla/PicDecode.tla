----------------------------- MODULE PicDecode -----------------------------
(***************************************************************************)
(* Decrypting the pictures of alarms with the vendor's native library       *)
(* (pyimouapi/pic_decode.py).  load() and decrypt_bytes() block, so each    *)
(* call runs in a thread of an executor and they interleave between any two *)
(* statements; the picture itself was downloaded before (HttpSession).      *)
(*                                                                         *)
(* A picture is what was downloaded of it, the key it is encrypted with,    *)
(* and the buffer it needs.  What the native call makes of them is external.*)
(***************************************************************************)
EXTENDS Naturals, Sequences

CONSTANTS
  Threads,
  Libs, NoLib,   \* CDLL objects of libLCOpenSDK; there is one for each thread at least
  Serial,        \* the device's serial
  Password,      \* the device's password
  OtherPassword, \* one that is not the device's
  NoPassword,
  Pictures,      \* the pictures that are looked at, a subset of AnyPicture
  NoPicture

SerialAesKey == "md5 of the serial"
\* The functions of the library, the destructor being declared with the constructor.
Functions == {"ctor", "decrypt"}

Given == {Serial, Password, OtherPassword, NoPassword}
Keys == {SerialAesKey, Serial, Password, OtherPassword}

\* "two": the buffer of twice the data will do; "eight": four times that will.
AnyPicture ==
  {p \in [data : {"none", "part", "whole"}, jpeg : BOOLEAN,
          tcm : BOOLEAN, key : {SerialAesKey, Password}, needs : {"two", "eight", "more"}] :
     p.tcm => p.key = Password}

ASSUME PicturesAssumption ==
  /\ SerialAesKey \notin Given /\ Serial \notin {Password, OtherPassword, NoPassword}
  /\ Password \notin {OtherPassword, NoPassword} /\ OtherPassword # NoPassword
  /\ NoLib \notin Libs /\ NoPicture \notin AnyPicture /\ Pictures \subseteq AnyPicture

VARIABLES
  present,   \* both native libraries are in native_dir
  loaded,    \* _loaded
  sdk,       \* _sdk
  declared,  \* the functions that have their argtypes, each with its CDLL object
  at,        \* per thread: the statement it is at
  job,       \* per thread: the call of decrypt_bytes it makes, or made last
  left,      \* per thread: the key candidates from the one being tried on
  grown,     \* per thread: the buffer is the four times larger one
  outcome    \* per thread: how its last call ended
dvars == <<present, loaded, sdk, declared, at, job, left, grown, outcome>>

NoJob == [pic |-> NoPicture, given |-> NoPassword, ready |-> FALSE]
Jobs == [pic : Pictures, given : Given, ready : BOOLEAN] \cup {NoJob}

DecoderTypeOK ==
  /\ present \in BOOLEAN /\ loaded \in BOOLEAN
  /\ sdk \in Libs \cup {NoLib} /\ declared \subseteq Libs \X Functions
  /\ at \in [Threads -> {"idle", "open", "ctor", "decrypt", "try"}]
  /\ job \in [Threads -> Jobs]
  /\ left \in [Threads -> Seq(Keys)]
  /\ grown \in [Threads -> BOOLEAN]
  /\ outcome \in [Threads -> {"none", "no key", "not loaded", "empty", "short",
                              "wrong key", "too small", "not jpeg", "picture"}]

DecoderInit ==
  /\ present \in BOOLEAN
  /\ loaded = FALSE /\ sdk = NoLib /\ declared = {}
  /\ at = [t \in Threads |-> "idle"]
  /\ job = [t \in Threads |-> NoJob]
  /\ left = [t \in Threads |-> << >>]
  /\ grown = [t \in Threads |-> FALSE]
  /\ outcome = [t \in Threads |-> "none"]

-----------------------------------------------------------------------------
(* load(). *)

\* Without the libraries it raises at once; the call before is done with.
Load(t) ==
  /\ at[t] = "idle"
  /\ at' = IF loaded \/ ~present THEN at ELSE [at EXCEPT ![t] = "open"]
  /\ job' = [job EXCEPT ![t] = NoJob]
  /\ outcome' = [outcome EXCEPT ![t] = "none"]
  /\ UNCHANGED <<present, loaded, sdk, declared, left, grown>>

\* Loaded as soon as the library is open.
LoadOpen_Early(t) ==
  /\ at[t] = "open"
  /\ sdk' \in Libs \ ({f[1] : f \in declared} \cup {sdk})
  /\ loaded' = TRUE
  /\ at' = [at EXCEPT ![t] = "ctor"]
  /\ UNCHANGED <<present, declared, job, left, grown, outcome>>

\* Both libraries are opened; a new CDLL object knows no argtypes.
LoadOpen(t) ==
  /\ at[t] = "open"
  /\ sdk' \in Libs \ ({f[1] : f \in declared} \cup {sdk})
  /\ at' = [at EXCEPT ![t] = "ctor"]
  /\ UNCHANGED <<present, loaded, declared, job, left, grown, outcome>>

\* One of them cannot be opened.
LoadFails(t) ==
  /\ at[t] = "open"
  /\ at' = [at EXCEPT ![t] = "idle"]
  /\ UNCHANGED <<present, loaded, sdk, declared, job, left, grown, outcome>>

\* A function of whatever _sdk is now is looked up and gets its argtypes; after the
\* last one the library counts as loaded.  That the library lacks a function, so
\* that every load() raises here and none counts, is left out.
LoadDeclare(t, f) ==
  /\ at[t] = f
  /\ declared' = declared \cup {<<sdk, f>>}
  /\ IF f = "decrypt"
       THEN loaded' = TRUE /\ at' = [at EXCEPT ![t] = "idle"]
       ELSE loaded' = loaded /\ at' = [at EXCEPT ![t] = "decrypt"]
  /\ UNCHANGED <<present, sdk, job, left, grown, outcome>>

-----------------------------------------------------------------------------
(* decrypt_bytes(). *)

\* resolve_encrypt_key: a password is always taken; without one only a device
\* without TCM has a key.
ResolveEncryptKey(tcm, given) ==
  IF given # NoPassword THEN given ELSE IF tcm THEN NoPassword ELSE Serial

KeyCandidates_OneKind(tcm, key) ==
  IF key # Serial THEN <<key>> ELSE <<SerialAesKey>>

\* _key_candidates.
KeyCandidates(tcm, key) ==
  IF tcm THEN <<key>>
  ELSE IF key = Serial THEN <<SerialAesKey>>
  ELSE <<SerialAesKey, key>>

BeginDecrypt(t, p, given) ==
  LET key == ResolveEncryptKey(p.tcm, given)
      ends == IF key = NoPassword THEN "no key" ELSE IF p.data = "none" THEN "empty" ELSE "none"
  IN
  /\ at[t] = "idle"
  /\ job' = [job EXCEPT ![t] = [pic |-> p, given |-> given, ready |-> loaded]]
  /\ outcome' = [outcome EXCEPT ![t] = ends]
  /\ IF ends = "none"
       THEN at' = [at EXCEPT ![t] = "try"]
            /\ left' = [left EXCEPT ![t] = KeyCandidates(p.tcm, key)]
       ELSE UNCHANGED <<at, left>>
  /\ grown' = [grown EXCEPT ![t] = FALSE]
  /\ UNCHANGED <<present, loaded, sdk, declared>>

\* decryptDataWithoutHead (external): what it may answer.  A buffer that is too
\* small may be noticed before the key is.
Answers(p, key, large) ==
  LET fits == p.needs = "two" \/ (p.needs = "eight" /\ large)
  IN IF p.data = "part" THEN {"short"}
     ELSE (IF fits THEN {} ELSE {"too small"})
          \cup (IF key # p.key THEN {"wrong key"} ELSE IF fits THEN {"done"} ELSE {})

EndDecrypt(t, how) ==
  /\ outcome' = [outcome EXCEPT ![t] = how]
  /\ at' = [at EXCEPT ![t] = "idle"]
  /\ left' = [left EXCEPT ![t] = << >>]
  /\ grown' = [grown EXCEPT ![t] = FALSE]

\* Too small a buffer is tried once more, four times larger; a wrong key gives
\* way to the next candidate; any other code is the last.
After(t, code) ==
  IF code = "too small" /\ ~grown[t]
    THEN /\ grown' = [grown EXCEPT ![t] = TRUE]
         /\ UNCHANGED <<at, left, outcome>>
  ELSE IF code = "wrong key" /\ Len(left[t]) > 1
    THEN /\ left' = [left EXCEPT ![t] = Tail(@)]
         /\ grown' = [grown EXCEPT ![t] = FALSE]
         /\ UNCHANGED <<at, outcome>>
    ELSE EndDecrypt(t, IF code # "done" THEN code
                ELSE IF job[t].pic.jpeg THEN "picture" ELSE "not jpeg")

\* _decrypt_data: one native call, through the library that is loaded now.
Try(t) ==
  /\ at[t] = "try"
  /\ IF loaded
       THEN \E code \in Answers(job[t].pic, Head(left[t]), grown[t]) : After(t, code)
       ELSE EndDecrypt(t, "not loaded")
  /\ UNCHANGED <<present, loaded, sdk, declared, job>>

-----------------------------------------------------------------------------
\* The caller puts the libraries into native_dir (external).
Install ==
  /\ ~present /\ present' = TRUE
  /\ UNCHANGED <<loaded, sdk, declared, at, job, left, grown, outcome>>

DecoderNext ==
  \/ \E t \in Threads :
       \/ Load(t) \/ LoadOpen(t) \/ LoadFails(t)
       \/ \E f \in Functions : LoadDeclare(t, f)
       \/ \E p \in Pictures, given \in Given : BeginDecrypt(t, p, given)
       \/ Try(t)
  \/ Install

DecoderSpec == DecoderInit /\ [][DecoderNext]_dvars

-----------------------------------------------------------------------------
\* A key for p is known: without TCM the serial may do, else the password must
\* be the device's.
KeyIsKnown(p, given) ==
  p.key = SerialAesKey \/ given = Password

\* With the library loaded, a picture that is all there is decrypted exactly
\* when a key for it is known and it fits the larger buffer, whatever else the
\* caller gave as the password, and however many loads go on meanwhile.
RightKeyIsFound ==
  \A t \in Threads :
    at[t] = "idle" /\ job[t].ready =>
      LET p == job[t].pic IN
      outcome[t] = "picture" <=>
        p.data = "whole" /\ p.jpeg /\ p.needs # "more" /\ KeyIsKnown(p, job[t].given)

\* No function of a library is called before it has its argtypes, unless a second
\* load() has put its library over one that had them and is about to give it
\* its own.
DeclaredBeforeUse ==
  \A t \in Threads, f \in Functions :
    at[t] = "try" /\ loaded /\ <<sdk, f>> \notin declared =>
      /\ \E l \in Libs : <<l, f>> \in declared
      /\ \E u \in Threads : at[u] \in {"ctor", f}
=============================================================================
