---------------------------- MODULE PictureProofs ----------------------------
(***************************************************************************)
(* Theorems about AlarmPicture for any number of requests, sessions,        *)
(* threads and pictures.  The session and the decoder share no state, so    *)
(* each has its own inductive invariant; what the composition adds leaves   *)
(* the sessions alone and begins a decryption as the decoder does.  The     *)
(* address in a push comes last: a payload's fields are lists of any length.*)
(***************************************************************************)
EXTENDS AlarmPicture, SequenceTheorems, WellFoundedInduction, TLAPS

-----------------------------------------------------------------------------
(* The session. *)

SessionInv == TypeOK /\ SessionsHaveOneOwner

LEMMA SessionInit ==
  ASSUME SessionAssumption, Init
  PROVE  SessionInv
<1>1. TypeOK
  BY DEF Init, TypeOK, SessionAssumption
<1>2. SessionsHaveOneOwner
  BY DEF Init, SessionsHaveOneOwner
<1> QED
  BY <1>1, <1>2 DEF SessionInv

\* What one request does to its own entries keeps their types.
LEMMA EndType ==
  ASSUME TypeOK, NEW r \in Requests, NEW how \in {"none", "failed", "part", "whole"}, End(r, how)
  PROVE  /\ pc' \in [Requests -> {"idle", "session", "queued", "connected"}]
         /\ uses' \in [Requests -> Sessions \cup {NoSession}]
         /\ body' \in [Requests -> {"none", "part", "whole"}]
         /\ result' \in [Requests -> {"none", "failed", "part", "whole"}]
BY DEF TypeOK, End

LEMMA UseType ==
  ASSUME TypeOK, NEW r \in Requests, NEW s \in Sessions, Use(r, s)
  PROVE  /\ pc' \in [Requests -> {"idle", "session", "queued", "connected"}]
         /\ uses' \in [Requests -> Sessions \cup {NoSession}]
         /\ body' \in [Requests -> {"none", "part", "whole"}]
         /\ result' \in [Requests -> {"none", "failed", "part", "whole"}]
BY DEF TypeOK, Use

LEMMA GetSessionInv ==
  ASSUME SessionAssumption, SessionInv, NEW r \in Requests, AsyncGetSession(r)
  PROVE  SessionInv'
<1>1. CASE Use(r, current) /\ UNCHANGED <<current, open>> /\ current \in open
  <2>1. current \in Sessions
    BY <1>1 DEF SessionInv, TypeOK
  <2>2. TypeOK'
    BY <1>1, <2>1, UseType DEF SessionInv, TypeOK, AsyncGetSession
  <2> QED
    BY <1>1, <2>2 DEF SessionInv, SessionsHaveOneOwner, AsyncGetSession
<1>2. CASE End(r, "failed") /\ UNCHANGED <<current, open>>
  <2>1. TypeOK'
    BY <1>2, EndType DEF SessionInv, TypeOK, AsyncGetSession
  <2> QED
    BY <1>2, <2>1 DEF SessionInv, SessionsHaveOneOwner, AsyncGetSession
<1>3. CASE /\ owned /\ current \notin open /\ Unused # {}
           /\ current' = NewSession /\ open' = open \cup {NewSession} /\ Use(r, NewSession)
  <2>1. NewSession \in Sessions
    BY <1>3 DEF NewSession, Unused
  <2>2. TypeOK'
    BY <1>3, <2>1, UseType DEF SessionInv, TypeOK, AsyncGetSession
  <2>3. open = {}
    BY <1>3 DEF SessionInv, SessionsHaveOneOwner, TypeOK, AsyncGetSession, LockIsFree,
       SessionAssumption
  <2> QED
    BY <1>3, <2>2, <2>3 DEF SessionInv, SessionsHaveOneOwner, AsyncGetSession
<1> QED
  BY <1>1, <1>2, <1>3 DEF AsyncGetSession

LEMMA SessionStep ==
  ASSUME SessionAssumption, SessionInv, [Next]_vars
  PROVE  SessionInv'
<1>1. ASSUME NEW r \in Requests, Begin(r) PROVE SessionInv'
  <2>1. TypeOK'
    BY <1>1 DEF SessionInv, TypeOK, Begin
  <2> QED
    BY <1>1, <2>1 DEF SessionInv, SessionsHaveOneOwner, Begin
<1>2. ASSUME NEW r \in Requests, Connect(r) PROVE SessionInv'
  <2>1. TypeOK'
    BY <1>2 DEF SessionInv, TypeOK, Connect
  <2> QED
    BY <1>2, <2>1 DEF SessionInv, SessionsHaveOneOwner, Connect
<1>3. ASSUME NEW r \in Requests, NEW much \in {"part", "whole"}, BodyArrives(r, much)
      PROVE  SessionInv'
  <2>1. TypeOK'
    BY <1>3 DEF SessionInv, TypeOK, BodyArrives
  <2> QED
    BY <1>3, <2>1 DEF SessionInv, SessionsHaveOneOwner, BodyArrives
<1>4. ASSUME NEW r \in Requests, BodyRead(r) \/ Fails(r) PROVE SessionInv'
  <2>1. PICK how \in {"none", "failed", "part", "whole"} : End(r, how)
    BY <1>4 DEF SessionInv, TypeOK, BodyRead, Fails
  <2>2. UNCHANGED <<owned, current, open, closing>>
    BY <1>4 DEF BodyRead, Fails
  <2>3. TypeOK'
    BY <2>1, <2>2, EndType DEF SessionInv, TypeOK
  <2> QED
    BY <2>2, <2>3 DEF SessionInv, SessionsHaveOneOwner
<1>5. CASE AsyncClose
  <2>1. TypeOK'
    BY <1>5 DEF SessionInv, TypeOK, AsyncClose
  <2> QED
    BY <1>5, <2>1 DEF SessionInv, SessionsHaveOneOwner, AsyncClose, LockIsFree, TypeOK,
       SessionAssumption
<1>6. CASE Closed
  <2>1. TypeOK'
    BY <1>6 DEF SessionInv, TypeOK, Closed
  <2> QED
    BY <1>6, <2>1 DEF SessionInv, SessionsHaveOneOwner, Closed
<1>7. CASE CallerCloses
  <2>1. TypeOK'
    BY <1>7 DEF SessionInv, TypeOK, CallerCloses
  <2> QED
    BY <1>7, <2>1 DEF SessionInv, SessionsHaveOneOwner, CallerCloses
<1>8. CASE UNCHANGED vars
  BY <1>8 DEF SessionInv, TypeOK, SessionsHaveOneOwner, vars
<1> QED
  BY <1>1, <1>2, <1>3, <1>4, <1>5, <1>6, <1>7, <1>8, GetSessionInv DEF Next

-----------------------------------------------------------------------------
(* The decoder. *)

\* A function has its argtypes in the library of now, or somebody is about to
\* give them to it.
Covered(f) == <<sdk, f>> \in declared \/ \E u \in Threads : at[u] \in {"ctor", f}

LoadInv ==
  /\ \A t \in Threads : at[t] \in {"ctor", "decrypt"} => sdk \in Libs
  /\ \A t \in Threads : at[t] = "decrypt" =>
       Covered("ctor") /\ \E l \in Libs : <<l, "ctor">> \in declared
  /\ loaded => \A f \in Functions : Covered(f) /\ \E l \in Libs : <<l, f>> \in declared

KeyOf(t) == ResolveEncryptKey(job[t].pic.tcm, job[t].given)

\* The candidates that are left: all of them, or the second after the first was
\* the wrong key.
Trying(t) ==
  \/ left[t] = KeyCandidates(job[t].pic.tcm, KeyOf(t))
  \/ /\ job[t].pic.tcm = FALSE /\ KeyOf(t) # Serial
     /\ left[t] = <<KeyOf(t)>> /\ job[t].pic.key # SerialAesKey

JobInv ==
  \A t \in Threads :
    /\ at[t] \in {"open", "ctor", "decrypt"} => job[t] = NoJob
    /\ job[t].ready = TRUE => loaded = TRUE
    /\ at[t] = "try" =>
         /\ job[t].pic \in Pictures /\ job[t].pic.data # "none"
         /\ KeyOf(t) # NoPassword
         /\ Trying(t)

DecoderInv ==
  DecoderTypeOK /\ LoadInv /\ JobInv /\ RightKeyIsFound

LEMMA OneKey ==
  ASSUME NEW k
  PROVE  Head(<<k>>) = k /\ Len(<<k>>) = 1
OBVIOUS

LEMMA TwoKeys ==
  ASSUME NEW j, NEW k
  PROVE  Head(<<j, k>>) = j /\ Len(<<j, k>>) = 2 /\ Tail(<<j, k>>) = <<k>>
OBVIOUS

LEMMA PictureFacts ==
  ASSUME PicturesAssumption, NEW p \in Pictures
  PROVE  /\ p.data \in {"none", "part", "whole"} /\ p.jpeg \in BOOLEAN /\ p.tcm \in BOOLEAN
         /\ p.key \in {SerialAesKey, Password} /\ p.needs \in {"two", "eight", "more"}
         /\ p.tcm => p.key = Password
         /\ p # NoPicture
BY DEF PicturesAssumption, AnyPicture

\* The libraries: DeclaredBeforeUse is a part of LoadInv.
LEMMA LoadIsDeclared ==
  ASSUME LoadInv
  PROVE  DeclaredBeforeUse
BY DEF LoadInv, Covered, DeclaredBeforeUse

\* Only load() touches the libraries.
LEMMA LoadInvKept ==
  ASSUME LoadInv, UNCHANGED <<loaded, sdk, declared>>,
         \A t \in Threads : at[t] \in {"ctor", "decrypt"} \/ at'[t] \in {"ctor", "decrypt"} =>
           at'[t] = at[t]
  PROVE  LoadInv'
<1>1. \A f \in Functions : Covered(f) => Covered(f)'
  BY DEF Covered, Functions
<1>2. "ctor" \in Functions
  BY DEF Functions
<1> QED
  BY <1>1, <1>2 DEF LoadInv

LEMMA LoadOpenLoadInv ==
  ASSUME DecoderTypeOK, LoadInv, NEW t \in Threads, LoadOpen(t)
  PROVE  LoadInv'
<1>1. \A f \in Functions : Covered(f)'
  BY DEF Covered, LoadOpen, DecoderTypeOK
<1>2. sdk' \in Libs /\ UNCHANGED <<loaded, declared>> /\ at[t] = "open"
  BY DEF LoadOpen
<1>3. \A u \in Threads : at'[u] = "decrypt" => at[u] = "decrypt"
  BY DEF LoadOpen, DecoderTypeOK
<1>4. "ctor" \in Functions
  BY DEF Functions
<1> QED
  BY <1>1, <1>2, <1>3, <1>4 DEF LoadInv

LEMMA LoadDeclareLoadInv ==
  ASSUME DecoderTypeOK, LoadInv, NEW t \in Threads, NEW f \in Functions, LoadDeclare(t, f)
  PROVE  LoadInv'
<1>1. at[t] = f /\ sdk' = sdk /\ declared' = declared \cup {<<sdk, f>>} /\ sdk \in Libs
  BY DEF LoadDeclare, LoadInv, Functions
<1>2. Covered(f)' /\ \E l \in Libs : <<l, f>> \in declared'
  BY <1>1 DEF Covered
<1>3. \A u \in Threads : u # t => at'[u] = at[u]
  BY DEF LoadDeclare, DecoderTypeOK
<1>4. CASE f = "ctor"
  <2>1. at'[t] = "decrypt" /\ loaded' = loaded
    BY <1>4 DEF LoadDeclare, DecoderTypeOK
  <2>2. Covered("decrypt")'
    BY <2>1 DEF Covered
  <2> QED
    BY <1>1, <1>2, <1>3, <1>4, <2>1, <2>2 DEF LoadInv, Functions
<1>5. CASE f = "decrypt"
  <2>1. at'[t] = "idle"
    BY <1>5 DEF LoadDeclare, DecoderTypeOK
  <2>2. Covered("ctor") /\ \E l \in Libs : <<l, "ctor">> \in declared
    BY <1>1, <1>5 DEF LoadInv
  <2>3. Covered("ctor")'
    BY <1>1, <1>3, <1>5, <2>2 DEF Covered
  <2> QED
    BY <1>1, <1>2, <1>3, <1>5, <2>1, <2>2, <2>3 DEF LoadInv, Functions
<1> QED
  BY <1>4, <1>5 DEF Functions

-----------------------------------------------------------------------------
(* Decrypting. *)

LEMMA CandidatesType ==
  ASSUME PicturesAssumption, NEW tcm \in BOOLEAN, NEW given \in Given,
         ResolveEncryptKey(tcm, given) # NoPassword
  PROVE  /\ ResolveEncryptKey(tcm, given) \in Keys
         /\ KeyCandidates(tcm, ResolveEncryptKey(tcm, given)) \in Seq(Keys)
<1>1. ResolveEncryptKey(tcm, given) \in Keys
  BY DEF ResolveEncryptKey, Given, Keys
<1>2. \A k \in Keys : <<k>> \in Seq(Keys) /\ <<SerialAesKey>> \in Seq(Keys)
                      /\ <<SerialAesKey, k>> \in Seq(Keys)
  BY DEF Keys
<1> QED
  BY <1>1, <1>2 DEF KeyCandidates

LEMMA LoadJob ==
  ASSUME DecoderTypeOK, JobInv, RightKeyIsFound, NEW t \in Threads, Load(t)
  PROVE  DecoderTypeOK' /\ JobInv' /\ RightKeyIsFound'
<1>1. NoJob \in Jobs /\ NoJob.ready = FALSE
  BY DEF Jobs, NoJob
<1>2. DecoderTypeOK'
  BY <1>1 DEF Load, DecoderTypeOK
<1>3. /\ \A u \in Threads : u # t => job'[u] = job[u] /\ at'[u] = at[u] /\ outcome'[u] = outcome[u]
      /\ at'[t] \in {"idle", "open"} /\ job'[t] = NoJob
      /\ UNCHANGED <<loaded, left>>
  BY DEF Load, DecoderTypeOK
<1>4. JobInv'
  BY <1>1, <1>3 DEF JobInv, KeyOf, Trying
<1>5. RightKeyIsFound'
  BY <1>1, <1>3 DEF RightKeyIsFound, KeyIsKnown
<1> QED
  BY <1>2, <1>4, <1>5

\* The other statements of load() do not look at the jobs; the thread has none.
LEMMA LoadStepJob ==
  ASSUME DecoderTypeOK, JobInv, RightKeyIsFound, LoadInv, NEW t \in Threads,
         LoadOpen(t) \/ LoadFails(t) \/ \E f \in Functions : LoadDeclare(t, f)
  PROVE  DecoderTypeOK' /\ JobInv' /\ RightKeyIsFound'
<1>1. /\ UNCHANGED <<job, left, grown, outcome>> /\ job[t] = NoJob /\ NoJob.ready = FALSE
      /\ loaded = TRUE => loaded' = TRUE
      /\ at'[t] \in {"idle", "ctor", "decrypt"}
      /\ \A u \in Threads : u # t => at'[u] = at[u]
  BY DEF LoadOpen, LoadFails, LoadDeclare, JobInv, DecoderTypeOK, NoJob, Functions
<1>2. DecoderTypeOK'
  <2>1. CASE LoadOpen(t) \/ LoadFails(t)
    BY <2>1 DEF LoadOpen, LoadFails, DecoderTypeOK
  <2>2. ASSUME NEW f \in Functions, LoadDeclare(t, f) PROVE DecoderTypeOK'
    <3>1. sdk \in Libs
      BY <2>2 DEF LoadDeclare, LoadInv, Functions
    <3>2. at' \in [Threads -> {"idle", "open", "ctor", "decrypt", "try"}]
      BY <2>2 DEF LoadDeclare, DecoderTypeOK
    <3>3. declared' \subseteq Libs \X Functions
      <4>1. declared' = declared \cup {<<sdk, f>>} /\ declared \subseteq Libs \X Functions
        BY <2>2 DEF LoadDeclare, DecoderTypeOK
      <4>2. <<sdk, f>> \in Libs \X Functions
        BY <3>1
      <4> QED
        BY <4>1, <4>2
    <3>4. loaded' \in BOOLEAN
      BY <2>2 DEF LoadDeclare, DecoderTypeOK
    <3> QED
      BY <2>2, <3>2, <3>3, <3>4 DEF LoadDeclare, DecoderTypeOK
  <2> QED
    BY <2>1, <2>2
<1>3. JobInv'
  BY <1>1 DEF JobInv, KeyOf, Trying
<1>4. RightKeyIsFound'
  BY <1>1 DEF RightKeyIsFound, KeyIsKnown
<1> QED
  BY <1>2, <1>3, <1>4

LEMMA BeginDecryptJob ==
  ASSUME PicturesAssumption, DecoderTypeOK, JobInv, RightKeyIsFound, NEW t \in Threads,
         NEW p \in Pictures, NEW given \in Given, BeginDecrypt(t, p, given)
  PROVE  DecoderTypeOK' /\ JobInv' /\ RightKeyIsFound'
<1> DEFINE key == ResolveEncryptKey(p.tcm, given)
           new == [pic |-> p, given |-> given, ready |-> loaded]
<1>1. /\ new \in Jobs /\ new.pic = p /\ new.given = given /\ new.ready = loaded
  BY DEF DecoderTypeOK, Jobs
<1>2. job' = [job EXCEPT ![t] = new] /\ UNCHANGED <<present, loaded, sdk, declared>>
  BY DEF BeginDecrypt
<1>3. \A u \in Threads : u # t =>
        /\ job'[u] = job[u] /\ at'[u] = at[u] /\ outcome'[u] = outcome[u] /\ left'[u] = left[u]
  BY DEF BeginDecrypt, DecoderTypeOK
<1>4. /\ job'[t].pic = p /\ job'[t].given = given
      /\ job'[t].ready = TRUE => loaded = TRUE
      /\ job'[t] # NoJob
  BY <1>1, <1>2, PictureFacts DEF DecoderTypeOK, NoJob
<1> HIDE DEF new
<1>8. \A u \in Threads : u # t => KeyOf(u)' = KeyOf(u) /\ (Trying(u) => Trying(u)')
  BY <1>3 DEF KeyOf, Trying
<1>5. CASE key = NoPassword
  <2>1. /\ outcome'[t] = "no key" /\ at'[t] = "idle" /\ UNCHANGED <<at, left>>
        /\ outcome' = [outcome EXCEPT ![t] = "no key"] /\ grown' = [grown EXCEPT ![t] = FALSE]
    BY <1>5 DEF BeginDecrypt, DecoderTypeOK
  <2>2. ~KeyIsKnown(p, given)
    BY <1>5, PictureFacts DEF ResolveEncryptKey, KeyIsKnown, PicturesAssumption, Given
  <2>3. DecoderTypeOK'
    BY <1>1, <1>2, <2>1 DEF DecoderTypeOK
  <2>4. JobInv'
    BY <1>2, <1>3, <1>4, <1>8, <2>1 DEF JobInv
  <2>5. RightKeyIsFound'
    <3>1. \A u \in Threads : u # t =>
            (at'[u] = "idle" /\ job'[u].ready =>
               (outcome'[u] = "picture" <=>
                  /\ job'[u].pic.data = "whole" /\ job'[u].pic.jpeg
                  /\ job'[u].pic.needs # "more" /\ KeyIsKnown(job'[u].pic, job'[u].given)))
      BY <1>3 DEF RightKeyIsFound
    <3> QED
      BY <1>4, <2>1, <2>2, <3>1 DEF RightKeyIsFound, KeyIsKnown
  <2> QED
    BY <2>3, <2>4, <2>5
<1>6. CASE key # NoPassword /\ p.data = "none"
  <2>1. /\ outcome'[t] = "empty" /\ at'[t] = "idle" /\ UNCHANGED <<at, left>>
        /\ outcome' = [outcome EXCEPT ![t] = "empty"] /\ grown' = [grown EXCEPT ![t] = FALSE]
    BY <1>6 DEF BeginDecrypt, DecoderTypeOK
  <2>3. DecoderTypeOK'
    BY <1>1, <1>2, <2>1 DEF DecoderTypeOK
  <2>4. JobInv'
    BY <1>2, <1>3, <1>4, <1>8, <2>1 DEF JobInv
  <2>5. RightKeyIsFound'
    BY <1>3, <1>4, <1>6, <2>1 DEF RightKeyIsFound
  <2> QED
    BY <2>3, <2>4, <2>5
<1>7. CASE key # NoPassword /\ p.data # "none"
  <2>1. /\ outcome' = [outcome EXCEPT ![t] = "none"] /\ at' = [at EXCEPT ![t] = "try"]
        /\ left' = [left EXCEPT ![t] = KeyCandidates(p.tcm, key)]
        /\ grown' = [grown EXCEPT ![t] = FALSE]
    BY <1>7 DEF BeginDecrypt
  <2>2. KeyCandidates(p.tcm, key) \in Seq(Keys)
    BY <1>7, PictureFacts, CandidatesType
  <2>3. DecoderTypeOK'
    BY <1>1, <1>2, <2>1, <2>2 DEF DecoderTypeOK
  <2>4. at'[t] = "try" /\ left'[t] = KeyCandidates(p.tcm, key)
    BY <2>1 DEF DecoderTypeOK
  <2>5. KeyOf(t)' = key
    BY <1>4 DEF KeyOf
  <2>6. Trying(t)'
    BY <1>4, <2>4, <2>5 DEF Trying
  <2>8. JobInv'
    <3>1. ASSUME NEW u \in Threads, u # t
          PROVE  /\ at'[u] \in {"open", "ctor", "decrypt"} => job'[u] = NoJob
                 /\ job'[u].ready = TRUE => loaded' = TRUE
                 /\ at'[u] = "try" =>
                      /\ job'[u].pic \in Pictures /\ job'[u].pic.data # "none"
                      /\ KeyOf(u)' # NoPassword
                      /\ Trying(u)'
      BY <1>2, <1>3, <1>8, <3>1 DEF JobInv
    <3> QED
      BY <1>2, <1>4, <1>7, <2>4, <2>5, <2>6, <3>1 DEF JobInv
  <2>9. RightKeyIsFound'
    BY <1>3, <2>4 DEF RightKeyIsFound
  <2> QED
    BY <2>3, <2>8, <2>9
<1> QED
  BY <1>5, <1>6, <1>7

\* A thread that goes on with another thread's jobs untouched.
LEMMA EndDecryptJob ==
  ASSUME PicturesAssumption, DecoderTypeOK, JobInv, RightKeyIsFound, NEW t \in Threads,
         at[t] = "try", UNCHANGED <<present, loaded, sdk, declared, job>>,
         NEW how \in {"not loaded", "short", "wrong key", "too small", "not jpeg", "picture"},
         EndDecrypt(t, how),
         job[t].ready => (how = "picture" <=>
           /\ job[t].pic.data = "whole" /\ job[t].pic.jpeg
           /\ job[t].pic.needs # "more" /\ KeyIsKnown(job[t].pic, job[t].given))
  PROVE  DecoderTypeOK' /\ JobInv' /\ RightKeyIsFound'
<1>1. /\ at'[t] = "idle" /\ outcome'[t] = how
      /\ \A u \in Threads : u # t =>
           at'[u] = at[u] /\ left'[u] = left[u] /\ outcome'[u] = outcome[u]
  BY DEF EndDecrypt, DecoderTypeOK
<1>2. DecoderTypeOK'
  <2>1. << >> \in Seq(Keys)
    BY EmptySeq
  <2> QED
    BY <2>1 DEF EndDecrypt, DecoderTypeOK
<1>3. JobInv'
  BY <1>1 DEF JobInv, KeyOf, Trying
<1>4. RightKeyIsFound'
  <2>1. ASSUME NEW u \in Threads
        PROVE  at'[u] = "idle" /\ job[u].ready =>
                 (outcome'[u] = "picture" <=>
                    /\ job[u].pic.data = "whole" /\ job[u].pic.jpeg
                    /\ job[u].pic.needs # "more" /\ KeyIsKnown(job[u].pic, job[u].given))
    BY <1>1, <2>1 DEF RightKeyIsFound
  <2> QED
    BY <2>1 DEF RightKeyIsFound, KeyIsKnown
<1> QED
  BY <1>2, <1>3, <1>4

\* What each answer of the native call says of the picture.
LEMMA AnswersMean ==
  ASSUME PicturesAssumption, NEW p \in Pictures, NEW k, NEW large, NEW code \in Answers(p, k, large)
  PROVE  /\ code \in {"short", "too small", "wrong key", "done"}
         /\ code = "short" => p.data = "part"
         /\ code = "too small" => p.needs # "two" /\ (large => p.needs = "more")
         /\ code = "wrong key" => k # p.key
         /\ code = "done" => k = p.key /\ p.data # "part" /\ p.needs # "more"
<1> DEFINE fits == p.needs = "two" \/ (p.needs = "eight" /\ large)
<1>1. fits => p.needs # "more"
  OBVIOUS
<1>2. ~fits => p.needs # "two" /\ (large => p.needs = "more")
  BY PictureFacts
<1>3. CASE p.data = "part"
  BY <1>3 DEF Answers
<1>4. CASE p.data # "part" /\ fits
  BY <1>1, <1>4 DEF Answers
<1>5. CASE p.data # "part" /\ ~fits
  <2>1. code \in {"too small"} \cup (IF k # p.key THEN {"wrong key"} ELSE {})
    BY <1>5 DEF Answers
  <2> QED
    BY <1>2, <1>5, <2>1
<1> QED
  BY <1>3, <1>4, <1>5

LEMMA TryJob ==
  ASSUME PicturesAssumption, DecoderTypeOK, JobInv, RightKeyIsFound, NEW t \in Threads, Try(t)
  PROVE  DecoderTypeOK' /\ JobInv' /\ RightKeyIsFound'
<1> DEFINE p == job[t].pic
           key == KeyOf(t)
<1>1. /\ at[t] = "try" /\ UNCHANGED <<present, loaded, sdk, declared, job>>
      /\ p \in Pictures /\ p.data # "none" /\ key # NoPassword
      /\ Trying(t)
      /\ job[t].ready = TRUE => loaded = TRUE
  BY DEF Try, JobInv
<1>2. job[t] \in [pic : Pictures, given : Given, ready : BOOLEAN]
  <2>1. p # NoPicture
    BY <1>1, PictureFacts
  <2>2. job[t] \in Jobs
    BY DEF DecoderTypeOK
  <2>3. job[t] # NoJob
    BY <2>1 DEF NoJob
  <2> QED
    BY <2>2, <2>3 DEF Jobs
<1>3. job[t].given \in Given
  BY <1>2
<1>4. key \in Keys
  BY <1>1, <1>3, PictureFacts, CandidatesType DEF KeyOf
<1>5. \/ left[t] = <<key>> /\ p.tcm = TRUE
      \/ left[t] = <<SerialAesKey>> /\ p.tcm = FALSE /\ key = Serial
      \/ left[t] = <<SerialAesKey, key>> /\ p.tcm = FALSE /\ key # Serial
      \/ left[t] = <<key>> /\ p.tcm = FALSE /\ key # Serial /\ p.key # SerialAesKey
  <2>1. CASE left[t] = KeyCandidates(p.tcm, key)
    BY <1>1, <2>1, PictureFacts DEF KeyCandidates
  <2>2. CASE ~ (left[t] = KeyCandidates(p.tcm, key))
    BY <1>1, <2>2 DEF Trying
  <2> QED
    BY <2>1, <2>2
\* The one that is tried may be the right one, and if it is the last one and
\* wrong, none is known.
<1>6. /\ Head(left[t]) = p.key => KeyIsKnown(p, job[t].given)
      /\ Len(left[t]) = 1 /\ Head(left[t]) # p.key => ~KeyIsKnown(p, job[t].given)
      /\ \/ Len(left[t]) = 1
         \/ /\ Len(left[t]) = 2 /\ Tail(left[t]) = <<key>> /\ Head(left[t]) = SerialAesKey
            /\ p.tcm = FALSE /\ key # Serial
  <2>1. /\ p.key \in {SerialAesKey, Password} /\ p.tcm \in BOOLEAN
        /\ p.tcm => p.key = Password
    BY <1>1, PictureFacts
  <2>2. key = IF job[t].given # NoPassword THEN job[t].given
              ELSE IF p.tcm THEN NoPassword ELSE Serial
    BY DEF KeyOf, ResolveEncryptKey
  <2>3. CASE left[t] = <<key>> /\ (p.tcm = TRUE \/ p.key # SerialAesKey)
    <3>1. p.key = Password
      BY <2>1, <2>3
    <3>2. key = Password <=> job[t].given = Password
      BY <1>1, <2>2 DEF PicturesAssumption, Given
    <3> QED
      BY <2>3, <3>1, <3>2, OneKey DEF KeyIsKnown, PicturesAssumption, Given
  <2>4. CASE left[t] = <<SerialAesKey>> /\ p.tcm = FALSE /\ key = Serial
    <3>1. job[t].given # Password
      BY <2>2, <2>4 DEF PicturesAssumption, Given
    <3> QED
      BY <2>1, <2>4, <3>1, OneKey DEF KeyIsKnown
  <2>5. CASE left[t] = <<SerialAesKey, key>> /\ p.tcm = FALSE /\ key # Serial
    BY <2>5, TwoKeys DEF KeyIsKnown
  <2> QED
    BY <1>5, <2>3, <2>4, <2>5
<1>10. Len(left[t]) > 1 <=> Len(left[t]) # 1
  <2> DEFINE n == Len(left[t])
  <2> HIDE DEF n
  <2>1. n \in {1, 2}
    BY <1>6 DEF n
  <2>2. n > 1 <=> n # 1
    BY <2>1
  <2> QED
    BY <2>2 DEF n
<1>7. ASSUME loaded # TRUE PROVE DecoderTypeOK' /\ JobInv' /\ RightKeyIsFound'
  <2>1. EndDecrypt(t, "not loaded") /\ ~job[t].ready
    BY <1>1, <1>2, <1>7 DEF Try
  <2> QED
    BY <1>1, <2>1, EndDecryptJob
<1>8. ASSUME loaded = TRUE, NEW code \in Answers(p, Head(left[t]), grown[t]), After(t, code)
      PROVE  DecoderTypeOK' /\ JobInv' /\ RightKeyIsFound'
  <2>1. CASE code = "too small" /\ ~grown[t]
    <3>1. grown' = [grown EXCEPT ![t] = TRUE] /\ UNCHANGED <<at, left, outcome>>
      BY <1>8, <2>1 DEF After
    <3>2. DecoderTypeOK'
      BY <1>1, <3>1 DEF DecoderTypeOK
    <3>3. JobInv'
      BY <1>1, <3>1 DEF JobInv, KeyOf, Trying
    <3>4. RightKeyIsFound'
      BY <1>1, <3>1 DEF RightKeyIsFound, KeyIsKnown
    <3> QED
      BY <3>2, <3>3, <3>4
  <2>2. CASE code = "wrong key" /\ Len(left[t]) > 1
    <3>1. /\ left' = [left EXCEPT ![t] = Tail(left[t])] /\ grown' = [grown EXCEPT ![t] = FALSE]
          /\ UNCHANGED <<at, outcome>>
      BY <1>8, <2>2 DEF After
    <3>2. /\ Tail(left[t]) = <<key>> /\ Head(left[t]) = SerialAesKey /\ p.tcm = FALSE
          /\ key # Serial
      BY <1>6, <1>10, <2>2
    <3>3. p.key # SerialAesKey
      BY <1>1, <1>8, <2>2, <3>2, AnswersMean
    <3>4. DecoderTypeOK'
      <4>1. <<key>> \in Seq(Keys)
        BY <1>4
      <4> QED
        BY <1>1, <3>1, <3>2, <4>1 DEF DecoderTypeOK
    <3>5. /\ left'[t] = <<key>> /\ \A u \in Threads : u # t => left'[u] = left[u]
      BY <3>1, <3>2 DEF DecoderTypeOK
    <3>6. \A u \in Threads : KeyOf(u)' = KeyOf(u)
      BY <1>1 DEF KeyOf
    <3>7. Trying(t)'
      BY <1>1, <3>2, <3>3, <3>5, <3>6 DEF Trying
    <3>8. \A u \in Threads : Trying(u) => Trying(u)'
      BY <1>1, <3>5, <3>6, <3>7 DEF Trying
    <3>9. JobInv'
      BY <1>1, <3>1, <3>6, <3>8 DEF JobInv
    <3>10. RightKeyIsFound'
      BY <1>1, <3>1 DEF RightKeyIsFound, KeyIsKnown
    <3> QED
      BY <3>4, <3>9, <3>10
  <2>3. CASE ~(code = "too small" /\ ~grown[t]) /\ ~(code = "wrong key" /\ Len(left[t]) > 1)
    <3> DEFINE how == IF code # "done" THEN code ELSE IF p.jpeg THEN "picture" ELSE "not jpeg"
               known == KeyIsKnown(p, job[t].given)
    <3>1. EndDecrypt(t, how)
      BY <1>8, <2>3 DEF After
    <3>2. /\ code \in {"short", "too small", "wrong key", "done"}
          /\ code = "short" => p.data = "part"
          /\ code = "too small" => p.needs = "more"
          /\ code = "wrong key" => Head(left[t]) # p.key /\ Len(left[t]) = 1
          /\ code = "done" => Head(left[t]) = p.key /\ p.data # "part" /\ p.needs # "more"
      <4>1. /\ code \in {"short", "too small", "wrong key", "done"}
            /\ code = "short" => p.data = "part"
            /\ code = "too small" => (grown[t] => p.needs = "more")
            /\ code = "wrong key" => Head(left[t]) # p.key
            /\ code = "done" => Head(left[t]) = p.key /\ p.data # "part" /\ p.needs # "more"
        BY <1>1, <1>8, AnswersMean
      <4> QED
        BY <1>10, <2>3, <4>1
    <3>3. code = "done" => known /\ p.data = "whole" /\ p.needs # "more"
      BY <1>1, <1>6, <3>2, PictureFacts
    <3>4. p.data = "whole" /\ p.needs # "more" /\ known => code = "done"
      BY <1>6, <3>2
    <3>5. how = "picture" <=> p.data = "whole" /\ p.jpeg /\ p.needs # "more" /\ known
      BY <3>2, <3>3, <3>4
    <3>6. how \in {"short", "wrong key", "too small", "not jpeg", "picture"}
      BY <3>2
    <3> HIDE DEF how
    <3> QED
      BY <1>1, <3>1, <3>5, <3>6, EndDecryptJob
  <2> QED
    BY <2>1, <2>2, <2>3
<1>9. \/ loaded # TRUE
      \/ loaded = TRUE /\ \E code \in Answers(p, Head(left[t]), grown[t]) : After(t, code)
  BY DEF Try, DecoderTypeOK
<1> QED
  BY <1>7, <1>8, <1>9

-----------------------------------------------------------------------------
(* Together. *)

PictureInv == SessionInv /\ DecoderInv

LEMMA DecoderInvInit ==
  ASSUME PicturesAssumption, DecoderInit
  PROVE  DecoderInv
<1>1. NoJob \in Jobs /\ NoJob.ready = FALSE
  BY DEF Jobs, NoJob
<1>2. DecoderTypeOK
  <2>1. << >> \in Seq(Keys)
    BY EmptySeq
  <2> QED
    BY <1>1, <2>1 DEF DecoderInit, DecoderTypeOK
<1>3. LoadInv
  BY DEF DecoderInit, LoadInv
<1>4. JobInv
  BY <1>1 DEF DecoderInit, JobInv
<1>5. RightKeyIsFound
  BY <1>1 DEF DecoderInit, RightKeyIsFound
<1> QED
  BY <1>2, <1>3, <1>4, <1>5 DEF DecoderInv

LEMMA DecoderUnchanged ==
  ASSUME DecoderInv, UNCHANGED dvars
  PROVE  DecoderInv'
<1>1. DecoderTypeOK' /\ RightKeyIsFound'
  BY DEF DecoderInv, dvars, DecoderTypeOK, RightKeyIsFound, KeyIsKnown
<1>2. LoadInv'
  BY LoadInvKept DEF DecoderInv, dvars
<1>3. JobInv'
  BY DEF DecoderInv, dvars, JobInv, KeyOf, Trying
<1> QED
  BY <1>1, <1>2, <1>3 DEF DecoderInv

LEMMA SessionUnchanged ==
  ASSUME SessionAssumption, SessionInv, UNCHANGED vars
  PROVE  SessionInv'
BY SessionStep

\* What a thread does for itself; a decryption begins with what was downloaded.
LEMMA DecoderStep ==
  ASSUME PicturesAssumption, DecoderInv, NEW t \in Threads,
         \/ LoadStep(t) \/ Try(t)
         \/ \E p \in Pictures, given \in Given : BeginDecrypt(t, p, given)
  PROVE  DecoderInv'
<1> USE DEF DecoderInv
<1>1. CASE Load(t)
  <2>1. LoadInv'
    BY <1>1, LoadInvKept DEF Load, DecoderTypeOK
  <2> QED
    BY <1>1, <2>1, LoadJob
<1>2. CASE LoadOpen(t)
  BY <1>2, LoadOpenLoadInv, LoadStepJob
<1>3. CASE LoadFails(t)
  <2>1. LoadInv'
    BY <1>3, LoadInvKept DEF LoadFails, DecoderTypeOK
  <2> QED
    BY <1>3, <2>1, LoadStepJob
<1>4. ASSUME NEW f \in Functions, LoadDeclare(t, f) PROVE DecoderInv'
  BY <1>4, LoadDeclareLoadInv, LoadStepJob
<1>5. CASE Try(t)
  <2>1. \A u \in Threads : at'[u] = at[u] \/ (at[u] = "try" /\ at'[u] = "idle")
    <3>1. at' = at \/ at' = [at EXCEPT ![t] = "idle"]
      BY <1>5 DEF Try, After, EndDecrypt
    <3> QED
      BY <1>5, <3>1 DEF Try, DecoderTypeOK
  <2>2. LoadInv'
    BY <1>5, <2>1, LoadInvKept DEF Try
  <2> QED
    BY <1>5, <2>2, TryJob
<1>6. ASSUME NEW p \in Pictures, NEW given \in Given, BeginDecrypt(t, p, given)
      PROVE  DecoderInv'
  <2>1. LoadInv'
    <3>1. (at' = at \/ at' = [at EXCEPT ![t] = "try"]) /\ at[t] = "idle"
      BY <1>6 DEF BeginDecrypt
    <3>2. UNCHANGED <<loaded, sdk, declared>>
      BY <1>6 DEF BeginDecrypt
    <3> QED
      BY <3>1, <3>2, LoadInvKept DEF DecoderTypeOK
  <2> QED
    BY <1>6, <2>1, BeginDecryptJob
<1> QED
  BY <1>1, <1>2, <1>3, <1>4, <1>5, <1>6 DEF LoadStep

\* The next push makes the thread forget its last picture.
LEMMA PushArrivesInv ==
  ASSUME PictureInv, NEW d \in Threads \cap Downloads, NEW p \in Pushes, PushArrives(d, p)
  PROVE  PictureInv'
<1>1. NoJob \in Jobs /\ NoJob.ready = FALSE
  BY DEF Jobs, NoJob
<1>2. SessionInv'
  <2>1. TypeOK'
    BY DEF PushArrives, PictureInv, SessionInv, TypeOK, Requests
  <2> QED
    BY <2>1 DEF PushArrives, PictureInv, SessionInv, SessionsHaveOneOwner
<1> USE DEF PictureInv, DecoderInv
<1>3. DecoderTypeOK'
  BY <1>1 DEF PushArrives, DecoderTypeOK
<1>4. LoadInv'
  BY LoadInvKept DEF PushArrives
<1>5. /\ job'[d] = NoJob /\ at[d] = "idle" /\ UNCHANGED <<at, left, loaded>>
      /\ \A t \in Threads : t # d => job'[t] = job[t] /\ outcome'[t] = outcome[t]
  BY DEF PushArrives, DecoderTypeOK
<1>6. JobInv'
  BY <1>1, <1>5 DEF JobInv, KeyOf, Trying
<1>7. RightKeyIsFound'
  BY <1>1, <1>5 DEF RightKeyIsFound, KeyIsKnown
<1> QED
  BY <1>2, <1>3, <1>4, <1>6, <1>7

LEMMA PictureStep ==
  ASSUME SessionAssumption, PicturesAssumption, ThreadsAssumption, PictureInv,
         [PictureNext]_pvars
  PROVE  PictureInv'
<1> USE DEF PictureInv
<1>1. CASE HttpStep /\ UNCHANGED <<dvars, push, url>>
  <2>1. Next
    BY <1>1 DEF HttpStep, Next, Requests
  <2> QED
    BY <1>1, <2>1, SessionStep, DecoderUnchanged
<1>2. ASSUME NEW d \in Downloads, NEW p \in Pushes, PushArrives(d, p) PROVE PictureInv'
  BY <1>2, PushArrivesInv DEF ThreadsAssumption
<1>3. ASSUME NEW d \in Downloads, BeginDownload(d) PROVE PictureInv'
  <2>1. Next /\ UNCHANGED dvars
    BY <1>3 DEF BeginDownload, Next, Requests
  <2> QED
    BY <2>1, SessionStep, DecoderUnchanged
<1>4. ASSUME NEW d \in Downloads, NEW p \in Pictures, NEW given \in Given,
             DecryptDownload(d, p, given)
      PROVE  PictureInv'
  <2>1. d \in Threads /\ BeginDecrypt(d, p, given) /\ UNCHANGED vars
    BY <1>4 DEF DecryptDownload, ThreadsAssumption
  <2> QED
    BY <2>1, DecoderStep, SessionUnchanged
<1>5. ASSUME NEW t \in Threads, LoadStep(t) \/ Try(t), UNCHANGED vars PROVE PictureInv'
  BY <1>5, DecoderStep, SessionUnchanged
<1>6. CASE Install /\ UNCHANGED vars
  <2>1. DecoderTypeOK'
    BY <1>6 DEF Install, DecoderInv, DecoderTypeOK
  <2>2. LoadInv'
    BY <1>6, LoadInvKept DEF Install, DecoderInv
  <2>3. JobInv' /\ RightKeyIsFound'
    BY <1>6 DEF Install, DecoderInv, JobInv, KeyOf, Trying, RightKeyIsFound, KeyIsKnown
  <2> QED
    BY <1>6, <2>1, <2>2, <2>3, SessionUnchanged DEF DecoderInv
<1>7. CASE UNCHANGED pvars
  BY <1>7, SessionUnchanged, DecoderUnchanged DEF pvars
<1> QED
  BY <1>1, <1>2, <1>3, <1>4, <1>5, <1>6, <1>7 DEF PictureNext

LEMMA PictureInvariant ==
  PictureSpec => []PictureInv
<1>1. PictureInit => PictureInv
  BY SessionAssumption, PicturesAssumption, SessionInit, DecoderInvInit
  DEF PictureInit, PictureInv
<1>2. PictureInv /\ [PictureNext]_pvars => PictureInv'
  BY SessionAssumption, PicturesAssumption, ThreadsAssumption, PictureStep
<1> QED
  BY <1>1, <1>2, PTL DEF PictureSpec

-----------------------------------------------------------------------------
(* The address in a push. *)

\* What stands for induction: a set of numbers that is not empty has a least.
LEMMA LeastNumber ==
  ASSUME NEW S \in SUBSET Nat, S # {}
  PROVE  \E x \in S : \A y \in S : x =< y
<1> DEFINE Less == {ss \in Nat \X Nat : ss[1] < ss[2]}
<1>1. IsWellFoundedOn(Less, Nat)
  <2>1. Less = OpToRel(<, Nat)
    BY DEF OpToRel
  <2> QED
    BY <2>1, NatLessThanWellFounded
<1>2. \A x, y \in Nat : <<y, x>> \in Less <=> y < x
  OBVIOUS
<1> HIDE DEF Less
<1>3. PICK x \in S : \A y \in S : ~ (<<y, x>> \in Less)
  BY <1>1, WFMin
<1>4. \A y \in S : x =< y
  <2> SUFFICES ASSUME NEW y \in S PROVE x =< y
    OBVIOUS
  <2>1. x \in Nat /\ y \in Nat /\ ~ (y < x)
    BY <1>2, <1>3
  <2> QED
    BY <2>1
<1> QED
  BY <1>4

LEMMA MinIsIn ==
  ASSUME NEW S \in SUBSET Nat, S # {}
  PROVE  Min(S) \in S
BY LeastNumber DEF Min

\* The strings kept of the first n items, given those of one item less.
Keeps(field, N, g) ==
  g = [n \in 0..N |->
         IF n = 0 THEN << >>
         ELSE IF field[n] \in Urls THEN Append(g[n - 1], field[n]) ELSE g[n - 1]]

\* The list comprehension conforms to its equation.
LEMMA KeptExists ==
  ASSUME NEW field, NEW N \in Nat
  PROVE  \E g : Keeps(field, N, g)
<1> DEFINE bad == {m \in Nat : ~ \E g : Keeps(field, m, g)}
<1> SUFFICES ASSUME bad # {} PROVE FALSE
  OBVIOUS
<1>1. PICK m \in bad : \A k \in bad : m =< k
  <2> bad \in SUBSET Nat
    OBVIOUS
  <2> QED
    BY LeastNumber
<1>2. m \in Nat
  OBVIOUS
<1>3. m # 0
  <2> DEFINE g == [n \in 0..0 |-> << >>]
  <2>1. Keeps(field, 0, g)
    BY DEF Keeps
  <2> QED
    BY <2>1
<1>4. m - 1 \in Nat /\ m - 1 \notin bad
  BY <1>1, <1>2, <1>3
<1>5. PICK h : Keeps(field, m - 1, h)
  BY <1>4
<1> DEFINE last == IF field[m] \in Urls THEN Append(h[m - 1], field[m]) ELSE h[m - 1]
           g == [n \in 0..m |-> IF n = m THEN last ELSE h[n]]
<1>6. \A n \in 0..(m - 1) : g[n] = h[n]
  BY <1>2
<1>7. \A n \in 0..m :
        g[n] = IF n = 0 THEN << >>
               ELSE IF field[n] \in Urls THEN Append(g[n - 1], field[n]) ELSE g[n - 1]
  <2> SUFFICES ASSUME NEW n \in 0..m
               PROVE  g[n] = IF n = 0 THEN << >>
                             ELSE IF field[n] \in Urls THEN Append(g[n - 1], field[n])
                             ELSE g[n - 1]
    OBVIOUS
  <2>1. CASE n = m
    <3>1. g[n] = last /\ g[n - 1] = h[m - 1]
      BY <1>2, <1>3, <1>6, <2>1
    <3> QED
      BY <1>3, <2>1, <3>1
  <2>2. CASE n # m
    <3>1. n \in 0..(m - 1)
      BY <1>2, <2>2
    <3>2. h[n] = IF n = 0 THEN << >>
                 ELSE IF field[n] \in Urls THEN Append(h[n - 1], field[n]) ELSE h[n - 1]
      BY <1>5, <3>1 DEF Keeps
    <3>3. n # 0 => n - 1 \in 0..(m - 1)
      BY <1>2, <3>1
    <3> HIDE DEF g
    <3> QED
      BY <1>6, <3>1, <3>2, <3>3
  <2> QED
    BY <2>1, <2>2
<1>8. g = [n \in 0..m |-> g[n]]
  OBVIOUS
<1>9. Keeps(field, m, g)
  <2> HIDE DEF g
  <2> QED
    BY <1>7, <1>8 DEF Keeps
<1> QED
  BY <1>9

\* What is kept are addresses, and there is one as soon as an item is one.
LEMMA KeptOf ==
  ASSUME NEW field, NEW N \in Nat, NEW g, Keeps(field, N, g), NEW n \in 0..N
  PROVE  /\ g[n] \in Seq(Urls)
         /\ g[n] # << >> <=> \E j \in 1..n : field[j] \in Urls
<1> DEFINE Right(k) == /\ g[k] \in Seq(Urls)
                       /\ g[k] # << >> <=> \E j \in 1..k : field[j] \in Urls
           bad == {k \in 0..N : ~ Right(k)}
<1> SUFFICES ASSUME bad # {} PROVE FALSE
  OBVIOUS
<1>1. PICK m \in bad : \A k \in bad : m =< k
  <2> bad \in SUBSET Nat
    OBVIOUS
  <2> QED
    BY LeastNumber
<1>2. m \in 0..N /\ ~ Right(m)
  OBVIOUS
<1>3. m # 0
  <2>1. g[0] = << >>
    BY DEF Keeps
  <2>2. << >> \in Seq(Urls) /\ 1..0 = {}
    OBVIOUS
  <2>3. Right(0)
    BY <2>1, <2>2
  <2> QED
    BY <1>2, <2>3
<1>4. m - 1 \in 0..N /\ m - 1 \notin bad
  BY <1>1, <1>2, <1>3
<1>5. Right(m - 1)
  BY <1>4
<1>6. g[m] = IF field[m] \in Urls THEN Append(g[m - 1], field[m]) ELSE g[m - 1]
  BY <1>2, <1>3 DEF Keeps
<1>7. 1..m = 1..(m - 1) \cup {m}
  BY <1>2, <1>3
<1>8. CASE field[m] \in Urls
  <2>1. g[m] = Append(g[m - 1], field[m])
    BY <1>6, <1>8
  <2>2. g[m] \in Seq(Urls) /\ g[m] # << >>
    BY <1>5, <1>8, <2>1, AppendProperties, EmptySeq
  <2>3. Right(m)
    BY <1>7, <1>8, <2>2
  <2> QED
    BY <1>2, <2>3
<1>9. CASE field[m] \notin Urls
  <2>1. Right(m)
    BY <1>5, <1>6, <1>7, <1>9
  <2> QED
    BY <1>2, <2>1
<1> QED
  BY <1>8, <1>9

LEMMA StringsOfField ==
  ASSUME NEW S, NEW field \in Seq(S)
  PROVE  /\ PicUrlStrings(field) \in Seq(Urls)
         /\ PicUrlStrings(field) # << >> <=> \E j \in DOMAIN field : field[j] \in Urls
<1> DEFINE kept[n \in 0..Len(field)] ==
             IF n = 0 THEN << >>
             ELSE IF field[n] \in Urls THEN Append(kept[n - 1], field[n]) ELSE kept[n - 1]
<1>1. Len(field) \in Nat /\ DOMAIN field = 1..Len(field)
  OBVIOUS
<1>2. Keeps(field, Len(field), kept)
  <2>1. kept = CHOOSE g : Keeps(field, Len(field), g)
    BY Zenon DEF Keeps
  <2>2. \E g : Keeps(field, Len(field), g)
    BY <1>1, KeptExists
  <2> HIDE DEF kept
  <2> QED
    BY <2>1, <2>2
<1>3. PicUrlStrings(field) = kept[Len(field)]
  BY DEF PicUrlStrings
<1> HIDE DEF kept
<1> QED
  BY <1>1, <1>2, <1>3, KeptOf

\* The first field that has any decides: there is an address exactly when some
\* field has one.
LEMMA AddressOfFields ==
  ASSUME NEW S, NEW fields \in [1..4 -> Seq(S)]
  PROVE  /\ PreferredPicUrl(PicUrls(fields)) \in Urls \cup {NoUrl}
         /\ PreferredPicUrl(PicUrls(fields)) # NoUrl <=>
              \E i \in 1..4 : \E j \in DOMAIN fields[i] : fields[i][j] \in Urls
<1> DEFINE populated == {i \in DOMAIN fields : PicUrlStrings(fields[i]) # << >>}
           urls == PicUrls(fields)
<1>1. \A i \in 1..4 :
        /\ PicUrlStrings(fields[i]) \in Seq(Urls)
        /\ PicUrlStrings(fields[i]) # << >> <=> \E j \in DOMAIN fields[i] : fields[i][j] \in Urls
  BY StringsOfField
<1>2. /\ populated \in SUBSET (1..4)
      /\ populated # {} <=>
           \E i \in 1..4 : \E j \in DOMAIN fields[i] : fields[i][j] \in Urls
  BY <1>1
<1>3. urls \in Seq(Urls) /\ (urls # << >> <=> populated # {})
  <2>1. CASE populated = {}
    BY <2>1, EmptySeq DEF PicUrls
  <2>2. CASE populated # {}
    <3>1. Min(populated) \in populated
      <4>1. populated \in SUBSET Nat
        BY <1>2
      <4> HIDE DEF populated
      <4> QED
        BY <2>2, <4>1, MinIsIn
    <3>2. urls = PicUrlStrings(fields[Min(populated)])
      BY <2>2 DEF PicUrls
    <3> QED
      BY <1>1, <1>2, <2>2, <3>1, <3>2
  <2> QED
    BY <2>1, <2>2
<1> HIDE DEF populated, urls
<1>4. urls = << >> => PreferredPicUrl(urls) = NoUrl
  BY DEF PreferredPicUrl
<1>5. ASSUME urls # << >> PROVE PreferredPicUrl(urls) \in Urls
  <2>1. Len(urls) \in Nat \ {0} /\ \A i \in 1..Len(urls) : urls[i] \in Urls
    BY <1>3, <1>5, EmptySeq, LenProperties
  <2> QED
    BY <1>5, <2>1 DEF PreferredPicUrl
<1>6. NoUrl \notin Urls
  BY PayloadAssumption DEF PayloadAssumption
<1> QED
  BY <1>2, <1>3, <1>4, <1>5, <1>6 DEF urls

AddressTypeOK ==
  /\ push \in [Downloads -> Pushes \cup {NoPush}]
  /\ url \in [Downloads -> Urls \cup {NoUrl}]

\* What waits at a download is what its push says.
AddressInv == AddressTypeOK /\ UsableUrlIsTaken

\* No address is taken from no push.
LEMMA NoPushIsUnwanted ==
  ~ IsWanted(NoPush)
BY DEF NoPush, IsWanted, IsAlarmMsgType

LEMMA PushArrivesAddress ==
  ASSUME ThreadsAssumption, AddressInv, NEW d \in Downloads, NEW p \in Pushes, PushArrives(d, p)
  PROVE  AddressInv'
<1> DEFINE taken == IF IsWanted(p) THEN PreferredPicUrl(PicUrls(p.fields)) ELSE NoUrl
<1>1. p.fields \in [1..4 -> Seq(Urls \cup {Other})]
  BY DEF ThreadsAssumption, AnyPush
<1>2. /\ taken \in Urls \cup {NoUrl}
      /\ taken # NoUrl <=>
           /\ IsWanted(p)
           /\ \E i \in 1..4 : \E j \in DOMAIN p.fields[i] : p.fields[i][j] \in Urls
  BY <1>1, AddressOfFields
<1>3. push' = [push EXCEPT ![d] = p] /\ url' = [url EXCEPT ![d] = taken]
  BY DEF PushArrives
<1> HIDE DEF taken
<1> QED
  BY <1>2, <1>3 DEF AddressInv, AddressTypeOK, UsableUrlIsTaken

LEMMA AddressStep ==
  ASSUME ThreadsAssumption, AddressInv, [PictureNext]_pvars
  PROVE  AddressInv'
<1>1. ASSUME NEW d \in Downloads, NEW p \in Pushes, PushArrives(d, p) PROVE AddressInv'
  BY <1>1, PushArrivesAddress
<1>2. ASSUME NEW d \in Downloads, BeginDownload(d) PROVE AddressInv'
  BY <1>2, NoPushIsUnwanted DEF BeginDownload, AddressInv, AddressTypeOK, UsableUrlIsTaken
<1>3. CASE UNCHANGED <<push, url>>
  BY <1>3 DEF AddressInv, AddressTypeOK, UsableUrlIsTaken
<1> QED
  BY <1>1, <1>2, <1>3 DEF PictureNext, DecryptDownload, pvars

LEMMA AddressInvariant == PictureSpec => []AddressInv
<1>1. PictureInit => AddressInv
  BY NoPushIsUnwanted DEF PictureInit, AddressInv, AddressTypeOK, UsableUrlIsTaken
<1>2. AddressInv /\ [PictureNext]_pvars => AddressInv'
  BY ThreadsAssumption, AddressStep
<1> QED
  BY <1>1, <1>2, PTL DEF PictureSpec

-----------------------------------------------------------------------------
\* Every variable of session, decoder and pushes keeps its type, for any number of
\* requests, sessions and threads, any limit and any payload.
THEOREM TypeCorrect == PictureSpec => [](TypeOK /\ DecoderTypeOK /\ AddressTypeOK)
<1>1. PictureInv => TypeOK /\ DecoderTypeOK
  BY DEF PictureInv, SessionInv, DecoderInv
<1>2. AddressInv => AddressTypeOK
  BY DEF AddressInv
<1> QED
  BY <1>1, <1>2, PictureInvariant, AddressInvariant, PTL

\* No session the client has made is lost open, and the caller's is left to the
\* caller.
THEOREM SessionsAreOwned == PictureSpec => []SessionsHaveOneOwner
<1>1. PictureInv => SessionsHaveOneOwner
  BY DEF PictureInv, SessionInv
<1> QED
  BY <1>1, PictureInvariant, PTL

\* However many threads load the library at once, a function is called before it
\* has its argtypes only while a second load() is putting its own library in.
THEOREM LibrariesAreDeclared == PictureSpec => []DeclaredBeforeUse
<1>1. PictureInv => DeclaredBeforeUse
  BY LoadIsDeclared DEF PictureInv, DecoderInv
<1> QED
  BY <1>1, PictureInvariant, PTL

\* A picture that is all there is decrypted exactly when a key for it is known
\* and the larger buffer holds it.
THEOREM KeysAreFound == PictureSpec => []RightKeyIsFound
<1>1. PictureInv => RightKeyIsFound
  BY DEF PictureInv, DecoderInv
<1> QED
  BY <1>1, PictureInvariant, PTL

\* An alarm that carries an address in any of its fields has its picture
\* downloaded, and no other push has (pic_urls_from_payload and
\* preferred_pic_url), whatever the fields hold and however long they are.
THEOREM AddressIsTaken == PictureSpec => []UsableUrlIsTaken
<1>1. AddressInv => UsableUrlIsTaken
  BY DEF AddressInv
<1> QED
  BY <1>1, AddressInvariant, PTL
=============================================================================
