--------------------------- MODULE AccountPollProofs ---------------------------
(***************************************************************************)
(* Theorems about AccountPoll for any account.  The invariant ties what has  *)
(* happened to each group to its place: where a refusal waits to be raised,  *)
(* which groups were fetched, and who is read, being read or offline.        *)
(***************************************************************************)
EXTENDS AccountPoll, TLAPS

\* A poll under way has no result yet; it reads what was asked for, and a group
\* is in it when it was asked for.
PlaceOK ==
  /\ pending \subseteq asked
  /\ IF kind = "idle" THEN asked = {} ELSE result = "none"
  /\ \A g \in Groups : gpc[g] # "out" <=> g \in AskedGroups

\* A refusal waits in its group for the other reads, or is how the group ended.
RefusalOK ==
  /\ kind # "idle" =>
       (refusal <=> refusing # {} \/ \E g \in Groups : outcome[g] = "refused")
  /\ \A g \in refusing : gpc[g] = "reads" \/ outcome[g] = "refused"

Readable(g) == g \notin skip /\ \E d \in Members(g) \cap Iot : status[d] = "up"

\* A group whose detail is asked for, or was applied, was to be read.
FetchedOK ==
  /\ \A g \in Groups : gpc[g] = "detail" => Readable(g)
  /\ \A g \in fetched :
       /\ g \in answered /\ Readable(g)
       /\ gpc[g] = "reads" \/ outcome[g] \in {"ok", "refused"}

\* Past the status, a device is offline, read, or being read.
CaredFor ==
  \A d \in asked :
    LET g == GroupOf[d] IN
      gpc[g] \in {"reads", "done"} =>
        \/ outcome[g] \in {"failed", "refused"}
        \/ status[d] = "offline" \/ d \in read \/ d \in pending

IInv == TypeOK /\ PlaceOK /\ RefusalOK /\ FetchedOK /\ CaredFor /\ RefusalReachesCaller

-----------------------------------------------------------------------------
LEMMA InitInv ==
  ASSUME GroupsAssumption, Init
  PROVE  IInv
<1>1. TypeOK
  BY DEF Init, TypeOK, GroupsAssumption
<1>2. PlaceOK /\ RefusalOK /\ FetchedOK /\ CaredFor /\ RefusalReachesCaller
  BY DEF Init, PlaceOK, RefusalOK, FetchedOK, CaredFor, RefusalReachesCaller, AskedGroups
<1> QED
  BY <1>1, <1>2 DEF IInv

LEMMA BeginInv ==
  ASSUME GroupsAssumption, IInv, NEW k \in {"account", "single"},
         NEW S \in SUBSET Devices, NEW sk \in SUBSET Groups, Begin(k, S, sk)
  PROVE  IInv'
<1>1. \A g \in Groups : /\ gpc'[g] \in {"online", "out"} /\ outcome'[g] = "none"
                        /\ gpc'[g] # "out" <=> \E d \in S : GroupOf[d] = g
  BY DEF Begin
<1>2. gpc' \in [Groups -> {"out", "online", "detail", "reads", "done"}]
      /\ outcome' \in [Groups -> {"none", "ok", "failed", "refused"}]
  BY DEF Begin
<1>3. TypeOK'
  BY <1>1, <1>2 DEF Begin, IInv, TypeOK
<1>4. PlaceOK'
  BY <1>1 DEF Begin, PlaceOK, AskedGroups
<1>5. RefusalOK' /\ FetchedOK' /\ RefusalReachesCaller'
  BY <1>1 DEF Begin, RefusalOK, FetchedOK, RefusalReachesCaller
<1>6. CaredFor'
  BY <1>1 DEF Begin, CaredFor, GroupsAssumption
<1> QED
  BY <1>3, <1>4, <1>5, <1>6 DEF IInv

LEMMA EndPollInv ==
  ASSUME GroupsAssumption, IInv, NEW how \in {"returned", "failed", "refused", "cancelled"},
         NEW set \in SUBSET Groups, EndPoll(how, set),
         how # "cancelled" => ((how = "refused") <=> refusal)
  PROVE  IInv'
<1>1. \A g \in Groups : gpc'[g] = "out" /\ outcome'[g] = "none"
  BY DEF EndPoll
<1>2. TypeOK'
  BY <1>1 DEF EndPoll, IInv, TypeOK
<1>3. PlaceOK' /\ RefusalOK' /\ FetchedOK' /\ CaredFor'
  BY <1>1 DEF EndPoll, PlaceOK, AskedGroups, RefusalOK, FetchedOK, CaredFor
<1>4. RefusalReachesCaller'
  BY DEF EndPoll, RefusalReachesCaller, IInv, TypeOK
<1> QED
  BY <1>2, <1>3, <1>4 DEF IInv

\* When every group has ended, a refusal is the outcome of one of them.
LEMMA RefusalsEnd ==
  ASSUME GroupsAssumption, IInv, kind # "idle", AllDone
  PROVE  refusal <=> Ended("refused") # {}
<1>1. \A g \in refusing : g \in AskedGroups /\ outcome[g] = "refused"
  <2> SUFFICES ASSUME NEW g \in refusing
               PROVE  g \in AskedGroups /\ outcome[g] = "refused"
    OBVIOUS
  <2>1. g \in Groups /\ (gpc[g] = "reads" \/ outcome[g] = "refused")
    BY DEF IInv, TypeOK, RefusalOK
  <2>2. gpc[g] # "out"
    BY <2>1 DEF IInv, TypeOK
  <2>3. g \in AskedGroups
    BY <2>1, <2>2 DEF IInv, PlaceOK
  <2> QED
    BY <2>1, <2>3 DEF AllDone
<1>2. \A g \in Groups : outcome[g] = "refused" => g \in AskedGroups
  BY DEF IInv, TypeOK, PlaceOK
<1>3. AskedGroups \subseteq Groups
  BY DEF AskedGroups, IInv, TypeOK, GroupsAssumption
<1> QED
  BY <1>1, <1>2, <1>3 DEF IInv, RefusalOK, Ended

LEMMA GatheredInv ==
  ASSUME GroupsAssumption, IInv, Gathered
  PROVE  IInv'
<1>1. refusal <=> Ended("refused") # {}
  BY RefusalsEnd DEF Gathered
<1>2. fetched \in SUBSET Groups /\ {} \in SUBSET Groups
  BY DEF IInv, TypeOK
<1>3. CASE Ended("refused") # {}
  <2>1. ~ (Ended("failed") = AskedGroups)
    BY <1>3 DEF Ended
  <2>2. EndPoll("refused", {})
    BY <1>3, <2>1 DEF Gathered
  <2> QED
    BY <1>1, <1>2, <1>3, <2>2, EndPollInv
<1>4. CASE Ended("refused") = {}
  <2>1. EndPoll("failed", {}) \/ EndPoll("returned", fetched)
    BY <1>4 DEF Gathered
  <2> QED
    BY <1>1, <1>2, <1>4, <2>1, EndPollInv
<1> QED
  BY <1>3, <1>4

LEMMA CancelInv ==
  ASSUME GroupsAssumption, IInv, Cancel
  PROVE  IInv'
<1>1. {} \in SUBSET Groups
  OBVIOUS
<1> QED
  BY <1>1, EndPollInv DEF Cancel

-----------------------------------------------------------------------------
(* The steps of a group. *)

\* A group that is waiting for its status or its detail has no outcome, no
\* refused read, and nobody to be read.
LEMMA Waiting ==
  ASSUME GroupsAssumption, IInv, NEW g \in Groups, gpc[g] \in {"online", "detail"}
  PROVE  /\ outcome[g] = "none" /\ g \notin refusing /\ g \notin fetched
         /\ \A d \in pending : GroupOf[d] # g
BY DEF IInv, TypeOK, RefusalOK, FetchedOK

LEMMA EndGroupType ==
  ASSUME TypeOK, NEW g \in Groups, NEW how \in {"ok", "failed", "refused"}, EndGroup(g, how)
  PROVE  /\ gpc' \in [Groups -> {"out", "online", "detail", "reads", "done"}]
         /\ outcome' \in [Groups -> {"none", "ok", "failed", "refused"}]
         /\ \A h \in Groups : (gpc'[h] = "done") <=> (outcome'[h] # "none")
         /\ \A h \in Groups : gpc'[h] = IF h = g THEN "done" ELSE gpc[h]
         /\ \A h \in Groups : outcome'[h] = IF h = g THEN how ELSE outcome[h]
BY DEF TypeOK, EndGroup

\* A group that waits for its status or its detail is refused or fails.
LEMMA FailsInv ==
  ASSUME GroupsAssumption, IInv, NEW g \in Groups, gpc[g] \in {"online", "detail"},
         NEW how \in {"failed", "refused"}, EndGroup(g, how),
         refusal' = (refusal \/ how = "refused"),
         UNCHANGED <<kind, asked, skip, status, pending, refusing, fetched, answered, read,
                     result, returned>>
  PROVE  IInv'
<1>1. /\ outcome[g] = "none" /\ g \notin refusing /\ g \notin fetched
      /\ \A d \in pending : GroupOf[d] # g
  BY Waiting
<1>2. /\ gpc' \in [Groups -> {"out", "online", "detail", "reads", "done"}]
      /\ outcome' \in [Groups -> {"none", "ok", "failed", "refused"}]
      /\ \A h \in Groups : (gpc'[h] = "done") <=> (outcome'[h] # "none")
      /\ \A h \in Groups : gpc'[h] = IF h = g THEN "done" ELSE gpc[h]
      /\ \A h \in Groups : outcome'[h] = IF h = g THEN how ELSE outcome[h]
  BY EndGroupType DEF IInv
<1>3. kind # "idle" /\ result = "none"
  <2>1. g \in AskedGroups
    BY DEF IInv, PlaceOK
  <2>2. PICK d \in asked : GroupOf[d] = g
    BY <2>1 DEF AskedGroups
  <2> QED
    BY <2>2 DEF IInv, PlaceOK
<1>4. TypeOK'
  <2>1. pending' \subseteq {d \in Devices : gpc'[GroupOf[d]] = "reads"}
    BY <1>1, <1>2 DEF IInv, TypeOK, GroupsAssumption
  <2>2. refusal' \in BOOLEAN
    BY DEF IInv, TypeOK
  <2> QED
    BY <1>2, <2>1, <2>2 DEF IInv, TypeOK
<1>5. PlaceOK'
  BY <1>2 DEF IInv, PlaceOK, AskedGroups
<1>6. RefusalOK'
  <2>1. (\E h \in Groups : outcome'[h] = "refused")
          <=> (how = "refused" \/ \E h \in Groups : outcome[h] = "refused")
    BY <1>1, <1>2
  <2>2. refusal <=> refusing # {} \/ \E h \in Groups : outcome[h] = "refused"
    BY <1>3 DEF IInv, RefusalOK
  <2>3. refusal' <=> refusing' # {} \/ \E h \in Groups : outcome'[h] = "refused"
    BY <2>1, <2>2
  <2>4. \A h \in refusing' : gpc'[h] = "reads" \/ outcome'[h] = "refused"
    BY <1>1, <1>2 DEF IInv, TypeOK, RefusalOK
  <2> QED
    BY <2>3, <2>4 DEF RefusalOK
<1>7. FetchedOK'
  BY <1>1, <1>2 DEF IInv, FetchedOK, TypeOK, Readable, Members
<1>8. CaredFor'
  BY <1>2 DEF IInv, CaredFor, TypeOK, GroupsAssumption
<1>9. RefusalReachesCaller'
  BY <1>3 DEF RefusalReachesCaller
<1> QED
  BY <1>4, <1>5, <1>6, <1>7, <1>8, <1>9 DEF IInv

LEMMA OnlineFailsInv ==
  ASSUME GroupsAssumption, IInv, NEW g \in Groups, NEW how \in {"failed", "refused"},
         OnlineFails(g, how)
  PROVE  IInv'
BY FailsInv DEF OnlineFails, pollVars

\* The reads of a group begin, after its detail or without it.
LEMMA StartInv ==
  ASSUME GroupsAssumption, IInv, NEW g \in Groups, gpc[g] = "detail", StartReads(g),
         UNCHANGED <<kind, asked, skip, status, refusing, read, result, returned>>,
         refusal' = refusal,
         \/ fetched' = fetched /\ answered' = answered
         \/ fetched' = fetched \cup {g} /\ answered' = answered \cup {g}
  PROVE  IInv'
<1>1. /\ outcome[g] = "none" /\ g \notin refusing /\ g \notin fetched
      /\ \A d \in pending : GroupOf[d] # g
  BY Waiting
<1>2. /\ gpc' \in [Groups -> {"out", "online", "detail", "reads", "done"}]
      /\ \A h \in Groups : gpc'[h] = IF h = g THEN "reads" ELSE gpc[h]
      /\ outcome' = outcome
  BY DEF StartReads, IInv, TypeOK
<1>3. /\ pending' = pending \cup Online(g)
      /\ \A d \in Online(g) : d \in asked /\ d \in Devices /\ GroupOf[d] = g
      /\ \A d \in asked : GroupOf[d] = g => status[d] = "offline" \/ d \in Online(g)
  BY DEF StartReads, Online, Members, IInv, TypeOK
<1>4. TypeOK'
  <2>1. pending' \subseteq {d \in Devices : gpc'[GroupOf[d]] = "reads"}
    BY <1>1, <1>2, <1>3 DEF IInv, TypeOK, GroupsAssumption
  <2>2. \A h \in Groups : (gpc'[h] = "done") = (outcome'[h] # "none")
    BY <1>1, <1>2 DEF IInv, TypeOK
  <2>3. fetched' \in SUBSET Groups /\ answered' \in SUBSET Groups
    BY DEF IInv, TypeOK
  <2> QED
    BY <1>2, <2>1, <2>2, <2>3 DEF IInv, TypeOK
<1>5. PlaceOK'
  BY <1>2, <1>3 DEF IInv, PlaceOK, AskedGroups
<1>6. RefusalOK'
  BY <1>2 DEF IInv, TypeOK, RefusalOK
<1>7. FetchedOK'
  <2>1. Readable(g)
    BY DEF IInv, FetchedOK
  <2>2. \A h \in Groups : Readable(h)' = Readable(h)
    BY DEF Readable, Members
  <2>3. \A h \in Groups : gpc'[h] = "detail" => Readable(h)'
    BY <1>2, <2>2 DEF IInv, FetchedOK
  <2>4. ASSUME NEW h \in fetched'
        PROVE  /\ h \in answered' /\ Readable(h)'
               /\ gpc'[h] = "reads" \/ outcome'[h] \in {"ok", "refused"}
    <3>1. h \in Groups
      BY <2>4 DEF IInv, TypeOK
    <3>2. h \in fetched \/ h = g
      BY <2>4
    <3>3. h \in answered'
      BY <2>4 DEF IInv, FetchedOK
    <3> QED
      BY <1>1, <1>2, <2>1, <2>2, <3>1, <3>2, <3>3 DEF IInv, FetchedOK
  <2> QED
    BY <2>3, <2>4 DEF FetchedOK
<1>8. CaredFor'
  BY <1>2, <1>3 DEF IInv, CaredFor, TypeOK, GroupsAssumption
<1>9. RefusalReachesCaller'
  BY DEF IInv, RefusalReachesCaller
<1> QED
  BY <1>4, <1>5, <1>6, <1>7, <1>8, <1>9 DEF IInv

LEMMA DetailAnsweredInv ==
  ASSUME GroupsAssumption, IInv, NEW g \in Groups, DetailAnswered(g)
  PROVE  IInv'
BY StartInv DEF DetailAnswered, pollVars

LEMMA DetailFailsInv ==
  ASSUME GroupsAssumption, IInv, NEW g \in Groups, NEW how \in {"failed", "refused"},
         DetailFails(g, how)
  PROVE  IInv'
<1>1. CASE how = "refused"
  BY <1>1, FailsInv DEF DetailFails, pollVars
<1>2. CASE how = "failed"
  <2>1. refusal' = refusal
    BY <1>2 DEF DetailFails, IInv, TypeOK
  <2> QED
    BY <1>2, <2>1, StartInv DEF DetailFails, pollVars
<1> QED
  BY <1>1, <1>2

LEMMA OnlineAnsweredInv ==
  ASSUME GroupsAssumption, IInv, NEW g \in Groups, NEW up \in SUBSET Devices,
         OnlineAnswered(g, up)
  PROVE  IInv'
<1>1. /\ gpc[g] = "online" /\ up \subseteq asked /\ \A d \in up : d \in Devices /\ GroupOf[d] = g
      /\ UNCHANGED <<kind, asked, skip, refusing, fetched, answered, read, refusal, result,
                     returned>>
  BY DEF OnlineAnswered, pollVars, Members
<1>2. /\ outcome[g] = "none" /\ g \notin refusing /\ g \notin fetched
      /\ \A d \in pending : GroupOf[d] # g
  BY <1>1, Waiting
<1>3. /\ status' \in [Devices -> {"up", "offline"}]
      /\ \A d \in Devices : GroupOf[d] # g => status'[d] = status[d]
      /\ \A d \in asked : GroupOf[d] = g => status'[d] = IF d \in up THEN "up" ELSE "offline"
  BY DEF OnlineAnswered, Members, IInv, TypeOK
<1>4. /\ gpc' \in [Groups -> {"out", "online", "detail", "reads", "done"}]
      /\ outcome' \in [Groups -> {"none", "ok", "failed", "refused"}]
      /\ \A h \in Groups : h # g => gpc'[h] = gpc[h] /\ outcome'[h] = outcome[h]
      /\ \/ gpc'[g] = "done" /\ outcome'[g] = "ok" /\ pending' = pending /\ up = {}
         \/ /\ gpc'[g] = "detail" /\ outcome'[g] = "none" /\ pending' = pending
            /\ up \cap Iot # {} /\ g \notin skip
         \/ gpc'[g] = "reads" /\ outcome'[g] = "none" /\ pending' = pending \cup up
  <2>1. CASE up = {}
    BY <1>1, <2>1 DEF OnlineAnswered, EndGroup, IInv, TypeOK
  <2>2. CASE up # {} /\ up \cap Iot # {} /\ g \notin skip
    BY <1>1, <1>2, <2>2 DEF OnlineAnswered, IInv, TypeOK
  <2>3. CASE up # {} /\ ~ (up \cap Iot # {} /\ g \notin skip)
    BY <1>1, <1>2, <2>3 DEF OnlineAnswered, IInv, TypeOK
  <2> QED
    BY <2>1, <2>2, <2>3
<1>5. TypeOK'
  <2>1. pending' \subseteq {d \in Devices : gpc'[GroupOf[d]] = "reads"}
    BY <1>1, <1>2, <1>4 DEF IInv, TypeOK, GroupsAssumption
  <2>2. \A h \in Groups : (gpc'[h] = "done") = (outcome'[h] # "none")
    BY <1>4 DEF IInv, TypeOK
  <2> QED
    BY <1>1, <1>3, <1>4, <2>1, <2>2 DEF IInv, TypeOK
<1>6. PlaceOK'
  BY <1>1, <1>4 DEF IInv, PlaceOK, AskedGroups
<1>7. RefusalOK'
  <2>1. (\E h \in Groups : outcome'[h] = "refused") <=> \E h \in Groups : outcome[h] = "refused"
    BY <1>2, <1>4
  <2>2. \A h \in refusing : gpc'[h] = "reads" \/ outcome'[h] = "refused"
    BY <1>2, <1>4 DEF IInv, TypeOK, RefusalOK
  <2> QED
    BY <1>1, <2>1, <2>2 DEF IInv, RefusalOK
<1>8. FetchedOK'
  <2>1. \A h \in Groups : h # g => (Readable(h)' <=> Readable(h))
    <3>1. ASSUME NEW h \in Groups, h # g
          PROVE  /\ Members(h)' = Members(h)
                 /\ \A d \in Members(h) : d \in Devices /\ status'[d] = status[d]
      BY <1>1, <1>3, <3>1 DEF Members, IInv, TypeOK
    <3> QED
      BY <1>1, <3>1 DEF Readable
  <2>2. gpc'[g] = "detail" => Readable(g)'
    <3>1. ASSUME gpc'[g] = "detail"
          PROVE  g \notin skip' /\ \E d \in Members(g)' \cap Iot : status'[d] = "up"
      BY <1>1, <1>3, <1>4, <3>1 DEF Members
    <3> QED
      BY <3>1 DEF Readable
  <2>3. \A h \in Groups : gpc'[h] = "detail" => Readable(h)'
    BY <1>4, <2>1, <2>2 DEF IInv, FetchedOK
  <2>4. \A h \in fetched' :
          /\ h \in answered' /\ Readable(h)'
          /\ gpc'[h] = "reads" \/ outcome'[h] \in {"ok", "refused"}
    BY <1>1, <1>2, <1>4, <2>1 DEF IInv, TypeOK, FetchedOK
  <2> QED
    BY <2>3, <2>4 DEF FetchedOK
<1>9. CaredFor'
  <2> SUFFICES ASSUME NEW d \in asked,
                      gpc'[GroupOf[d]] \in {"reads", "done"}
               PROVE  \/ outcome'[GroupOf[d]] \in {"failed", "refused"}
                      \/ status'[d] = "offline" \/ d \in read \/ d \in pending'
    BY <1>1 DEF CaredFor
  <2>1. d \in Devices /\ GroupOf[d] \in Groups
    BY DEF IInv, TypeOK, GroupsAssumption
  <2>2. CASE GroupOf[d] = g
    BY <1>1, <1>3, <1>4, <2>2
  <2>3. CASE GroupOf[d] # g
    BY <1>3, <1>4, <2>1, <2>3 DEF IInv, CaredFor
  <2> QED
    BY <2>2, <2>3
<1>10. RefusalReachesCaller'
  BY <1>1 DEF IInv, RefusalReachesCaller
<1> QED
  BY <1>5, <1>6, <1>7, <1>8, <1>9, <1>10 DEF IInv

LEMMA ReadsEndInv ==
  ASSUME GroupsAssumption, IInv, NEW d \in Devices, NEW how \in {"ok", "failed", "refused"},
         ReadsEnd(d, how)
  PROVE  IInv'
<1> DEFINE g == GroupOf[d]
<1>1. /\ d \in pending /\ g \in Groups /\ gpc[g] = "reads" /\ outcome[g] = "none"
      /\ pending' = pending \ {d} /\ read' = read \cup {d}
      /\ UNCHANGED <<kind, asked, skip, gpc, outcome, status, fetched, answered, result, returned>>
  BY DEF ReadsEnd, pollVars, IInv, TypeOK, GroupsAssumption
<1>2. \/ refusing' = refusing /\ refusal' = refusal
      \/ refusing' = refusing \cup {g} /\ refusal' = TRUE
  BY DEF ReadsEnd
<1>3. TypeOK'
  <2>1. refusing' \in SUBSET Groups /\ refusal' \in BOOLEAN
    BY <1>1, <1>2 DEF IInv, TypeOK
  <2>2. pending' \subseteq {x \in Devices : gpc'[GroupOf[x]] = "reads"}
    BY <1>1 DEF IInv, TypeOK
  <2> QED
    BY <1>1, <2>1, <2>2 DEF IInv, TypeOK
<1>4. kind # "idle" /\ result = "none"
  <2>1. g \in AskedGroups
    BY <1>1 DEF IInv, PlaceOK
  <2>2. PICK x \in asked : GroupOf[x] = g
    BY <2>1 DEF AskedGroups
  <2> QED
    BY <2>2 DEF IInv, PlaceOK
<1>5. PlaceOK' /\ CaredFor'
  BY <1>1 DEF IInv, PlaceOK, CaredFor, AskedGroups
<1>6. RefusalOK'
  BY <1>1, <1>2 DEF IInv, RefusalOK
<1>7. FetchedOK'
  BY <1>1 DEF IInv, FetchedOK, Readable, Members
<1>8. RefusalReachesCaller'
  BY <1>1, <1>4 DEF RefusalReachesCaller
<1> QED
  BY <1>3, <1>5, <1>6, <1>7, <1>8 DEF IInv

LEMMA ReadsGatheredInv ==
  ASSUME GroupsAssumption, IInv, NEW g \in Groups, ReadsGathered(g)
  PROVE  IInv'
<1> DEFINE how == IF g \in refusing THEN "refused" ELSE "ok"
<1>1. /\ gpc[g] = "reads" /\ outcome[g] = "none" /\ EndGroup(g, how)
      /\ how \in {"ok", "failed", "refused"} /\ (how = "refused" <=> g \in refusing)
      /\ UNCHANGED <<kind, asked, skip, status, pending, refusing, fetched, answered, read,
                     refusal, result, returned>>
  BY DEF ReadsGathered, pollVars, IInv, TypeOK
<1>2. \A d \in pending : GroupOf[d] = g => d \notin asked
  BY DEF ReadsGathered, Members
<1> HIDE DEF how
<1>3. /\ gpc' \in [Groups -> {"out", "online", "detail", "reads", "done"}]
      /\ outcome' \in [Groups -> {"none", "ok", "failed", "refused"}]
      /\ \A h \in Groups : (gpc'[h] = "done") <=> (outcome'[h] # "none")
      /\ \A h \in Groups : gpc'[h] = IF h = g THEN "done" ELSE gpc[h]
      /\ \A h \in Groups : outcome'[h] = IF h = g THEN how ELSE outcome[h]
  BY <1>1, EndGroupType DEF IInv
<1>4. pending \subseteq asked
  BY DEF IInv, PlaceOK
<1>5. TypeOK'
  <2>1. pending' \subseteq {d \in Devices : gpc'[GroupOf[d]] = "reads"}
    BY <1>1, <1>2, <1>3, <1>4 DEF IInv, TypeOK, GroupsAssumption
  <2> QED
    BY <1>1, <1>3, <2>1 DEF IInv, TypeOK
<1>6. PlaceOK'
  BY <1>1, <1>3 DEF IInv, PlaceOK, AskedGroups
<1>7. RefusalOK'
  <2>1. (\E h \in Groups : outcome'[h] = "refused")
          <=> (g \in refusing \/ \E h \in Groups : outcome[h] = "refused")
    BY <1>1, <1>3
  <2>2. \A h \in refusing : gpc'[h] = "reads" \/ outcome'[h] = "refused"
    BY <1>1, <1>3 DEF IInv, TypeOK, RefusalOK
  <2> QED
    BY <1>1, <2>1, <2>2 DEF IInv, RefusalOK
<1>8. FetchedOK'
  <2>1. \A h \in Groups : Readable(h)' = Readable(h)
    BY <1>1 DEF Readable, Members
  <2>2. how \in {"ok", "refused"}
    BY DEF how
  <2> QED
    BY <1>1, <1>3, <2>1, <2>2 DEF IInv, FetchedOK, TypeOK
<1>9. CaredFor'
  <2> SUFFICES ASSUME NEW d \in asked,
                      gpc'[GroupOf[d]] \in {"reads", "done"}
               PROVE  \/ outcome'[GroupOf[d]] \in {"failed", "refused"}
                      \/ status[d] = "offline" \/ d \in read \/ d \in pending
    BY <1>1 DEF CaredFor
  <2>1. d \in Devices /\ GroupOf[d] \in Groups
    BY DEF IInv, TypeOK, GroupsAssumption
  <2> QED
    BY <1>1, <1>3, <2>1 DEF IInv, CaredFor
<1>10. RefusalReachesCaller'
  BY <1>1 DEF IInv, RefusalReachesCaller
<1> QED
  BY <1>5, <1>6, <1>7, <1>8, <1>9, <1>10 DEF IInv

LEMMA StepInv ==
  ASSUME GroupsAssumption, IInv, [Next]_vars
  PROVE  IInv'
<1>1. ASSUME NEW k \in {"account", "single"}, NEW S \in SUBSET Devices,
             NEW sk \in SUBSET Groups, Begin(k, S, sk)
      PROVE  IInv'
  BY <1>1, BeginInv
<1>2. ASSUME NEW g \in Groups, \E up \in SUBSET Devices : OnlineAnswered(g, up)
      PROVE  IInv'
  BY <1>2, OnlineAnsweredInv
<1>3. ASSUME NEW g \in Groups,
             \E how \in {"failed", "refused"} : OnlineFails(g, how) \/ DetailFails(g, how)
      PROVE  IInv'
  BY <1>3, OnlineFailsInv, DetailFailsInv
<1>4. ASSUME NEW g \in Groups, DetailAnswered(g) \/ ReadsGathered(g)
      PROVE  IInv'
  BY <1>4, DetailAnsweredInv, ReadsGatheredInv
<1>5. ASSUME NEW d \in Devices, \E how \in {"ok", "failed", "refused"} : ReadsEnd(d, how)
      PROVE  IInv'
  BY <1>5, ReadsEndInv
<1>6. CASE Gathered \/ Cancel
  BY <1>6, GatheredInv, CancelInv
<1>7. CASE UNCHANGED vars
  BY <1>7 DEF vars, pollVars, IInv, TypeOK, PlaceOK, RefusalOK, FetchedOK, CaredFor,
              RefusalReachesCaller, AskedGroups, Readable, Members
<1> QED
  BY <1>1, <1>2, <1>3, <1>4, <1>5, <1>6, <1>7 DEF Next

LEMMA Invariant ==
  Spec => []IInv
<1>1. Init => IInv
  BY GroupsAssumption, InitInv
<1>2. IInv /\ [Next]_vars => IInv'
  BY GroupsAssumption, StepInv
<1> QED
  BY <1>1, <1>2, PTL DEF Spec

\* Every variable keeps its type, for any account: a group that has ended has an
\* outcome, and only a group that is being read has reads under way.
THEOREM TypeCorrect ==
  Spec => []TypeOK
<1>1. IInv => TypeOK
  BY DEF IInv
<1> QED
  BY <1>1, Invariant, PTL

\* However many requests of however many devices a poll makes, a refusal of any
\* of them is what the caller is told (ha_device.py:834-837, 858, 904, 990-993).
THEOREM RefusalsReachTheCaller ==
  Spec => []RefusalReachesCaller
<1>1. IInv => RefusalReachesCaller
  BY DEF IInv
<1> QED
  BY <1>1, Invariant, PTL

\* What ends a poll: the last gather(), or the caller's deadline.
LEMMA Endings ==
  ASSUME IInv, [Next]_vars, kind # "idle", kind' = "idle"
  PROVE  Gathered \/ Cancel
<1>1. \A k \in {"account", "single"}, S \in SUBSET Devices, sk \in SUBSET Groups :
        ~ Begin(k, S, sk)
  BY DEF Begin
<1>2. \A g \in Groups :
        /\ \A up \in SUBSET Devices : ~ OnlineAnswered(g, up)
        /\ \A how \in {"failed", "refused"} : ~ OnlineFails(g, how) /\ ~ DetailFails(g, how)
        /\ ~ DetailAnswered(g) /\ ~ ReadsGathered(g)
  BY DEF OnlineAnswered, OnlineFails, DetailFails, DetailAnswered, ReadsGathered, pollVars
<1>3. \A d \in Devices, how \in {"ok", "failed", "refused"} : ~ ReadsEnd(d, how)
  BY DEF ReadsEnd, pollVars
<1>4. ~ UNCHANGED vars
  BY DEF vars, pollVars
<1> QED
  BY <1>1, <1>2, <1>3, <1>4 DEF Next

\* A poll has no result before it ends.
LEMMA NoResultYet ==
  ASSUME IInv, [Next]_vars, kind # "idle", result' # "none"
  PROVE  kind' = "idle" /\ (Gathered \/ Cancel)
<1>1. result = "none"
  BY DEF IInv, PlaceOK
<1>2. \A k \in {"account", "single"}, S \in SUBSET Devices, sk \in SUBSET Groups :
        ~ Begin(k, S, sk)
  BY DEF Begin
<1>3. \A g \in Groups :
        /\ \A up \in SUBSET Devices : ~ OnlineAnswered(g, up)
        /\ \A how \in {"failed", "refused"} : ~ OnlineFails(g, how) /\ ~ DetailFails(g, how)
        /\ ~ DetailAnswered(g) /\ ~ ReadsGathered(g)
  BY <1>1 DEF OnlineAnswered, OnlineFails, DetailFails, DetailAnswered, ReadsGathered
<1>4. \A d \in Devices, how \in {"ok", "failed", "refused"} : ~ ReadsEnd(d, how)
  BY <1>1 DEF ReadsEnd
<1>5. ~ UNCHANGED vars
  BY <1>1 DEF vars
<1>6. Gathered \/ Cancel
  BY <1>2, <1>3, <1>4, <1>5 DEF Next
<1>7. kind' = "idle"
  BY <1>6 DEF Gathered, Cancel, EndPoll
<1> QED
  BY <1>6, <1>7

\* The account poll fails when no group got its status, and only then; one dead
\* device never is an outage (ha_device.py:838-846).
THEOREM OnlyAllIsOutage ==
  Spec => OutageMeansAll
<1> DEFINE Means ==
      /\ kind = "account" /\ kind' = "idle" /\ result' # "cancelled" /\ ~refusal
      => (result' = "failed") = (\A d \in asked : outcome[GroupOf[d]] = "failed")
<1>1. IInv /\ [Next]_vars => Means
  <2> SUFFICES ASSUME IInv, [Next]_vars,
                      kind = "account", kind' = "idle", result' # "cancelled", ~refusal
               PROVE  (result' = "failed") = (\A d \in asked : outcome[GroupOf[d]] = "failed")
    OBVIOUS
  <2>1. Gathered
    BY Endings DEF Cancel, EndPoll
  <2>2. Ended("refused") = {}
    BY <2>1, GroupsAssumption, RefusalsEnd DEF Gathered
  <2>3. Ended("failed") = AskedGroups <=> \A d \in asked : outcome[GroupOf[d]] = "failed"
    BY DEF Ended, AskedGroups
  <2>4. CASE Ended("failed") = AskedGroups
    <3>1. EndPoll("failed", {})
      BY <2>1, <2>2, <2>4 DEF Gathered
    <3> QED
      BY <2>3, <2>4, <3>1 DEF EndPoll
  <2>5. CASE Ended("failed") # AskedGroups
    <3>1. EndPoll("returned", fetched)
      BY <2>1, <2>2, <2>5 DEF Gathered
    <3> QED
      BY <2>3, <2>5, <3>1 DEF EndPoll
  <2> QED
    BY <2>4, <2>5
<1> HIDE DEF Means
<1>2. Spec => [][Means]_vars
  BY <1>1, Invariant, PTL DEF Spec
<1> QED
  BY <1>2 DEF OutageMeansAll, Means

\* A poll that returns has seen no refusal, and returns what it has fetched.
LEMMA Returning ==
  ASSUME IInv, [Next]_vars, kind # "idle", result' = "returned"
  PROVE  /\ AllDone /\ Ended("refused") = {} /\ returned' = fetched
<1>1. Gathered
  BY NoResultYet DEF Cancel, EndPoll
<1>2. Ended("refused") = {}
  BY <1>1 DEF Gathered, EndPoll
<1>3. EndPoll("failed", {}) \/ EndPoll("returned", fetched)
  BY <1>1, <1>2 DEF Gathered
<1> QED
  BY <1>1, <1>2, <1>3 DEF Gathered, EndPoll

\* The groups that a poll returns, and that the caller may skip next time, were
\* asked for, online and answered (ha_device.py:890-905).
THEOREM OnlyReadIsReturned ==
  Spec => ReturnedWasRead
<1> DEFINE WasRead ==
      kind # "idle" /\ result' = "returned" =>
        \A g \in returned' :
          /\ g \in answered /\ g \notin skip /\ outcome[g] = "ok"
          /\ \E d \in Members(g) \cap Iot : status[d] = "up"
<1>1. IInv /\ [Next]_vars => WasRead
  <2> SUFFICES ASSUME IInv, [Next]_vars, kind # "idle", result' = "returned",
                      NEW g \in fetched
               PROVE  /\ g \in answered /\ g \notin skip /\ outcome[g] = "ok"
                      /\ \E d \in Members(g) \cap Iot : status[d] = "up"
    BY Returning
  <2>1. g \in answered /\ Readable(g) /\ (gpc[g] = "reads" \/ outcome[g] \in {"ok", "refused"})
    BY DEF IInv, FetchedOK
  <2>2. \E d \in asked : GroupOf[d] = g
    BY <2>1 DEF Readable, Members
  <2>3. g \in AskedGroups
    BY <2>2 DEF AskedGroups
  <2>4. gpc[g] = "done" /\ outcome[g] # "refused"
    BY <2>3, Returning DEF AllDone, Ended
  <2> QED
    BY <2>1, <2>4 DEF Readable
<1> HIDE DEF WasRead
<1>2. Spec => [][WasRead]_vars
  BY <1>1, Invariant, PTL DEF Spec
<1> QED
  BY <1>2 DEF ReturnedWasRead, WasRead

\* Whatever fails in a poll that returns, every device it was asked for is
\* offline, was read, or shares the failed status of its group
\* (ha_device.py:518, "one unhappy entity cannot stop a poll").
THEOREM EveryoneIsCaredFor ==
  Spec => NobodyIsForgotten
<1> DEFINE Cared ==
      kind # "idle" /\ result' = "returned" =>
        \A d \in asked : \/ outcome[GroupOf[d]] = "failed"
                         \/ status[d] = "offline"
                         \/ d \in read
<1>1. IInv /\ [Next]_vars => Cared
  <2> SUFFICES ASSUME IInv, [Next]_vars, kind # "idle", result' = "returned", NEW d \in asked
               PROVE  outcome[GroupOf[d]] = "failed" \/ status[d] = "offline" \/ d \in read
    OBVIOUS
  <2>1. GroupOf[d] \in AskedGroups
    BY DEF AskedGroups
  <2>2. gpc[GroupOf[d]] = "done" /\ outcome[GroupOf[d]] # "refused"
    BY <2>1, Returning DEF AllDone, Ended
  <2>3. d \notin pending
    BY <2>2 DEF IInv, TypeOK
  <2> QED
    BY <2>2, <2>3 DEF IInv, CaredFor
<1> HIDE DEF Cared
<1>2. Spec => [][Cared]_vars
  BY <1>1, Invariant, PTL DEF Spec
<1> QED
  BY <1>2 DEF NobodyIsForgotten, Cared
=============================================================================
