---------------------------- MODULE DiscoveryProofs ----------------------------
(***************************************************************************)
(* Theorems about how the devices of an account become devices of Home      *)
(* Assistant: Capabilities, which says what entities a listed device gets,  *)
(* and Listing, which says what is listed.                                  *)
(*                                                                         *)
(* Capabilities, for all tables, products, channels and names: what an      *)
(* entity rests on is a name that is usable there, and who has a usable     *)
(* name follows from the two levels.                                        *)
(*                                                                         *)
(* Listing, for any account, any page size and any number of changes: the   *)
(* argument follows the position in the account up to which the pages have  *)
(* been served.  Who was there all the time and stands before it is listed  *)
(* already, because additions push devices away from it and never back      *)
(* over it.                                                                 *)
(***************************************************************************)
EXTENDS Listing, Capabilities, SequenceTheorems, WellFoundedInduction, TLAPS

-----------------------------------------------------------------------------
(* The first hit of a search. *)

LEMMA MinIsIn ==
  ASSUME NEW S \in SUBSET Nat, S # {}
  PROVE  Min(S) \in S
<1> DEFINE Less == {ss \in Nat \X Nat : ss[1] < ss[2]}
<1>1. IsWellFoundedOn(Less, Nat)
  <2>1. Less = OpToRel(<, Nat)
    BY DEF OpToRel
  <2> QED
    BY <2>1, NatLessThanWellFounded
<1>2. \A x, y \in Nat : <<y, x>> \in Less <=> y < x
  OBVIOUS
<1> HIDE DEF Less
<1>3. \E x \in S : \A y \in S : ~ (<<y, x>> \in Less)
  BY <1>1, WFMin
<1>4. PICK x \in S : \A y \in S : ~ (<<y, x>> \in Less)
  BY <1>3
<1>5. \A y \in S : x =< y
  <2> SUFFICES ASSUME NEW y \in S PROVE x =< y
    OBVIOUS
  <2>1. x \in Nat /\ y \in Nat
    OBVIOUS
  <2>2. ~ (y < x)
    BY <1>2, <1>4, <2>1
  <2> QED
    BY <2>1, <2>2
<1> QED
  BY <1>5 DEF Min

\* A search that finds something finds a hit; it fails only when there is none.
LEMMA FirstInFinds ==
  ASSUME NEW s \in Seq(Names), NEW S
  PROVE  /\ FirstIn(s, S) # NoName => FirstIn(s, S) \in S \cap Names
         /\ (\E i \in DOMAIN s : s[i] \in S) <=> FirstIn(s, S) # NoName
<1> DEFINE hits == {i \in DOMAIN s : s[i] \in S}
<1>1. hits \in SUBSET Nat /\ \A i \in DOMAIN s : s[i] \in Names
  OBVIOUS
<1>2. CASE hits = {}
  BY <1>2 DEF FirstIn
<1>3. CASE hits # {}
  <2>1. Min(hits) \in hits
    BY <1>1, <1>3, MinIsIn
  <2>2. FirstIn(s, S) = s[Min(hits)]
    BY <1>3 DEF FirstIn
  <2>3. FirstIn(s, S) \in S \cap Names
    BY <1>1, <2>1, <2>2
  <2>4. \E i \in DOMAIN s : s[i] \in S
    BY <1>3
  <2> QED
    BY <2>3, <2>4, TablesAssumption DEF TablesAssumption
<1> QED
  BY <1>2, <1>3

LEMMA EntityIsSupported ==
  ASSUME NEW id, NEW t \in Types, Has(id, t)
  PROVE  Entity(id, t) \in Names /\ Supports(id, Entity(id, t))
<1> DEFINE usable == {x \in Names : Usable(id, x)}
           supported == {x \in Names : Supports(id, x)}
<1>1. RefTable[t] \in Seq(Names) /\ AbilityTable[t] \in Seq(Names)
  BY TablesAssumption DEF TablesAssumption
<1>2. \/ Entity(id, t) = FirstIn(AbilityTable[t], supported)
      \/ Entity(id, t) = FirstIn(RefTable[t], usable)
  BY DEF Has, Entity, ByAbility, ByRef
<1>3. Entity(id, t) # NoName
  BY DEF Has
<1>4. Entity(id, t) \in Names /\ Entity(id, t) \in supported \cup usable
  BY <1>1, <1>2, <1>3, FirstInFinds
<1> QED
  BY <1>4 DEF Usable

-----------------------------------------------------------------------------
\* Every variable keeps its type, and a channel that is not there lists nothing.
THEOREM ConfigTypeCorrect ==
  ConfigSpec => []ConfigTypeOK
<1>1. ConfigInit => ConfigTypeOK
  BY DEF ConfigInit, ConfigTypeOK
<1>2. ConfigTypeOK /\ [NextListing]_configVars => ConfigTypeOK'
  <2> SUFFICES ASSUME ConfigTypeOK, [NextListing]_configVars PROVE ConfigTypeOK'
    OBVIOUS
  <2> USE DEF ConfigTypeOK
  <2>1. ASSUME NEW x \in Names, DeviceAdds(x) PROVE ConfigTypeOK'
    BY <2>1 DEF DeviceAdds
  <2>2. ASSUME NEW x \in Names, DeviceDrops(x) PROVE ConfigTypeOK'
    BY <2>2 DEF DeviceDrops
  <2>3. ASSUME NEW x \in Names, NEW c \in ChannelIds, ChannelAdds(c, x) PROVE ConfigTypeOK'
    BY <2>3 DEF ChannelAdds
  <2>4. ASSUME NEW x \in Names, NEW c \in ChannelIds, ChannelDrops(c, x) PROVE ConfigTypeOK'
    BY <2>4 DEF ChannelDrops
  <2>5. CASE UNCHANGED configVars
    BY <2>5 DEF configVars
  <2> QED
    BY <2>1, <2>2, <2>3, <2>4, <2>5 DEF NextListing
<1> QED
  BY <1>1, <1>2, PTL DEF ConfigSpec

\* No two devices share an entity that comes from the device's own list
\* (entity_need_add_to_device: only the first channel of a camera takes it).
THEOREM DeviceLevelIsSingle ==
  ConfigSpec => []DeviceLevelOnce
<1>1. ConfigTypeOK => DeviceLevelOnce
  <2> SUFFICES ASSUME ConfigTypeOK, NEW t \in Types, NEW c \in HaDevices, NEW d \in HaDevices,
                      Has(c, t), Has(d, t), c # d
               PROVE  \E e \in {c, d} : e \in ChannelIds /\ Entity(e, t) \in channelNames[e]
    BY DEF DeviceLevelOnce
  <2>1. c \in ChannelIds /\ d \in ChannelIds
    BY DEF HaDevices, ConfigTypeOK
  <2>2. PICK e \in {c, d} : e # "0"
    OBVIOUS
  <2>3. Supports(e, Entity(e, t))
    BY <2>2, EntityIsSupported
  <2>4. e # NoChannel
    BY <2>1, <2>2, TablesAssumption DEF TablesAssumption
  <2> QED
    BY <2>1, <2>2, <2>3, <2>4 DEF Supports
<1> QED
  BY <1>1, ConfigTypeCorrect, PTL

-----------------------------------------------------------------------------
(* What a change of the listing does. *)

LEMMA SearchesGrow ==
  ASSUME NEW id, NEW t \in Types, UNCHANGED product,
         \A x : Supports(id, x) => Supports(id, x)'
  PROVE  /\ ByRef(id, t) # NoName => (ByRef(id, t) # NoName)'
         /\ ByAbility(id, t) # NoName => (ByAbility(id, t) # NoName)'
<1> DEFINE usable == {x \in Names : Usable(id, x)}
           supported == {x \in Names : Supports(id, x)}
<1>1. RefTable[t] \in Seq(Names) /\ AbilityTable[t] \in Seq(Names)
  BY TablesAssumption DEF TablesAssumption
<1>2. usable \subseteq usable' /\ supported \subseteq supported'
  BY DEF Usable
<1>3. /\ ByRef(id, t) = FirstIn(RefTable[t], usable)
      /\ ByAbility(id, t) = FirstIn(AbilityTable[t], supported)
      /\ ByRef(id, t)' = FirstIn(RefTable[t], usable')
      /\ ByAbility(id, t)' = FirstIn(AbilityTable[t], supported')
  BY DEF ByRef, ByAbility
<1> HIDE DEF usable, supported
<1>4. ASSUME NEW s \in Seq(Names), NEW S, NEW T, S \subseteq T, FirstIn(s, S) # NoName
      PROVE  FirstIn(s, T) # NoName
  <2>1. PICK i \in DOMAIN s : s[i] \in S
    BY <1>4, FirstInFinds
  <2>2. \E j \in DOMAIN s : s[j] \in T
    BY <1>4, <2>1
  <2> QED
    BY <2>2, FirstInFinds
<1> QED
  BY <1>1, <1>2, <1>3, <1>4

\* A name the platform adds, on whichever level, never costs an entity but the
\* relay of a light that turns out to be a bulb.
THEOREM GainsAreGains ==
  ConfigSpec => GainsKeepEntities
<1> DEFINE Gain == \E x \in Names : DeviceAdds(x) \/ \E c \in ChannelIds : ChannelAdds(c, x)
           Kept(id, t) == Has(id, t)' \/ (t = Relay /\ ~IsBulb(id) /\ IsBulb(id)')
           Gains == Gain => \A id \in HaDevices, t \in Types : Has(id, t) => Kept(id, t)
<1>1. ConfigTypeOK /\ [NextListing]_configVars => Gains
  <2> SUFFICES ASSUME ConfigTypeOK, Gain, NEW id \in HaDevices, NEW t \in Types, Has(id, t)
               PROVE  Kept(id, t)
    OBVIOUS
  <2>1. UNCHANGED <<ipc, product>>
    BY DEF DeviceAdds, ChannelAdds
  <2>2. deviceNames \subseteq deviceNames'
    BY DEF DeviceAdds, ChannelAdds
  <2>3. \A c \in ChannelIds : channelNames[c] \subseteq channelNames'[c]
    BY DEF DeviceAdds, ChannelAdds, ConfigTypeOK
  <2>4. id \in ChannelIds \/ id = NoChannel
    BY DEF HaDevices, ConfigTypeOK
  <2>5. \A x : Supports(id, x) => Supports(id, x)'
    BY <2>1, <2>2, <2>3, <2>4 DEF Supports
  <2>6. /\ ByRef(id, t) # NoName => (ByRef(id, t) # NoName)'
        /\ ByAbility(id, t) # NoName => (ByAbility(id, t) # NoName)'
    BY <2>1, <2>5, SearchesGrow
  <2>7. CASE product = NoProduct
    BY <2>1, <2>6, <2>7 DEF Has, Entity
  <2>8. CASE product # NoProduct
    <3>1. ~(t = Relay /\ IsBulb(id)) /\ ByRef(id, t) # NoName
      BY <2>8 DEF Has, Entity
    <3>2. CASE t = Relay /\ IsBulb(id)'
      BY <3>1, <3>2
    <3>3. CASE ~(t = Relay /\ IsBulb(id)')
      <4>1. Entity(id, t)' = ByRef(id, t)'
        BY <2>1, <2>8, <3>3 DEF Entity
      <4> QED
        BY <2>6, <3>1, <4>1 DEF Has
    <3> QED
      BY <3>2, <3>3
  <2> QED
    BY <2>7, <2>8
<1> HIDE DEF Gains
<1>2. ConfigSpec => [][Gains]_configVars
  BY <1>1, ConfigTypeCorrect, PTL DEF ConfigSpec
<1> QED
  BY <1>2 DEF GainsKeepEntities, Gains, Gain, Kept

-----------------------------------------------------------------------------
(* Sequences and pages. *)

LEMMA InsertAtFacts ==
  ASSUME NEW S, NEW s \in Seq(S), NEW i \in 1..(Len(s) + 1), NEW e \in S
  PROVE  /\ InsertAt(s, i, e) \in Seq(S)
         /\ Len(InsertAt(s, i, e)) = Len(s) + 1
         /\ \A j \in 1..(Len(s) + 1) :
              InsertAt(s, i, e)[j] = IF j < i THEN s[j] ELSE IF j = i THEN e ELSE s[j - 1]
<1> DEFINE front == SubSeq(s, 1, i - 1)
           back == SubSeq(s, i, Len(s))
<1>1. /\ front \in Seq(S) /\ Len(front) = i - 1
      /\ \A j \in 1..(i - 1) : front[j] = s[j]
  BY SubSeqProperties
<1>2. /\ back \in Seq(S) /\ Len(back) = Len(s) - i + 1
      /\ \A j \in 1..(Len(s) - i + 1) : back[j] = s[i + j - 1]
  BY SubSeqProperties
<1> HIDE DEF front, back
<1>3. /\ front \o <<e>> \in Seq(S) /\ Len(front \o <<e>>) = i
      /\ \A j \in 1..i : (front \o <<e>>)[j] = IF j < i THEN s[j] ELSE e
  BY <1>1, ConcatProperties
<1>4. InsertAt(s, i, e) = (front \o <<e>>) \o back
  BY DEF InsertAt, front, back
<1> QED
  BY <1>2, <1>3, <1>4, ConcatProperties

LEMMA RemoveAtFacts ==
  ASSUME NEW S, NEW s \in Seq(S), NEW i \in 1..Len(s)
  PROVE  /\ RemoveAt(s, i) \in Seq(S)
         /\ ToSet(s) \ {s[i]} \subseteq ToSet(RemoveAt(s, i))
<1> DEFINE front == SubSeq(s, 1, i - 1)
           back == SubSeq(s, i + 1, Len(s))
<1>1. /\ front \in Seq(S) /\ Len(front) = i - 1
      /\ \A j \in 1..(i - 1) : front[j] = s[j]
  BY SubSeqProperties
<1>2. /\ back \in Seq(S) /\ Len(back) = Len(s) - i
      /\ \A j \in 1..(Len(s) - i) : back[j] = s[i + j]
  BY SubSeqProperties
<1> HIDE DEF front, back
<1>3. /\ front \o back \in Seq(S) /\ Len(front \o back) = Len(s) - 1
      /\ \A j \in 1..(Len(s) - 1) : (front \o back)[j] = IF j < i THEN s[j] ELSE s[j + 1]
  <2>1. /\ front \o back \in Seq(S) /\ Len(front \o back) = Len(front) + Len(back)
        /\ \A j \in 1..(Len(front) + Len(back)) :
             (front \o back)[j] = IF j <= Len(front) THEN front[j] ELSE back[j - Len(front)]
    BY <1>1, <1>2, ConcatProperties
  <2>2. Len(front) + Len(back) = Len(s) - 1
    BY <1>1, <1>2
  <2>3. ASSUME NEW j \in 1..(Len(s) - 1)
        PROVE  (front \o back)[j] = IF j < i THEN s[j] ELSE s[j + 1]
    <3>1. (front \o back)[j] = IF j <= i - 1 THEN front[j] ELSE back[j - (i - 1)]
      BY <1>1, <2>1, <2>2
    <3>2. CASE j < i
      <4>1. j <= i - 1 /\ j \in 1..(i - 1)
        BY <3>2
      <4> QED
        BY <1>1, <3>1, <3>2, <4>1
    <3>3. CASE ~(j < i)
      <4>1. /\ j - (i - 1) \in 1..(Len(s) - i) /\ i + (j - (i - 1)) = j + 1
            /\ ~(j <= i - 1)
        <5>1. Len(s) \in Nat
          OBVIOUS
        <5> QED
          BY <3>3, <5>1
      <4> QED
        BY <1>2, <3>1, <3>3, <4>1
    <3> QED
      BY <3>2, <3>3
  <2> QED
    BY <2>1, <2>2, <2>3
<1>4. RemoveAt(s, i) = front \o back
  BY DEF RemoveAt, front, back
<1>5. ASSUME NEW j \in 1..Len(s), j # i
      PROVE  \E k \in 1..(Len(s) - 1) : (front \o back)[k] = s[j]
  <2>1. CASE j < i
    <3>1. j \in 1..(Len(s) - 1)
      BY <2>1
    <3> QED
      BY <1>3, <2>1, <3>1
  <2>2. CASE j > i
    <3>1. j - 1 \in 1..(Len(s) - 1) /\ (j - 1) + 1 = j /\ ~(j - 1 < i)
      BY <2>2
    <3>2. (front \o back)[j - 1] = s[j]
      BY <1>3, <3>1
    <3> QED
      BY <3>1, <3>2
  <2>3. j < i \/ j > i
    BY <1>5
  <2> QED
    BY <2>1, <2>2, <2>3
<1>6. DOMAIN (front \o back) = 1..(Len(s) - 1)
  BY <1>3
<1>7. ToSet(s) \ {s[i]} \subseteq ToSet(front \o back)
  <2>1. DOMAIN s = 1..Len(s)
    OBVIOUS
  <2> QED
    BY <1>5, <1>6, <2>1 DEF ToSet
<1> QED
  BY <1>3, <1>4, <1>7

LEMMA ConcatToSet ==
  ASSUME NEW S, NEW s \in Seq(S), NEW t \in Seq(S)
  PROVE  ToSet(s \o t) = ToSet(s) \cup ToSet(t)
<1>1. /\ s \o t \in Seq(S) /\ Len(s \o t) = Len(s) + Len(t)
      /\ \A i \in 1..(Len(s) + Len(t)) :
           (s \o t)[i] = IF i <= Len(s) THEN s[i] ELSE t[i - Len(s)]
  BY ConcatProperties
<1>2. ASSUME NEW i \in 1..Len(s) PROVE \E j \in 1..(Len(s) + Len(t)) : (s \o t)[j] = s[i]
  BY <1>1
<1>3. ASSUME NEW i \in 1..Len(t) PROVE \E j \in 1..(Len(s) + Len(t)) : (s \o t)[j] = t[i]
  <2>1. Len(s) + i \in 1..(Len(s) + Len(t)) /\ (s \o t)[Len(s) + i] = t[i]
    BY <1>1
  <2> QED
    BY <2>1
<1>4. ASSUME NEW i \in 1..(Len(s) + Len(t)) PROVE (s \o t)[i] \in ToSet(s) \cup ToSet(t)
  <2>1. CASE i <= Len(s)
    BY <1>1, <2>1 DEF ToSet
  <2>2. CASE i > Len(s)
    <3>1. i - Len(s) \in 1..Len(t) /\ (s \o t)[i] = t[i - Len(s)]
      BY <1>1, <2>2
    <3> QED
      BY <3>1 DEF ToSet
  <2> QED
    BY <2>1, <2>2
<1>5. /\ DOMAIN s = 1..Len(s) /\ DOMAIN t = 1..Len(t)
      /\ DOMAIN (s \o t) = 1..(Len(s) + Len(t))
  BY <1>1
<1>6. ToSet(s \o t) \subseteq ToSet(s) \cup ToSet(t)
  <2>1. ToSet(s \o t) = {(s \o t)[i] : i \in 1..(Len(s) + Len(t))}
    BY <1>5 DEF ToSet
  <2> QED
    BY <1>4, <2>1
<1>7. ToSet(s) \subseteq ToSet(s \o t) /\ ToSet(t) \subseteq ToSet(s \o t)
  BY <1>2, <1>3, <1>5 DEF ToSet
<1> QED
  BY <1>6, <1>7

\* The devices before page n.
Offset(n) == (n - 1) * PageSize

LEMMA Offsets ==
  ASSUME ListingAssumption, NEW n \in Nat \ {0}
  PROVE  /\ Offset(n) \in Nat /\ Offset(n + 1) = Offset(n) + PageSize
         /\ n * PageSize = Offset(n) + PageSize
         /\ PageSize \in Nat \ {0} /\ Offset(1) = 0
<1>1. PageSize \in Nat \ {0}
  BY DEF ListingAssumption
<1> QED
  BY <1>1 DEF Offset

LEMMA PageFacts ==
  ASSUME ListingAssumption, account \in Seq(Devices), NEW n \in Nat \ {0}
  PROVE  /\ PageAt(n) \in Seq(Devices)
         /\ Len(PageAt(n)) = IF Len(account) <= Offset(n) THEN 0
                             ELSE IF Len(account) < Offset(n) + PageSize
                                    THEN Len(account) - Offset(n) ELSE PageSize
         /\ \A i \in 1..Len(PageAt(n)) : PageAt(n)[i] = account[Offset(n) + i]
<1> DEFINE last == IF n * PageSize < Len(account) THEN n * PageSize ELSE Len(account)
<1>1. /\ Offset(n) \in Nat /\ n * PageSize = Offset(n) + PageSize /\ PageSize \in Nat \ {0}
      /\ Len(account) \in Nat
  <2>1. Len(account) \in Nat
    OBVIOUS
  <2> QED
    BY <2>1, Offsets
<1>2. PageAt(n) = SubSeq(account, Offset(n) + 1, last)
  BY DEF PageAt, Offset
<1>3. /\ last = IF Offset(n) + PageSize < Len(account) THEN Offset(n) + PageSize ELSE Len(account)
      /\ last \in Nat /\ last <= Len(account)
  BY <1>1
<1> HIDE DEF last
<1>4. \A i \in (Offset(n) + 1)..last : account[i] \in Devices
  BY <1>1, <1>3
<1>5. /\ SubSeq(account, Offset(n) + 1, last) \in Seq(Devices)
      /\ Len(SubSeq(account, Offset(n) + 1, last)) =
           IF Offset(n) + 1 <= last THEN last - Offset(n) ELSE 0
      /\ \A i \in 1..(last - Offset(n)) :
           SubSeq(account, Offset(n) + 1, last)[i] = account[Offset(n) + i]
  <2>1. Offset(n) + 1 \in Int /\ last \in Int
    BY <1>1, <1>3
  <2>2. /\ SubSeq(account, Offset(n) + 1, last) \in Seq(Devices)
        /\ Len(SubSeq(account, Offset(n) + 1, last)) =
             IF Offset(n) + 1 <= last THEN last - (Offset(n) + 1) + 1 ELSE 0
        /\ \A i \in 1..(last - (Offset(n) + 1) + 1) :
             SubSeq(account, Offset(n) + 1, last)[i] = account[(Offset(n) + 1) + i - 1]
    BY <1>4, <2>1, SubSeqProperties
  <2> QED
    BY <1>1, <1>3, <2>2
<1>6. CASE Len(account) <= Offset(n)
  BY <1>1, <1>2, <1>3, <1>5, <1>6
<1>7. CASE Offset(n) < Len(account)
  <2>1. Offset(n) + 1 <= last
    BY <1>1, <1>3, <1>7
  <2>2. Len(PageAt(n)) = last - Offset(n)
    BY <1>2, <1>5, <2>1
  <2>3. PageAt(n) \in Seq(Devices)
    BY <1>2, <1>5
  <2>4. \A i \in 1..Len(PageAt(n)) : PageAt(n)[i] = account[Offset(n) + i]
    BY <1>2, <1>5, <2>2
  <2>5. last - Offset(n) = IF Len(account) < Offset(n) + PageSize
                             THEN Len(account) - Offset(n) ELSE PageSize
    BY <1>1, <1>3
  <2> QED
    BY <1>1, <1>7, <2>2, <2>3, <2>4, <2>5
<1> QED
  BY <1>1, <1>6, <1>7

-----------------------------------------------------------------------------
(* The invariant. *)

ListingType ==
  /\ account \in Seq(Devices) /\ listed \in Seq(Devices) /\ onPage \in Seq(Devices)
  /\ Len(onPage) <= PageSize
  /\ pc \in {"idle", "page", "details"}
  /\ page \in Nat /\ (pc # "idle" => page # 0)
  /\ stable \subseteq ToSet(account)
  /\ result = "returned" => pc = "idle"

\* Up to position k of the account, who was there all the time is listed.
Covered(k) ==
  \A i \in 1..Len(account) :
    i <= k /\ account[i] \in stable => account[i] \in ToSet(listed)

Quiet == ~removed /\ ~inserted /\ stable = ToSet(account)

\* The list is what the account begins with.
Prefix(k) ==
  Len(listed) = k /\ k <= Len(account) /\ \A i \in 1..k : listed[i] = account[i]

AllListed == stable \subseteq ToSet(listed)

ListedInv ==
  /\ ~removed /\ pc = "page" => Covered(Offset(page))
  /\ ~removed /\ pc = "details" => Covered(Offset(page + 1))
  /\ ~removed /\ pc = "details" /\ Len(onPage) < PageSize => AllListed
  /\ ~removed /\ result = "returned" => AllListed
  /\ Quiet /\ pc = "page" => Prefix(Offset(page))
  /\ Quiet /\ pc = "details" => Prefix(Offset(page) + Len(onPage))
  /\ Quiet /\ pc = "details" /\ Len(onPage) < PageSize => listed = account
  /\ Quiet /\ result = "returned" => listed = account

\* The devices whose refs the call is to read, as far as it knows.
Wanted == fetch \cap Iot \cap ToSet(listed)

DetailInv ==
  /\ pc = "page" => Wanted \subseteq known \cup broken
  /\ pc = "details" => Wanted \subseteq known \cup broken \cup pending
  /\ result = "returned" => Wanted \subseteq known \cup broken

IInv == ListingType /\ ListedInv /\ DetailInv

-----------------------------------------------------------------------------
LEMMA EmptyFacts ==
  << >> \in Seq(Devices) /\ Len(<< >>) = 0 /\ ToSet(<< >>) = {}
<1>1. << >> \in Seq(Devices) /\ Len(<< >>) = 0
  BY EmptySeq
<1>2. DOMAIN << >> = {}
  BY <1>1
<1> QED
  BY <1>1, <1>2 DEF ToSet

LEMMA InitInv ==
  ASSUME ListingAssumption, Init
  PROVE  IInv
<1>1. account \in Seq(Devices)
  BY DEF Init, SeqOf
<1>2. PageSize \in Nat
  BY DEF ListingAssumption
<1> QED
  BY <1>1, <1>2, EmptyFacts DEF Init, IInv, ListingType, ListedInv, DetailInv

LEMMA BeginInv ==
  ASSUME ListingAssumption, IInv, NEW ids, Begin(ids)
  PROVE  IInv'
<1>1. Offset(1) = 0
  BY DEF Offset, ListingAssumption
<1>2. /\ pc' = "page" /\ page' = 1 /\ onPage' = << >> /\ listed' = << >>
      /\ stable' = ToSet(account) /\ result' = "none" /\ account' = account
  BY DEF Begin
<1>3. ListingType'
  BY <1>2, EmptyFacts DEF IInv, ListingType, ListingAssumption
<1>4. Covered(0)' /\ Prefix(0)'
  <2>1. Len(account') \in Nat
    BY <1>3 DEF ListingType
  <2> QED
    BY <1>2, <2>1, EmptyFacts DEF Covered, Prefix
<1>5. ListedInv'
  BY <1>1, <1>2, <1>4 DEF ListedInv
<1>6. DetailInv'
  BY <1>2, EmptyFacts DEF DetailInv, Wanted
<1> QED
  BY <1>3, <1>5, <1>6 DEF IInv

\* A call that fails has listed nothing.
LEMMA FailInv ==
  ASSUME ListingAssumption, IInv, End("failed"), UNCHANGED <<account, listed, stable>>
  PROVE  IInv'
<1>1. pc' = "idle" /\ result' = "failed" /\ onPage' = << >> /\ page' = page
  BY DEF End
<1>2. ListingType'
  BY <1>1, EmptyFacts DEF IInv, ListingType, ListingAssumption
<1> QED
  BY <1>1, <1>2 DEF IInv, ListedInv, DetailInv

-----------------------------------------------------------------------------
(* Pages. *)

\* After a page and its details, the call goes on or returns.
LEMMA AfterPageInv ==
  ASSUME ListingAssumption, ListingType, pc # "idle",
         NEW entries \in Seq(Devices), Len(entries) <= PageSize, AfterPage(entries),
         UNCHANGED <<account, stable, removed, inserted, fetch>>, listed' \in Seq(Devices),
         NEW p \in Nat \ {0}, p = page,
         ~removed' => Covered(Offset(p + 1))',
         ~removed' /\ Len(entries) < PageSize => AllListed',
         Quiet' => Prefix(Offset(p) + Len(entries))',
         Quiet' /\ Len(entries) < PageSize => (listed = account)',
         Wanted' \subseteq (known \cup broken)'
  PROVE  IInv'
<1>1. CASE Len(entries) >= PageSize
  <2>1. pc' = "page" /\ page' = p + 1 /\ onPage' = << >> /\ UNCHANGED result
    BY <1>1 DEF AfterPage
  <2>2. result # "returned"
    BY DEF ListingType
  <2>3. Offset(p) + Len(entries) = Offset(p + 1)
    <3>1. Len(entries) = PageSize
      BY <1>1, Offsets
    <3> QED
      BY <3>1, Offsets
  <2>4. ListingType'
    BY <2>1, <2>2, EmptyFacts DEF ListingType, ListingAssumption
  <2>5. ListedInv'
    BY <2>1, <2>2, <2>3 DEF ListedInv
  <2>6. DetailInv'
    BY <2>1, <2>2 DEF DetailInv
  <2> QED
    BY <2>4, <2>5, <2>6 DEF IInv
<1>2. CASE ~(Len(entries) >= PageSize)
  <2>1. pc' = "idle" /\ page' = page /\ onPage' = << >> /\ result' = "returned"
    BY <1>2 DEF AfterPage, End
  <2>2. Len(entries) < PageSize
    BY <1>2, Offsets
  <2>3. ListingType'
    BY <2>1, EmptyFacts DEF ListingType, ListingAssumption
  <2>4. ListedInv'
    BY <2>1, <2>2 DEF ListedInv
  <2>5. DetailInv'
    BY <2>1 DEF DetailInv
  <2> QED
    BY <2>3, <2>4, <2>5 DEF IInv
<1> QED
  BY <1>1, <1>2
\* What is listed once page p is in.
LEMMA PageIn ==
  ASSUME ListingAssumption, IInv, pc = "page", NEW p \in Nat \ {0}, p = page,
         NEW entries, entries = PageAt(p), listed' = listed \o entries,
         UNCHANGED <<account, stable, removed, inserted, fetch>>
  PROVE  /\ entries \in Seq(Devices) /\ Len(entries) <= PageSize
         /\ listed' \in Seq(Devices)
         /\ ToSet(listed') = ToSet(listed) \cup ToSet(entries)
         /\ ~removed' => Covered(Offset(p + 1))'
         /\ ~removed' /\ Len(entries) < PageSize => AllListed'
         /\ Quiet' => Prefix(Offset(p) + Len(entries))'
         /\ Quiet' /\ Len(entries) < PageSize => (listed = account)'
<1> DEFINE k == Offset(p)
           n == Len(entries)
           m == Len(account)
<1>1. account \in Seq(Devices) /\ listed \in Seq(Devices)
  BY DEF IInv, ListingType
<1>2. /\ entries \in Seq(Devices)
      /\ n = IF m <= k THEN 0 ELSE IF m < k + PageSize THEN m - k ELSE PageSize
      /\ \A i \in 1..n : entries[i] = account[k + i]
  BY <1>1, PageFacts
<1>3. /\ k \in Nat /\ Offset(p + 1) = k + PageSize /\ PageSize \in Nat \ {0}
  BY Offsets
<1>4. m \in Nat /\ DOMAIN account = 1..m
  BY <1>1
<1>5. DOMAIN entries = 1..n /\ n \in Nat
  BY <1>2
<1>6. /\ listed' \in Seq(Devices) /\ Len(listed') = Len(listed) + n
      /\ \A i \in 1..(Len(listed) + n) :
           listed'[i] = IF i <= Len(listed) THEN listed[i] ELSE entries[i - Len(listed)]
  <2>1. entries \in Seq(Devices)
    BY <1>2
  <2>2. /\ listed \o entries \in Seq(Devices)
        /\ Len(listed \o entries) = Len(listed) + Len(entries)
        /\ \A i \in 1..(Len(listed) + Len(entries)) :
             (listed \o entries)[i] =
               IF i <= Len(listed) THEN listed[i] ELSE entries[i - Len(listed)]
    BY <1>1, <2>1, ConcatProperties
  <2> QED
    BY <2>2
<1>7. ToSet(listed') = ToSet(listed) \cup ToSet(entries)
  BY <1>1, <1>2, ConcatToSet
<1>8. ~removed => Covered(k)
  BY DEF IInv, ListedInv
<1>9. Quiet => Prefix(k)
  BY DEF IInv, ListedInv
<1> DEFINE next == Offset(p + 1)
<1>10. /\ ~removed => \A i \in 1..m : i <= k /\ account[i] \in stable => account[i] \in ToSet(listed)
       /\ Quiet => /\ Len(listed) = k /\ k <= m
                   /\ \A i \in 1..k : listed[i] = account[i]
       /\ stable \subseteq {account[i] : i \in 1..m}
  BY <1>4, <1>8, <1>9 DEF Covered, Prefix, IInv, ListingType, ToSet
<1>11. \A i \in 1..n : account[k + i] \in ToSet(entries)
  BY <1>2, <1>5 DEF ToSet
<1> HIDE DEF k, n, m, next
<1>12. n <= PageSize /\ (n < PageSize => m <= k + n)
  BY <1>2, <1>3, <1>4
<1>13. ASSUME ~removed, NEW i \in 1..m, i <= next, account[i] \in stable
       PROVE  account[i] \in ToSet(listed')
  <2>1. CASE i <= k
    BY <1>7, <1>10, <1>13, <2>1
  <2>2. CASE ~(i <= k)
    <3>1. i - k \in 1..n /\ k + (i - k) = i
      BY <1>2, <1>3, <1>4, <1>13, <2>2 DEF next
    <3> QED
      BY <1>7, <1>11, <3>1
  <2> QED
    BY <2>1, <2>2
<1>14. ~removed' => Covered(Offset(p + 1))'
  BY <1>13 DEF Covered, next, m
<1>15. ASSUME ~removed, n < PageSize
       PROVE  stable \subseteq ToSet(listed')
  <2>1. \A i \in 1..m : i <= next
    BY <1>3, <1>4, <1>5, <1>12, <1>15 DEF next
  <2> QED
    BY <1>10, <1>13, <1>15, <2>1
<1>16. ASSUME Quiet
       PROVE  /\ Len(listed') = k + n /\ k + n <= m
              /\ \A i \in 1..(k + n) : listed'[i] = account[i]
  <2>1. Len(listed') = k + n
    BY <1>6, <1>10, <1>16
  <2>2. k + n <= m
    BY <1>2, <1>3, <1>4, <1>10, <1>16
  <2>3. ASSUME NEW i \in 1..(k + n)
        PROVE  listed'[i] = account[i]
    <3>1. listed'[i] = IF i <= k THEN listed[i] ELSE entries[i - k]
      BY <1>6, <1>10, <1>16
    <3>2. CASE i <= k
      BY <1>3, <1>10, <1>16, <3>1, <3>2
    <3>3. CASE ~(i <= k)
      <4>1. i - k \in 1..n /\ k + (i - k) = i
        BY <1>3, <1>5, <3>3
      <4> QED
        BY <1>2, <3>1, <3>3, <4>1
    <3> QED
      BY <3>2, <3>3
  <2> QED
    BY <2>1, <2>2, <2>3
<1>17. ASSUME Quiet, n < PageSize
       PROVE  listed' = account
  <2>1. Len(listed') = m /\ k + n = m
    BY <1>3, <1>4, <1>5, <1>12, <1>16, <1>17
  <2>2. \A i \in 1..m : listed'[i] = account[i]
    BY <1>16, <1>17, <2>1
  <2> QED
    BY <1>1, <1>6, <2>1, <2>2, SeqEqual DEF m
<1>18. Quiet' <=> Quiet
  BY DEF Quiet
<1>19. Quiet' => Prefix(Offset(p) + Len(entries))'
  BY <1>16, <1>18 DEF Prefix, k, n, m
<1> QED
  BY <1>2, <1>6, <1>7, <1>12, <1>14, <1>15, <1>17, <1>18, <1>19 DEF AllListed, n

LEMMA PageAnsweredInv ==
  ASSUME ListingAssumption, IInv, PageAnswered
  PROVE  IInv'
<1> PICK p \in Nat \ {0} : p = page
  BY DEF PageAnswered, IInv, ListingType
<1> PICK entries : entries = PageAt(p)
  OBVIOUS
<1> DEFINE toFetch == ToSet(entries) \cap Iot \cap fetch
<1>1. /\ pc = "page" /\ listed' = listed \o entries
      /\ UNCHANGED <<account, stable, removed, inserted, known, broken>>
  BY DEF PageAnswered
<1>2. IF entries = << >> THEN End("returned")
      ELSE IF toFetch = {} THEN AfterPage(entries)
      ELSE pc' = "details" /\ onPage' = entries /\ pending' = toFetch /\ UNCHANGED <<fetch, page, result>>
  BY DEF PageAnswered
<1>3. UNCHANGED fetch
  BY <1>2 DEF End, AfterPage
<1>4. /\ entries \in Seq(Devices) /\ Len(entries) <= PageSize
      /\ listed' \in Seq(Devices)
      /\ ToSet(listed') = ToSet(listed) \cup ToSet(entries)
      /\ ~removed' => Covered(Offset(p + 1))'
      /\ ~removed' /\ Len(entries) < PageSize => AllListed'
      /\ Quiet' => Prefix(Offset(p) + Len(entries))'
      /\ Quiet' /\ Len(entries) < PageSize => (listed = account)'
  BY <1>1, <1>3, PageIn
<1>5. Wanted' \subseteq known' \cup broken' \cup toFetch
  BY <1>1, <1>3, <1>4 DEF Wanted, IInv, DetailInv
<1>6. ListingType
  BY DEF IInv
<1> HIDE DEF toFetch
<1>7. CASE toFetch = {} /\ AfterPage(entries)
  BY <1>1, <1>3, <1>4, <1>5, <1>6, <1>7, AfterPageInv
<1>8. CASE entries = << >> /\ End("returned")
  <2>1. AfterPage(entries) /\ toFetch = {}
    BY <1>8, EmptyFacts, Offsets DEF AfterPage, toFetch
  <2> QED
    BY <1>7, <2>1
<1>9. CASE pc' = "details" /\ onPage' = entries /\ pending' = toFetch /\ UNCHANGED <<fetch, page, result>>
  <2>1. result' # "returned"
    BY <1>1, <1>6, <1>9 DEF ListingType
  <2>2. ListingType'
    BY <1>1, <1>4, <1>6, <1>9, <2>1 DEF ListingType
  <2>3. ListedInv'
    BY <1>4, <1>9, <2>1 DEF ListedInv
  <2>4. DetailInv'
    BY <1>5, <1>9, <2>1 DEF DetailInv
  <2> QED
    BY <2>2, <2>3, <2>4 DEF IInv
<1> QED
  BY <1>2, <1>7, <1>8, <1>9

LEMMA DetailsGatheredInv ==
  ASSUME ListingAssumption, IInv, DetailsGathered
  PROVE  IInv'
<1> PICK p \in Nat \ {0} : p = page
  BY DEF DetailsGathered, IInv, ListingType
<1> PICK entries : entries = onPage
  OBVIOUS
<1>1. /\ pc = "details" /\ pending = {} /\ AfterPage(entries)
      /\ UNCHANGED <<account, stable, removed, inserted, known, broken, listed>>
  BY DEF DetailsGathered
<1>2. UNCHANGED fetch
  BY <1>1 DEF AfterPage, End
<1>3. /\ ListingType /\ entries \in Seq(Devices) /\ Len(entries) <= PageSize
      /\ listed' \in Seq(Devices)
  BY <1>1 DEF IInv, ListingType
<1>4. /\ ~removed => Covered(Offset(p + 1))
      /\ ~removed /\ Len(entries) < PageSize => AllListed
      /\ Quiet => Prefix(Offset(p) + Len(entries))
      /\ Quiet /\ Len(entries) < PageSize => listed = account
  BY <1>1 DEF IInv, ListedInv
<1>5. /\ ~removed' => Covered(Offset(p + 1))'
      /\ ~removed' /\ Len(entries) < PageSize => AllListed'
      /\ Quiet' => Prefix(Offset(p) + Len(entries))'
      /\ Quiet' /\ Len(entries) < PageSize => (listed = account)'
  BY <1>1, <1>4 DEF Covered, AllListed, Quiet, Prefix
<1>6. Wanted' \subseteq (known \cup broken)'
  BY <1>1, <1>2 DEF Wanted, IInv, DetailInv
<1> QED
  BY <1>1, <1>2, <1>3, <1>5, <1>6, AfterPageInv

\* A detail read ends: the list stays, and its device is accounted for.
LEMMA DetailInvs ==
  ASSUME IInv, NEW d, pending' = pending \ {d}, pc = "details",
         known' \cup broken' = known \cup broken \cup {d},
         UNCHANGED <<account, pc, fetch, page, onPage, listed, stable, removed, inserted,
                     result>>
  PROVE  IInv'
<1>1. ListingType'
  BY DEF IInv, ListingType
<1>2. ListedInv'
  BY DEF IInv, ListedInv, Covered, AllListed, Quiet, Prefix
<1>3. DetailInv'
  BY DEF IInv, ListingType, DetailInv, Wanted
<1> QED
  BY <1>1, <1>2, <1>3 DEF IInv

-----------------------------------------------------------------------------
(* The account changes. *)

LEMMA AddDeviceInv ==
  ASSUME ListingAssumption, IInv, NEW d \in Devices, NEW i \in 1..(Len(account) + 1),
         AddDevice(d, i)
  PROVE  IInv'
<1> DEFINE m == Len(account)
<1>1. account \in Seq(Devices) /\ m \in Nat /\ DOMAIN account = 1..m
  BY DEF IInv, ListingType
<1>2. /\ d \notin ToSet(account) /\ account' = InsertAt(account, i, d)
      /\ UNCHANGED <<callVars, stable, removed, result>>
      /\ inserted' = (inserted \/ i <= Len(account))
  BY DEF AddDevice
<1>3. /\ account' \in Seq(Devices) /\ Len(account') = m + 1
      /\ \A j \in 1..(m + 1) :
           account'[j] = IF j < i THEN account[j] ELSE IF j = i THEN d ELSE account[j - 1]
  <2>1. account \in Seq(Devices)
    BY <1>1
  <2>2. /\ InsertAt(account, i, d) \in Seq(Devices)
        /\ Len(InsertAt(account, i, d)) = Len(account) + 1
        /\ \A j \in 1..(Len(account) + 1) :
             InsertAt(account, i, d)[j] =
               IF j < i THEN account[j] ELSE IF j = i THEN d ELSE account[j - 1]
    <3>1. d \in Devices /\ i \in 1..(Len(account) + 1)
      OBVIOUS
    <3>2. InsertAt(account, i, d) \in Seq(Devices)
      BY <2>1, <3>1, InsertAtFacts
    <3>3. Len(InsertAt(account, i, d)) = Len(account) + 1
      BY <2>1, <3>1, InsertAtFacts
    <3>4. ASSUME NEW j \in 1..(Len(account) + 1)
          PROVE  InsertAt(account, i, d)[j] =
                   IF j < i THEN account[j] ELSE IF j = i THEN d ELSE account[j - 1]
      BY <2>1, <3>1, InsertAtFacts
    <3> QED
      BY <3>2, <3>3, <3>4
  <2>3. account' = InsertAt(account, i, d)
    BY <1>2
  <2> QED
    BY <2>2, <2>3, Zenon
<1>4. stable \subseteq ToSet(account) /\ d \notin stable
  BY <1>2 DEF IInv, ListingType
<1> HIDE DEF m
<1>5. DOMAIN account' = 1..(m + 1)
  BY <1>3
<1>6. ASSUME NEW j \in 1..m PROVE \E l \in 1..(m + 1) : account'[l] = account[j]
  <2>1. CASE j < i
    <3>1. j \in 1..(m + 1)
      BY <1>1
    <3> QED
      BY <1>3, <2>1, <3>1
  <2>2. CASE ~(j < i)
    <3>1. j + 1 \in 1..(m + 1) /\ ~(j + 1 < i) /\ j + 1 # i /\ (j + 1) - 1 = j
      BY <1>1, <2>2
    <3> QED
      BY <1>3, <3>1
  <2> QED
    BY <2>1, <2>2
<1>7. ToSet(account) \subseteq ToSet(account')
  BY <1>1, <1>5, <1>6 DEF ToSet
<1>8. d \in ToSet(account')
  <2>1. i \in 1..(m + 1)
    BY DEF m
  <2> QED
    BY <1>1, <1>3, <1>5, <2>1 DEF ToSet
<1>9. UNCHANGED <<pc, page, fetch, onPage, pending, listed, known, broken>>
  BY <1>2 DEF callVars
<1>10. ListingType'
  BY <1>2, <1>3, <1>4, <1>7, <1>9 DEF IInv, ListingType
<1>11. ~Quiet'
  BY <1>2, <1>4, <1>8 DEF Quiet
<1>12. ASSUME NEW k \in Int, Covered(k)
       PROVE  Covered(k)'
  <2>1. SUFFICES ASSUME NEW j \in 1..(m + 1), j <= k, account'[j] \in stable
                 PROVE  account'[j] \in ToSet(listed)
    BY <1>2, <1>3, <1>9 DEF Covered
  <2>2. CASE j < i
    <3>1. i \in 1..(m + 1) /\ j \in 1..m
      BY <1>1, <2>2 DEF m
    <3> QED
      BY <1>3, <1>12, <2>1, <2>2, <3>1 DEF Covered, m
  <2>3. CASE j = i
    BY <1>3, <1>4, <2>1, <2>3
  <2>4. CASE j > i
    <3>1. i \in 1..(m + 1) /\ j - 1 \in 1..m /\ j - 1 <= k /\ ~(j < i) /\ j # i
      BY <1>1, <2>1, <2>4 DEF m
    <3>2. account'[j] = account[j - 1]
      BY <1>3, <3>1
    <3> QED
      BY <1>12, <2>1, <3>1, <3>2 DEF Covered, m
  <2>5. j < i \/ j = i \/ j > i
    BY DEF m
  <2> QED
    BY <2>2, <2>3, <2>4, <2>5
<1>13. ASSUME pc # "idle"
       PROVE  Offset(page) \in Int /\ Offset(page + 1) \in Int
  <2>1. page \in Nat \ {0}
    BY <1>13 DEF IInv, ListingType
  <2>2. page + 1 \in Nat \ {0}
    BY <2>1
  <2> QED
    BY <2>1, <2>2, Offsets
<1>14. /\ ~removed' /\ pc' = "page" => Covered(Offset(page))'
       /\ ~removed' /\ pc' = "details" => Covered(Offset(page + 1))'
  <2>1. ASSUME ~removed, pc = "page" PROVE Covered(Offset(page))'
    <3> PICK k \in Int : k = Offset(page)
      BY <1>13, <2>1
    <3>1. Covered(k)'
      BY <1>12, <2>1 DEF IInv, ListedInv
    <3> QED
      BY <1>9, <3>1 DEF Offset, Covered
  <2>2. ASSUME ~removed, pc = "details" PROVE Covered(Offset(page + 1))'
    <3> PICK k \in Int : k = Offset(page + 1)
      BY <1>13, <2>2
    <3>1. Covered(k)'
      BY <1>12, <2>2 DEF IInv, ListedInv
    <3> QED
      BY <1>9, <3>1 DEF Offset, Covered
  <2> QED
    BY <1>2, <1>9, <2>1, <2>2
<1>15. AllListed' <=> AllListed
  BY <1>2, <1>9 DEF AllListed
<1>16. ListedInv'
  BY <1>2, <1>9, <1>11, <1>14, <1>15 DEF IInv, ListedInv
<1>17. DetailInv'
  BY <1>2, <1>9 DEF IInv, DetailInv, Wanted
<1> QED
  BY <1>10, <1>16, <1>17 DEF IInv

LEMMA RemoveDeviceInv ==
  ASSUME ListingAssumption, IInv, NEW i \in 1..Len(account), RemoveDevice(i)
  PROVE  IInv'
<1>1. /\ account' = RemoveAt(account, i) /\ removed' = TRUE
      /\ stable' = stable \ {account[i]}
      /\ UNCHANGED <<pc, page, fetch, onPage, pending, listed, known, broken, result>>
  BY DEF RemoveDevice, callVars
<1>2. account \in Seq(Devices)
  BY DEF IInv, ListingType
<1>3. account' \in Seq(Devices) /\ ToSet(account) \ {account[i]} \subseteq ToSet(account')
  BY <1>1, <1>2, RemoveAtFacts
<1>4. ListingType'
  BY <1>1, <1>3 DEF IInv, ListingType
<1>5. ListedInv'
  BY <1>1 DEF ListedInv, Quiet
<1>6. DetailInv'
  BY <1>1 DEF IInv, DetailInv, Wanted
<1> QED
  BY <1>4, <1>5, <1>6 DEF IInv

-----------------------------------------------------------------------------
LEMMA StepInv ==
  ASSUME ListingAssumption, IInv, [Next]_vars
  PROVE  IInv'
<1>1. ASSUME NEW ids, Begin(ids) PROVE IInv'
  BY <1>1, BeginInv
<1>2. CASE BeginSummaries
  BY <1>1, <1>2 DEF BeginSummaries
<1>3. CASE PageAnswered
  BY <1>3, PageAnsweredInv
<1>4. CASE DetailsGathered
  BY <1>4, DetailsGatheredInv
<1>5. CASE Cancel
  BY <1>5, FailInv DEF Cancel
<1>6. ASSUME NEW refused \in BOOLEAN, PageFails(refused) PROVE IInv'
  BY <1>6, FailInv DEF PageFails
<1>7. ASSUME NEW d \in Devices, NEW refused \in BOOLEAN, DetailFails(d, refused) PROVE IInv'
  BY <1>7, DetailInvs DEF DetailFails
<1>8. ASSUME NEW d \in Devices, DetailAnswered(d) PROVE IInv'
  BY <1>8, DetailInvs DEF DetailAnswered
<1>9. ASSUME NEW d \in Devices, NEW i \in 1..(Len(account) + 1), AddDevice(d, i) PROVE IInv'
  BY <1>9, AddDeviceInv
<1>10. ASSUME NEW i \in 1..Len(account), RemoveDevice(i) PROVE IInv'
  BY <1>10, RemoveDeviceInv
<1>11. CASE UNCHANGED vars
  <2>1. UNCHANGED <<account, pc, fetch, page, onPage, pending, listed, known, broken,
                    stable, removed, inserted, result>>
    BY <1>11 DEF vars, callVars
  <2>2. ListingType'
    BY <2>1 DEF IInv, ListingType
  <2>3. ListedInv'
    BY <2>1 DEF IInv, ListedInv, Covered, AllListed, Quiet, Prefix, Offset
  <2>4. DetailInv'
    BY <2>1 DEF IInv, DetailInv, Wanted
  <2> QED
    BY <2>2, <2>3, <2>4 DEF IInv
<1> QED
  BY <1>1, <1>2, <1>3, <1>4, <1>5, <1>6, <1>7, <1>8, <1>9, <1>10, <1>11 DEF Next

\* What has been served is listed, whatever happens to the account meanwhile.
THEOREM Inductive == Spec => []IInv
<1>1. Init => IInv
  BY ListingAssumption, InitInv
<1>2. IInv /\ [Next]_vars => IInv'
  BY ListingAssumption, StepInv
<1> QED
  BY <1>1, <1>2, PTL DEF Spec

\* A listing that returns has every device that was there all the time, unless one
\* was removed, and is the account itself if nothing was put in or taken away
\* (device.py:467-521).
THEOREM ChangesAlone == Spec => []OnlyChangesDisturb
<1>1. IInv => OnlyChangesDisturb
  BY DEF IInv, ListedInv, OnlyChangesDisturb, AllListed, Quiet
<1> QED
  BY <1>1, Inductive, PTL

\* Only the devices whose own read failed come back without their refs
\* (device.py:446-465).
THEOREM AccessoriesAreLocal == Spec => []OneAccessoryIsLocal
<1>1. IInv => OneAccessoryIsLocal
  BY DEF IInv, DetailInv, OneAccessoryIsLocal, Wanted
<1> QED
  BY <1>1, Inductive, PTL
=============================================================================
