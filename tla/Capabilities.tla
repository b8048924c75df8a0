---------------------------- MODULE Capabilities ----------------------------
(***************************************************************************)
(* Which Home Assistant devices a listed device becomes, and with which     *)
(* entities: async_get_devices and the configuration by ref or by ability   *)
(* (pyimouapi/ha_device.py 1201-1257, 282-304, 1501-1722, 1769-1799).       *)
(*                                                                         *)
(* The state is one listed device, which the platform describes anew at     *)
(* every listing: firmware may add names to it or take some away.  A name   *)
(* is an ability of a video device or a ref of a thing-model device.        *)
(***************************************************************************)
EXTENDS Naturals, Sequences, FiniteSetsExt

CONSTANTS
  Names,
  Products, NoProduct,
  ChannelIds, NoChannel,
  Types,         \* entity types of the tables, the alarm panel among them
  RefTable,      \* per type: its refs, later ones being fallbacks
  AbilityTable,  \* per type: the abilities it may rest on
  Excepts,       \* <<ref, product>>: products that misreport the ref
  BulbRef,       \* REF_MODE
  Relay,         \* the switch type "switch"
  NoName

ASSUME TablesAssumption ==
  /\ RefTable \in [Types -> Seq(Names)] /\ AbilityTable \in [Types -> Seq(Names)]
  /\ Excepts \subseteq Names \X Products
  /\ NoProduct \notin Products /\ NoChannel \notin ChannelIds /\ NoName \notin Names

VARIABLES
  ipc,           \* device.is_ipc
  product,       \* device.product_id
  channels,      \* ids of its channels
  channelNames,  \* what each channel lists
  deviceNames    \* what the device lists for itself
configVars == <<ipc, product, channels, channelNames, deviceNames>>

ConfigTypeOK ==
  /\ ipc \in BOOLEAN /\ product \in Products \cup {NoProduct}
  /\ channels \subseteq ChannelIds
  /\ channelNames \in [ChannelIds -> SUBSET Names]
  /\ \A c \in ChannelIds \ channels : channelNames[c] = {}
  /\ deviceNames \subseteq Names

ConfigInit ==
  /\ ipc \in BOOLEAN /\ product \in Products \cup {NoProduct}
  /\ channels \in SUBSET ChannelIds
  /\ channelNames = [c \in ChannelIds |-> {}]
  /\ deviceNames = {}

-----------------------------------------------------------------------------
(* The configuration, a function of what is listed. *)

\* One device per channel; a thing-model device without channels is one device,
\* and a device with neither is none.
HaDevices ==
  IF channels # {} THEN channels
  ELSE IF product # NoProduct THEN {NoChannel} ELSE {}

\* Every channel has what its device lists.
Supports_EveryChannel(id, x) ==
  \/ x \in deviceNames
  \/ id # NoChannel /\ x \in channelNames[id]

\* entity_need_add_to_device: a channel has what it lists, and the first channel
\* of a camera also what the device lists; without channels the device has it.
Supports(id, x) ==
  \/ id = NoChannel /\ x \in deviceNames
  \/ id # NoChannel /\ x \in channelNames[id]
  \/ ipc /\ id = "0" /\ x \in deviceNames

\* By ref, unless the product is known to misreport it.
Usable(id, x) == Supports(id, x) /\ <<x, product>> \notin Excepts

\* The first of s that is in S, if any.
FirstIn(s, S) ==
  LET hits == {i \in DOMAIN s : s[i] \in S}
  IN IF hits = {} THEN NoName ELSE s[Min(hits)]

\* A ref that a product misreports ends the search.
ByRef_StopsAtExcept(id, t) ==
  LET ref == FirstIn(RefTable[t], {x \in Names : Supports(id, x)})
  IN IF ref # NoName /\ Usable(id, ref) THEN ref ELSE NoName

ByRef(id, t) == FirstIn(RefTable[t], {x \in Names : Usable(id, x)})
ByAbility(id, t) == FirstIn(AbilityTable[t], {x \in Names : Supports(id, x)})

IsBulb(id) == product # NoProduct /\ Supports(id, BulbRef)

\* What entity type t of the device with this channel id rests on.  The bulb's
\* relay is the light, and no switch of its own.
Entity(id, t) ==
  IF product = NoProduct THEN ByAbility(id, t)
  ELSE IF t = Relay /\ IsBulb(id) THEN NoName
  ELSE ByRef(id, t)

Has(id, t) == Entity(id, t) # NoName

-----------------------------------------------------------------------------
(* The next listing (external). *)

DeviceAdds(x) ==
  /\ deviceNames' = deviceNames \cup {x}
  /\ UNCHANGED <<ipc, product, channels, channelNames>>
DeviceDrops(x) ==
  /\ deviceNames' = deviceNames \ {x}
  /\ UNCHANGED <<ipc, product, channels, channelNames>>
ChannelAdds(c, x) ==
  /\ c \in channels
  /\ channelNames' = [channelNames EXCEPT ![c] = @ \cup {x}]
  /\ UNCHANGED <<ipc, product, channels, deviceNames>>
ChannelDrops(c, x) ==
  /\ c \in channels
  /\ channelNames' = [channelNames EXCEPT ![c] = @ \ {x}]
  /\ UNCHANGED <<ipc, product, channels, deviceNames>>

NextListing ==
  \E x \in Names :
    \/ DeviceAdds(x) \/ DeviceDrops(x)
    \/ \E c \in ChannelIds : ChannelAdds(c, x) \/ ChannelDrops(c, x)

ConfigSpec == ConfigInit /\ [][NextListing]_configVars

-----------------------------------------------------------------------------
\* What the device lists for itself alone becomes an entity of one Home
\* Assistant device at most: a recorder's or camera's own siren does not show up
\* on every channel.
DeviceLevelOnce ==
  \A t \in Types, c, d \in HaDevices :
    Has(c, t) /\ Has(d, t) /\ c # d =>
      \E e \in {c, d} : e \in ChannelIds /\ Entity(e, t) \in channelNames[e]

\* When the listing gains a name, nothing disappears but the relay of a light
\* that turns out to be a bulb: fallbacks, exceptions and the two levels never
\* make an additional name cost an entity.
GainsKeepEntities ==
  [][(\E x \in Names : DeviceAdds(x) \/ \E c \in ChannelIds : ChannelAdds(c, x)) =>
       \A id \in HaDevices, t \in Types :
         Has(id, t) => Has(id, t)' \/ (t = Relay /\ ~IsBulb(id) /\ IsBulb(id)')]_configVars
=============================================================================
