-------------------------- MODULE LearnDeviceProofs --------------------------
(***************************************************************************)
(* Machine-checked theorems about LearnDevice, for every set of devices,   *)
(* addresses and descriptors, every size of the database and every set of  *)
(* faults: types, the well-formed database, the file that follows it, the  *)
(* learning that can be stored, and identifiers that stay with devices.    *)
(***************************************************************************)
EXTENDS LearnDevice, DeviceStoreProofs

-----------------------------------------------------------------------------
(* The air *)

\* The endpoints a device lists.
NumsOf(d) == [i \in DOMAIN Descriptors[d] |-> Descriptors[d][i].num]

LEMMA DescriptorsTyped ==
    ASSUME NEW d \in Devices
    PROVE  /\ Len(Descriptors[d]) \in Nat /\ DOMAIN Descriptors[d] = 1..Len(Descriptors[d])
           /\ \A k \in DOMAIN Descriptors[d] :
                Descriptors[d][k] \in [num : Nat \ {0}, profile : Nat, device_id : Nat]
           /\ NumsOf(d) \in Seq(Nat \ {0})
           /\ DOMAIN NumsOf(d) = DOMAIN Descriptors[d]
<1> DEFINE D == Descriptors[d]
           R == [num : Nat \ {0}, profile : Nat, device_id : Nat]
<1>1. D \in Seq(R)
  BY LearnDeviceAssumption
<1> HIDE DEF D, R
<1>2. Len(D) \in Nat /\ DOMAIN D = 1..Len(D) /\ \A k \in DOMAIN D : D[k] \in R
  BY <1>1
<1>3. [i \in DOMAIN D |-> D[i].num] \in [1..Len(D) -> Nat \ {0}]
  BY <1>2 DEF R
<1>4. [i \in DOMAIN D |-> D[i].num] \in Seq(Nat \ {0})
  BY <1>2, <1>3
<1> QED
  BY <1>2, <1>4 DEF NumsOf, D, R

LEMMA AddressesTyped == NoAddr \notin Addresses
BY LearnDeviceAssumption

LEMMA WithSpec ==
    ASSUME NEW bag, NEW m
    PROVE  /\ BagToSet(With(bag, m)) = BagToSet(bag) \cup {m}
           /\ IsABag(bag) => IsABag(With(bag, m))
<1>1. BagToSet(With(bag, m)) = BagToSet(bag) \cup {m}
  BY DEF With, BagToSet, (+), SetToBag
<1>2. IsABag(bag) => IsABag(With(bag, m))
  BY DEF With, IsABag, (+), SetToBag
<1> QED
  BY <1>1, <1>2

LEMMA WithoutSpec ==
    ASSUME NEW m
    PROVE  /\ BagToSet(Without(m)) \subseteq BagToSet(air)
           /\ IsABag(air) => IsABag(Without(m))
<1>1. BagToSet(Without(m)) \subseteq BagToSet(air)
  BY DEF Without, BagToSet, (-), SetToBag
<1>2. IsABag(air) => IsABag(Without(m))
  BY DEF Without, IsABag, (-), SetToBag
<1> QED
  BY <1>1, <1>2

\* Announcements are of devices at addresses, and the endpoints of an answer
\* are the ones a device lists.
MessageTyped(m) ==
    /\ m.type = "tc_dev_ind" => m.ext \in Devices /\ m.short \in Addresses
    /\ m.type = "active_rsp" => \E d \in Devices : m.nums = NumsOf(d)
    /\ m.type = "simple_rsp" =>
         \E d \in Devices : \E k \in DOMAIN Descriptors[d] : m = SimpleResponse(Descriptors[d][k])

AirTyped(bag) == IsABag(bag) /\ \A m \in BagToSet(bag) : MessageTyped(m)

LEMMA WithTyped ==
    ASSUME NEW bag, AirTyped(bag), NEW m, MessageTyped(m)
    PROVE  AirTyped(With(bag, m))
BY WithSpec DEF AirTyped

LEMMA WithoutTyped ==
    ASSUME AirTyped(air), NEW m
    PROVE  AirTyped(Without(m))
BY WithoutSpec DEF AirTyped

-----------------------------------------------------------------------------
(* The inductive invariant: the list and the file have their devices in      *)
(* order; the file has the devices of the list, unless it may be lost and    *)
(* is; what the machine learns is there to be stored.                        *)

MayForget == PathHasSlash \/ Faults \cap {"torn_save", "reset"} # {}

DevicesTyped(base) == \A i \in DOMAIN base : base[i].ext \in Devices /\ base[i].short \in Addresses

Kept ==
    /\ up \in BOOLEAN
    /\ Keyed(db) /\ DevicesTyped(db)
    /\ Keyed(file) /\ DevicesTyped(file)
    /\ PathHasSlash => file = <<>>
    /\ OwnerIn(file) = OwnerIn(db) \/ (MayForget /\ file = <<>>)
    /\ FileFollows

Learns(s, addr, base) ==
    /\ s \in RestStates \cup {"none"}
    /\ addr \in Addresses \cup {NoAddr}
    /\ s = "none" <=> addr = NoAddr
    /\ s # "none" /\ Len(base) < MaxId => ByShortAddr(base, addr) # 0

Around ==
    /\ netAddr \in [Devices -> Addresses \cup {NoAddr}]
    /\ joins \in 0..MaxJoins
    /\ owed \subseteq Devices

Inv ==
    /\ Kept
    /\ sm \in RestStates \cup {"none"}
    /\ learning \in Addresses \cup {NoAddr}
    /\ sm = "none" <=> learning = NoAddr
    /\ up => Learns(sm, learning, db)
    /\ AirTyped(air)
    /\ Around

\* There is nothing in a file that was never written.
LEMMA EmptyReloaded == Reloaded(<<>>) = <<>>
BY DEF Reloaded

LEMMA SameDevicesTyped ==
    ASSUME NEW base, NEW other, SameDevices(base, other), DevicesTyped(base)
    PROVE  DevicesTyped(other)
BY DEF SameDevices, DevicesTyped

\* An update of endpoints leaves the searches for an address their success.
LEMMA SameDevicesFound ==
    ASSUME NEW base, Keyed(base), NEW other, SameDevices(base, other),
           NEW short, ByShortAddr(base, short) # 0
    PROVE  ByShortAddr(other, short) # 0
<1>1. PICK i \in DOMAIN base : base[i].short = short
  BY KeyedLength, ByShortAddrFinds
<1>2. Keyed(other) /\ i \in DOMAIN other /\ other[i].short = short
  BY <1>1, SameDevicesKeyed DEF SameDevices
<1> QED
  BY <1>2, KeyedLength, ByShortAddrFinds

-----------------------------------------------------------------------------
(* The machine *)

\* The states an event can lead to.
LEMMA StateAfterTyped ==
    ASSUME NEW s \in RestStates, NEW event
    PROVE  StateAfter(Transitions, s, event) \in RestStates \cup {"SHUTDOWN"}
<1> DEFINE M == Matches(Transitions, s, event)
<1>1. \A t \in M : t[3] \in RestStates \cup {"SHUTDOWN"}
  BY DEF Matches, Transitions, RestStates
<1> HIDE DEF M
<1>2. M # {} => (CHOOSE t \in M : TRUE) \in M
  OBVIOUS
<1> QED
  BY <1>1, <1>2 DEF StateAfter, M

LEMMA StartIsActive == Start = "ACTIVE_ENDPOINT_DISC"
<1> DEFINE M == Matches(Transitions, "INIT", "INIT_DONE")
<1>1. \A t \in M : t[3] = "ACTIVE_ENDPOINT_DISC"
  BY DEF Matches, Transitions
<1>2. <<"INIT", "INIT_DONE", "ACTIVE_ENDPOINT_DISC">> \in M
  BY DEF Matches, Transitions
<1> HIDE DEF M
<1> QED
  BY <1>1, <1>2 DEF Start, StateAfter, M

\* What a callback may enter, given the list it leaves.
Takes(s, addr, base) ==
    /\ s \in RestStates \cup {"none", "SHUTDOWN"}
    /\ s = "none" => sm = "none"
    /\ s \in RestStates => addr \in Addresses /\ Learns(s, addr, base)

LEMMA AfterTakes ==
    ASSUME Inv, up, NEW event, NEW base, SameDevices(db, base)
    PROVE  Takes(After(event), learning, base)
<1>1. CASE sm = "none"
  BY <1>1 DEF After, Takes, RestStates
<1>2. CASE sm # "none"
  <2>1. sm \in RestStates /\ After(event) \in RestStates \cup {"SHUTDOWN"}
    BY <1>2, StateAfterTyped DEF Inv, After
  <2>2. learning \in Addresses
    BY <1>2 DEF Inv
  <2>3. Len(base) = Len(db)
    BY SameDevicesKeyed DEF Inv, Kept
  <2>4. Len(base) < MaxId => ByShortAddr(base, learning) # 0
    BY <1>2, <2>3, SameDevicesFound DEF Inv, Kept, Learns
  <2>5. After(event) # "none" /\ learning # NoAddr
    BY <1>2, <2>1 DEF RestStates, Inv
  <2> QED
    BY <2>1, <2>2, <2>4, <2>5 DEF Takes, Learns
<1> QED
  BY <1>1, <1>2

LEMMA QueryTyped == \A s, addr, base : MessageTyped(QueryOf(s, addr, base))
BY DEF QueryOf, ActiveQuery, SimpleQuery, MessageTyped

LEMMA EnterKeeps ==
    ASSUME Inv, NEW s, NEW addr, NEW base, NEW rest, AirTyped(rest),
           Takes(s, addr, base), Enter(s, addr, base, rest)
    PROVE  /\ sm' \in RestStates \cup {"none"}
           /\ learning' \in Addresses \cup {NoAddr}
           /\ sm' = "none" <=> learning' = NoAddr
           /\ Learns(sm', learning', base)
           /\ AirTyped(air')
<1>1. CASE s \in {"none", "SHUTDOWN"} /\ sm' = "none"
              /\ learning' = (IF s = "none" THEN learning ELSE NoAddr) /\ air' = rest
  BY <1>1 DEF Takes, Inv, Learns
<1>2. CASE s \in RestStates /\ sm' = s /\ learning' = addr
              /\ air' = With(rest, QueryOf(s, addr, base))
  <2>1. AirTyped(air')
    BY <1>2, QueryTyped, WithTyped
  <2>2. addr # NoAddr /\ s # "none"
    BY <1>2, AddressesTyped DEF Takes, RestStates
  <2> QED
    BY <1>2, <2>1, <2>2 DEF Takes
<1> QED
  BY <1>1, <1>2 DEF Enter

-----------------------------------------------------------------------------
(* The two ends of a callback *)

LEMMA OnlyEnterKeeps ==
    ASSUME Inv, up, NEW s, NEW addr, NEW m, Takes(s, addr, db),
           OnlyEnter(s, addr, Without(m)), UNCHANGED network
    PROVE  Inv' /\ UNCHANGED <<Owner, up>>
<1>1. UNCHANGED <<db, file, up, owed, netAddr, joins>> /\ Enter(s, addr, db, Without(m))
  BY DEF OnlyEnter, stored, network
<1>2. AirTyped(Without(m))
  BY WithoutTyped DEF Inv
<1>3. /\ sm' \in RestStates \cup {"none"}
      /\ learning' \in Addresses \cup {NoAddr}
      /\ sm' = "none" <=> learning' = NoAddr
      /\ Learns(sm', learning', db)
      /\ AirTyped(air')
  BY <1>1, <1>2, EnterKeeps
<1>4. Kept' /\ Around' /\ Owner' = Owner
  BY <1>1 DEF Inv, Kept, FileFollows, Around, Owner
<1> QED
  BY <1>1, <1>3, <1>4 DEF Inv

\* Killed while it saves, the gateway has lost the file.
LEMMA SaveThenEnterKeeps ==
    ASSUME Inv, up, NEW base, Keyed(base), DevicesTyped(base),
           NEW s, NEW addr, NEW m, Takes(s, addr, base),
           SaveThenEnter(base, s, addr, Without(m)), UNCHANGED network
    PROVE  Inv' /\ db' = base /\ (up' = up \/ up' = FALSE)
<1>1. UNCHANGED <<netAddr, joins>> /\ AirTyped(Without(m))
  BY WithoutTyped DEF network, Inv
<1>2. CASE /\ db' = base
           /\ file' = Written(base)
           /\ UNCHANGED <<up, owed>>
           /\ Enter(s, addr, base, Without(m))
  <2>1. /\ sm' \in RestStates \cup {"none"}
        /\ learning' \in Addresses \cup {NoAddr}
        /\ sm' = "none" <=> learning' = NoAddr
        /\ Learns(sm', learning', base)
        /\ AirTyped(air')
    BY <1>1, <1>2, EnterKeeps
  <2>2. Kept'
    BY <1>2, EmptyReloaded DEF Inv, Kept, Written, MayForget, FileFollows
  <2>3. Around'
    BY <1>1, <1>2 DEF Inv, Around
  <2> QED
    BY <1>2, <2>1, <2>2, <2>3 DEF Inv
<1>3. CASE /\ "torn_save" \in Faults /\ ~PathHasSlash
           /\ db' = base
           /\ file' = <<>>
           /\ up' = FALSE
           /\ owed' = {}
           /\ air' = Without(m)
           /\ UNCHANGED volatile
  <2>1. Keyed(file') /\ DevicesTyped(file')
    BY <1>3, EmptyKeyed DEF DevicesTyped
  <2>2. Kept'
    BY <1>3, <2>1 DEF Inv, Kept, MayForget, FileFollows
  <2>3. Around'
    BY <1>1, <1>3 DEF Inv, Around
  <2> QED
    BY <1>1, <1>3, <2>2, <2>3 DEF Inv, volatile
<1> QED
  BY <1>2, <1>3 DEF SaveThenEnter

-----------------------------------------------------------------------------
(* One lemma for each kind of step *)

Step == Inv' /\ [Promise!Next]_Promise!vars

LEMMA StutterStep ==
    ASSUME Inv', UNCHANGED <<Owner, up>>
    PROVE  Step
BY DEF Step, Promise!vars

\* A callback that saves the same devices.
LEMMA SameDevicesStep ==
    ASSUME Inv, up, NEW base, SameDevices(db, base),
           NEW event, NEW m, SaveThenEnter(base, After(event), learning, Without(m)),
           UNCHANGED network
    PROVE  Step
<1>1. Keyed(base) /\ OwnerIn(base) = OwnerIn(db) /\ DevicesTyped(base)
  BY SameDevicesKeyed, SameDevicesTyped DEF Inv, Kept
<1>2. Inv' /\ db' = base /\ (up' = up \/ up' = FALSE)
  BY <1>1, AfterTakes, SaveThenEnterKeeps
<1>3. Owner' = Owner
  BY <1>1, <1>2 DEF Owner, OwnerIn
<1> QED
  BY <1>2, <1>3 DEF Step, Promise!Next, Promise!vars, Promise!Stop

LEMMA SameDevicesAlone ==
    ASSUME Inv, up, NEW event, NEW m, OnlyEnter(After(event), learning, Without(m)),
           UNCHANGED network
    PROVE  Step
<1>1. SameDevices(db, db)
  BY SameDevicesRefl DEF Inv, Kept
<1> QED
  BY <1>1, AfterTakes, OnlyEnterKeeps, StutterStep

-----------------------------------------------------------------------------
(* The actions *)

LEMMA PendingTyped ==
    ASSUME Inv, NEW type, NEW m \in Pending(type)
    PROVE  MessageTyped(m) /\ m.type = type /\ m \in BagToSet(air)
BY DEF Inv, AirTyped, Pending

\* A full database stays as it is, and the device is learnt all the same.
LEMMA FullStep ==
    ASSUME Inv, up, sm = "none", NEW m \in Pending("tc_dev_ind"), FreeIds(db) = {},
           OnlyEnter(Start, m.short, Without(m)), UNCHANGED network
    PROVE  Step
<1>1. m.short \in Addresses /\ m.short # NoAddr
  BY PendingTyped, AddressesTyped DEF MessageTyped
<1>2. Len(db) = MaxId /\ MaxId \in Nat
  BY FullLength, DeviceStoreAssumption DEF Inv, Kept
<1>3. Takes(Start, m.short, db)
  BY <1>1, <1>2, StartIsActive DEF Takes, Learns, RestStates
<1> QED
  BY <1>3, OnlyEnterKeeps, StutterStep

LEMMA AddStep ==
    ASSUME Inv, up, sm = "none", NEW m \in Pending("tc_dev_ind"), FreeIds(db) # {},
           ~IsDeviceKnown(db, m.ext),
           SaveThenEnter(AddDevice(db, m.short, m.ext), Start, m.short, Without(m)),
           UNCHANGED network
    PROVE  Step
<1> DEFINE new == AddDevice(db, m.short, m.ext)
           n   == Len(db)
<1>1. m.short \in Addresses /\ m.short # NoAddr /\ m.ext \in Devices
  BY PendingTyped, AddressesTyped DEF MessageTyped
<1>2. n \in Nat /\ DOMAIN db = 1..n /\ DevicesTyped(db)
  BY KeyedLength DEF Inv, Kept
<1>3. /\ Keyed(new)
      /\ OwnerIn(new) = OwnerIn(db) \cup {<<n, m.ext>>}
      /\ n \in 0..MaxId - 1
      /\ DOMAIN new = 1..n + 1
      /\ \A i \in 1..n : new[i] = db[i]
      /\ new[n + 1] = NewDevice(n, m.short, m.ext)
  BY AddDeviceKeys DEF Inv, Kept
<1> HIDE DEF new, n
<1>4. new[n + 1].short = m.short /\ new[n + 1].ext = m.ext /\ n + 1 \in DOMAIN new
  BY <1>2, <1>3 DEF NewDevice
<1>5. DevicesTyped(new)
  <2> SUFFICES ASSUME NEW i \in 1..n + 1
               PROVE  new[i].ext \in Devices /\ new[i].short \in Addresses
    BY <1>3 DEF DevicesTyped
  <2>1. CASE i \in 1..n
    BY <2>1, <1>2, <1>3 DEF DevicesTyped
  <2>2. CASE i = n + 1
    BY <2>2, <1>1, <1>4
  <2> QED
    BY <1>2, <2>1, <2>2
<1>6. ByShortAddr(new, m.short) # 0
  BY <1>3, <1>4, KeyedLength, ByShortAddrFinds
<1>7. Takes(Start, m.short, new)
  BY <1>1, <1>6, StartIsActive DEF Takes, Learns, RestStates
<1>8. Inv' /\ db' = new /\ (up' = up \/ up' = FALSE)
  BY <1>3, <1>5, <1>7, SaveThenEnterKeeps DEF new
<1>9. Promise!Install(n, m.ext)
  <2>1. \A i \in DOMAIN db : db[i].id # n /\ db[i].ext # m.ext
    BY <1>2 DEF Inv, Kept, Keyed, IsDeviceKnown
  <2>2. \A pair \in Owner : pair[1] # n /\ pair[2] # m.ext
    BY <2>1 DEF Owner
  <2>3. Owner' = Owner \cup {<<n, m.ext>>}
    BY <1>3, <1>8 DEF Owner, OwnerIn
  <2>4. up' \in BOOLEAN
    BY <1>8
  <2> QED
    BY <2>2, <2>3, <2>4 DEF Promise!Install
<1> QED
  BY <1>1, <1>3, <1>8, <1>9 DEF Step, Promise!Next

LEMMA LearnNewDeviceStep == Inv /\ LearnNewDevice => Step
<1> SUFFICES ASSUME Inv, LearnNewDevice PROVE Step
  OBVIOUS
<1>1. PICK m \in Pending("tc_dev_ind") :
         /\ ~IsDeviceKnown(db, m.ext)
         /\ IF FreeIds(db) = {}
              THEN OnlyEnter(Start, m.short, Without(m))
              ELSE SaveThenEnter(AddDevice(db, m.short, m.ext), Start, m.short, Without(m))
  BY DEF LearnNewDevice
<1>2. up /\ sm = "none" /\ UNCHANGED network
  BY DEF LearnNewDevice
<1> QED
  BY <1>1, <1>2, FullStep, AddStep

LEMMA RestartLearningStep == Inv /\ RestartLearning => Step
<1> SUFFICES ASSUME Inv, RestartLearning PROVE Step
  OBVIOUS
<1>1. PICK m \in Pending("tc_dev_ind") :
         m.short = learning /\ OnlyEnter(Start, m.short, Without(m))
  BY DEF RestartLearning
<1>2. up /\ sm # "none" /\ UNCHANGED network
  BY DEF RestartLearning
<1>3. m.short \in Addresses /\ m.short # NoAddr
  BY PendingTyped, AddressesTyped DEF MessageTyped
<1>4. Takes(Start, m.short, db)
  BY <1>1, <1>2, <1>3, StartIsActive DEF Takes, Learns, RestStates, Inv
<1> QED
  BY <1>1, <1>2, <1>4, OnlyEnterKeeps, StutterStep

LEMMA ActiveEndpointsStep == Inv /\ ActiveEndpointsRsp => Step
<1> SUFFICES ASSUME Inv, ActiveEndpointsRsp PROVE Step
  OBVIOUS
<1>1. PICK m \in Pending("active_rsp") :
         IF ByShortAddr(db, m.short) # 0 /\ m.nums # <<>>
           THEN SaveThenEnter(UpdateEndpoints(db, m.short, m.nums),
                              After("ACTIVE_ENDPOINTS_RESP"), learning, Without(m))
           ELSE OnlyEnter(After("ACTIVE_ENDPOINTS_RESP"), learning, Without(m))
  BY DEF ActiveEndpointsRsp
<1>2. up /\ UNCHANGED network
  BY DEF ActiveEndpointsRsp
<1>3. PICK d \in Devices : m.nums = NumsOf(d)
  BY PendingTyped DEF MessageTyped
<1>4. m.nums \in Seq(Nat \ {0})
  BY <1>3, DescriptorsTyped
<1>5. SameDevices(db, UpdateEndpoints(db, m.short, m.nums))
  BY <1>4, UpdateEndpointsDevices DEF Inv, Kept
<1> QED
  BY <1>1, <1>2, <1>5, SameDevicesStep, SameDevicesAlone

LEMMA SimpleDescStep == Inv /\ SimpleDescRsp => Step
<1> SUFFICES ASSUME Inv, SimpleDescRsp PROVE Step
  OBVIOUS
<1> DEFINE new(m)   == UpdateEndpointData(db, learning, m.num, m.profile, m.device_id)
           event(m) == IF NextEmptyEndpoint(new(m), learning) # 0
                         THEN "SIMPLE_DESC_RECEIVED" ELSE "ALL_SIMPLE_DESC_RECEIVED"
<1>1. PICK m \in Pending("simple_rsp") :
         IF EndpointIndex(db, learning, m.num) # 0
           THEN SaveThenEnter(new(m), After(event(m)), learning, Without(m))
           ELSE OnlyEnter(After(event(m)), learning, Without(m))
  BY DEF SimpleDescRsp
<1>2. up /\ UNCHANGED network
  BY DEF SimpleDescRsp
<1>3. SameDevices(db, new(m))
  BY UpdateEndpointDataDevices DEF Inv, Kept
<1> HIDE DEF new, event
<1> QED
  BY <1>1, <1>2, <1>3, SameDevicesStep, SameDevicesAlone

\* What touches neither the list, nor the file, nor the machine.
LEMMA AirStep ==
    ASSUME Inv, UNCHANGED <<volatile, stored, up>>, AirTyped(air'), Around'
    PROVE  Step
<1>1. Inv' /\ Owner' = Owner
  BY DEF Inv, volatile, stored, Kept, FileFollows, Owner
<1> QED
  BY <1>1, StutterStep

LEMMA IgnoreDeviceStep == Inv /\ IgnoreDevice => Step
<1> SUFFICES ASSUME Inv, IgnoreDevice PROVE Step
  OBVIOUS
<1>1. PICK m : air' = Without(m)
  BY DEF IgnoreDevice
<1>2. AirTyped(air')
  BY <1>1, WithoutTyped DEF Inv
<1> QED
  BY <1>2, AirStep DEF IgnoreDevice, network, Inv, Around

LEMMA CrashStep == Inv /\ Crash => Step
<1> SUFFICES ASSUME Inv, Crash PROVE Step
  OBVIOUS
<1>1. /\ up /\ up' = FALSE /\ owed' = {}
      /\ UNCHANGED <<sm, learning, db, file, air, netAddr, joins>>
  BY DEF Crash, volatile, stored, network
<1>2. Inv'
  BY <1>1 DEF Inv, Kept, FileFollows, Around
<1>3. Promise!Stop
  BY <1>1 DEF Promise!Stop, Owner
<1> QED
  BY <1>2, <1>3 DEF Step, Promise!Next

\* A restart finds the devices of the list, or none when it may forget them.
LEMMA BootLoads ==
    ASSUME Inv, NEW reset \in BOOLEAN, Boot(reset)
    PROVE  /\ Keyed(db') /\ DevicesTyped(db')
           /\ Keyed(file') /\ DevicesTyped(file')
           /\ PathHasSlash => file' = <<>>
           /\ OwnerIn(file') = OwnerIn(db')
           /\ OwnerIn(db') = OwnerIn(db) \/ (MayForget /\ OwnerIn(db') = {})
           /\ Reloaded(file') = IF PathHasSlash THEN <<>> ELSE Reloaded(db')
<1>1. /\ reset => "reset" \in Faults
      /\ db' = (IF reset THEN <<>> ELSE Loaded)
      /\ file' = (IF reset THEN Removed ELSE file)
  BY DEF Boot
<1>2. DevicesTyped(<<>>)
  BY DEF DevicesTyped
<1>3. CASE db' = <<>> /\ file' = <<>> /\ MayForget
  BY <1>2, <1>3, EmptyKeyed, EmptyReloaded
<1>4. CASE ~PathHasSlash /\ ~reset
  <2>1. db' = Reloaded(file) /\ file' = file
    BY <1>1, <1>4 DEF Loaded
  <2>2. Keyed(file) /\ SameDevices(file, db')
    BY <2>1, ReloadedDevices DEF Inv, Kept
  <2>3. Keyed(db') /\ OwnerIn(db') = OwnerIn(file) /\ DevicesTyped(db')
    BY <2>2, SameDevicesKeyed, SameDevicesTyped DEF Inv, Kept
  <2>4. Reloaded(db') = Reloaded(file)
    BY <2>1, <2>2, ReloadedDevices
  <2> QED
    BY <1>4, <2>1, <2>2, <2>3, <2>4, EmptyKeyed DEF Inv, Kept
<1>5. CASE ~PathHasSlash /\ reset
  BY <1>1, <1>3, <1>5 DEF Removed, MayForget
<1>6. CASE PathHasSlash
  BY <1>1, <1>3, <1>6 DEF Removed, Loaded, MayForget, Inv, Kept
<1> QED
  BY <1>4, <1>5, <1>6

LEMMA BootStep == ASSUME NEW reset \in BOOLEAN PROVE Inv /\ Boot(reset) => Step
<1> SUFFICES ASSUME Inv, Boot(reset) PROVE Step
  OBVIOUS
<1>1. /\ ~up /\ up' = TRUE /\ sm' = "none" /\ learning' = NoAddr
      /\ UNCHANGED <<air, netAddr, joins, owed>>
  BY DEF Boot, network
<1>2. Kept'
  BY <1>1, BootLoads DEF Kept, FileFollows
<1>3. Inv'
  BY <1>1, <1>2 DEF Inv, Learns, Around
<1>4. Promise!Start
  <2>1. Owner' = OwnerIn(db') /\ Owner = OwnerIn(db)
    BY DEF Owner, OwnerIn
  <2> QED
    BY <1>1, <2>1, BootLoads DEF Promise!Start, MayForget
<1> QED
  BY <1>3, <1>4 DEF Step, Promise!Next

LEMMA JoinStep ==
    ASSUME NEW d \in Devices, NEW a \in Addresses
    PROVE  Inv /\ Join(d, a) => Step
<1> SUFFICES ASSUME Inv, Join(d, a) PROVE Step
  OBVIOUS
<1>1. AirTyped(air')
  <2>1. MessageTyped(Announcement(d, a))
    BY DEF MessageTyped, Announcement
  <2> QED
    BY <2>1, WithTyped DEF Join, Inv
<1>2. Around'
  BY LearnDeviceAssumption DEF Join, Inv, Around
<1> QED
  BY <1>1, <1>2, AirStep DEF Join

LEMMA AnswerStep == Inv /\ (AnswerActive \/ AnswerSimple) => Step
<1> SUFFICES ASSUME Inv, AnswerActive \/ AnswerSimple PROVE Step
  OBVIOUS
<1>1. PICK m, answer : MessageTyped(answer) /\ air' = With(Without(m), answer)
  <2>1. CASE AnswerActive
    <3>1. PICK m \in Pending("active_req") : \E d \in Listeners(m) :
            air' = With(Without(m), ActiveResponse(d, m.short))
      BY <2>1 DEF AnswerActive
    <3>2. PICK d \in Devices : air' = With(Without(m), ActiveResponse(d, m.short))
      BY <3>1 DEF Listeners
    <3>3. MessageTyped(ActiveResponse(d, m.short))
      BY DEF MessageTyped, ActiveResponse, NumsOf
    <3> QED
      BY <3>2, <3>3
  <2>2. CASE AnswerSimple
    <3>1. PICK m \in Pending("simple_req") : \E d \in Listeners(m) : \E k \in DOMAIN Descriptors[d] :
            air' = With(Without(m), SimpleResponse(Descriptors[d][k]))
      BY <2>2 DEF AnswerSimple
    <3>2. PICK d \in Devices : \E k \in DOMAIN Descriptors[d] :
            air' = With(Without(m), SimpleResponse(Descriptors[d][k]))
      BY <3>1 DEF Listeners
    <3>3. PICK k \in DOMAIN Descriptors[d] : air' = With(Without(m), SimpleResponse(Descriptors[d][k]))
      BY <3>2
    <3>4. MessageTyped(SimpleResponse(Descriptors[d][k]))
      BY DEF MessageTyped, SimpleResponse
    <3> QED
      BY <3>3, <3>4
  <2> QED
    BY <2>1, <2>2
<1>2. AirTyped(air')
  BY <1>1, WithTyped, WithoutTyped DEF Inv
<1> QED
  BY <1>2, AirStep DEF AnswerActive, AnswerSimple, network, Inv, Around

LEMMA LoseStep == Inv /\ Lose => Step
<1> SUFFICES ASSUME Inv, Lose PROVE Step
  OBVIOUS
<1>1. PICK m : air' = Without(m) /\ (owed' = owed \/ owed' = {})
  BY DEF Lose
<1>2. AirTyped(air')
  BY <1>1, WithoutTyped DEF Inv
<1> QED
  BY <1>1, <1>2, AirStep DEF Lose, network, Inv, Around

LEMMA DuplicateStep == Inv /\ Duplicate => Step
<1> SUFFICES ASSUME Inv, Duplicate PROVE Step
  OBVIOUS
<1>1. PICK m \in BagToSet(air) : air' = With(air, m)
  BY DEF Duplicate
<1>2. AirTyped(air')
  BY <1>1, WithTyped DEF Inv, AirTyped
<1> QED
  BY <1>2, AirStep DEF Duplicate, network, Inv, Around

LEMMA IdleStep == Inv /\ UNCHANGED vars => Step
<1> SUFFICES ASSUME Inv, UNCHANGED vars PROVE Step
  OBVIOUS
<1> QED
  BY AirStep DEF vars, network, Inv, AirTyped, MessageTyped, Around

LEMMA EveryStep == Inv /\ [Next]_vars => Step
<1> SUFFICES ASSUME Inv, [Next]_vars PROVE Step
  OBVIOUS
<1>1. CASE Callback
  BY <1>1, LearnNewDeviceStep, RestartLearningStep, IgnoreDeviceStep, ActiveEndpointsStep,
     SimpleDescStep DEF Callback
<1>2. CASE Process
  BY <1>2, CrashStep, BootStep DEF Process
<1>3. CASE Network
  BY <1>3, JoinStep, AnswerStep, LoseStep, DuplicateStep DEF Network
<1>4. CASE UNCHANGED vars
  BY <1>4, IdleStep
<1> QED
  BY <1>1, <1>2, <1>3, <1>4 DEF Next

LEMMA InitKeeps == Init => Inv /\ Promise!Init
<1> SUFFICES ASSUME Init PROVE Inv /\ Promise!Init
  OBVIOUS
<1>1. Kept
  BY EmptyKeyed, EmptyReloaded DEF Init, Kept, DevicesTyped, FileFollows
<1>2. AirTyped(air)
  BY DEF Init, AirTyped, EmptyBag, IsABag, BagToSet, SetToBag
<1>3. Around
  BY LearnDeviceAssumption DEF Init, Around
<1>4. Inv
  BY <1>1, <1>2, <1>3 DEF Init, Inv, Learns
<1>5. Promise!Init
  BY DEF Init, Promise!Init, Owner
<1> QED
  BY <1>4, <1>5

-----------------------------------------------------------------------------
(* The theorems *)

\* The list and the file keep their devices in order, within bounds and with
\* none twice; the file is the list or may be lost; what is learnt is stored.
THEOREM IdentifiersInvariance == Spec => []Inv
<1>1. Init => Inv
  BY InitKeeps
<1>2. Inv /\ [Next]_vars => Inv'
  BY EveryStep DEF Step
<1> QED
  BY <1>1, <1>2, PTL DEF Spec

\* A device keeps its identifier and nobody else gets it (device.c:492-527),
\* from one run to the next too unless the file may be lost.
THEOREM Refinement == Spec => IdentifiersStay
<1>1. Init => Promise!Init
  BY InitKeeps
<1>2. Inv /\ [Next]_vars => [Promise!Next]_Promise!vars
  BY EveryStep DEF Step
<1> QED
  BY <1>1, <1>2, IdentifiersInvariance, PTL DEF Spec, IdentifiersStay, Promise!Spec

\* With a file that is neither torn, nor removed, nor named by a path that
\* dirname cuts, no restart forgets a device (device.c:318-353).
THEOREM Durability ==
    ASSUME ~PathHasSlash, Faults \cap {"torn_save", "reset"} = {}
    PROVE  Spec => DevicesSurvive
<1>1. Init => Durable!Init
  BY InitKeeps DEF Promise!Init, Durable!Init
<1>2. Inv /\ [Next]_vars => [Durable!Next]_Durable!vars
  <2> SUFFICES ASSUME [Promise!Next]_Promise!vars PROVE [Durable!Next]_Durable!vars
    BY EveryStep DEF Step
  <2>1. CASE \E id \in 0..MaxId - 1, device \in Devices : Promise!Install(id, device)
    BY <2>1 DEF Promise!Install, Durable!Install, Durable!Next
  <2>2. CASE Promise!Stop
    BY <2>2 DEF Promise!Stop, Durable!Stop, Durable!Next
  <2>3. CASE Promise!Start
    BY <2>3 DEF Promise!Start, Durable!Start, Durable!Next
  <2>4. CASE UNCHANGED Promise!vars
    BY <2>4 DEF Promise!vars, Durable!vars
  <2> QED
    BY <2>1, <2>2, <2>3, <2>4 DEF Promise!Next
<1> QED
  BY <1>1, <1>2, IdentifiersInvariance, PTL DEF Spec, DevicesSurvive, Durable!Spec

\* The state of the machine and the addresses are the ones the code can be in
\* (core.c:148-157), and the list holds devices of the network.
THEOREM TypeCorrectness == Spec => []TypeOK
<1>1. Inv => TypeOK
  BY DEF Inv, Kept, DevicesTyped, AirTyped, Around, TypeOK
<1> QED
  BY <1>1, IdentifiersInvariance, PTL

\* A device is in the database once, an identifier is one device's, and an
\* endpoint is listed once (device.c:116-128, 178-202).
THEOREM DbWellFormedCorrectness == Spec => []DbWellFormed
<1>1. Inv => DbWellFormed
  BY KeyedWellFormed DEF Inv, Kept, DbWellFormed
<1> QED
  BY <1>1, IdentifiersInvariance, PTL

\* With a plain path what a restart would load is what clients are shown now
\* (device.c:410-435); with a slash in the path there is never anything to load
\* (device.c:464-484).
THEOREM FileFollowsCorrectness == Spec => []FileFollows
<1>1. Inv => FileFollows
  BY DEF Inv, Kept
<1> QED
  BY <1>1, IdentifiersInvariance, PTL

\* The device being learnt is one whose answers can be stored (core.c:225-258).
THEOREM LearningIsStoredCorrectness == Spec => []LearningIsStored
<1>1. Inv => LearningIsStored
  BY DEF Inv, Learns, LearningIsStored
<1> QED
  BY <1>1, IdentifiersInvariance, PTL
=============================================================================
