--------------------------- MODULE LearnTruthProofs ---------------------------
(***************************************************************************)
(* Machine-checked theorems about what LearnDevice tells clients: events   *)
(* name the device they are about, commands reach it, profiles are the     *)
(* device's own, and a learning that ends has learnt everything.           *)
(*                                                                         *)
(* Each holds under hypotheses that name what may not happen; LearnMoved   *)
(* shows a violation without the first of them.                            *)
(***************************************************************************)
EXTENDS LearnDeviceProofs

\* Devices keep the address the network gave them,
StayPut == "new_address" \notin Faults
\* one is learnt at a time,
InTurn  == StayPut /\ OneAtATime
\* and what the file holds is never lost.
Careful == InTurn /\ ~PathHasSlash /\ Faults \cap {"torn_save", "reset"} = {}

\* No device lists an endpoint twice.
DistinctEndpoints ==
    \A d \in Devices : \A i, j \in DOMAIN Descriptors[d] :
       Descriptors[d][i].num = Descriptors[d][j].num => i = j

-----------------------------------------------------------------------------
(* Addresses: the list and the file have every device at the address it has  *)
(* in the network, where no two devices share one.                           *)

OneEach(addresses) ==
    \A d, e \in Devices : addresses[d] = addresses[e] /\ addresses[d] # NoAddr => d = e

AsAddressed(base) == \A i \in DOMAIN base : base[i].short = netAddr[base[i].ext]

Addressed ==
    /\ OneEach(netAddr)
    /\ AsAddressed(db)
    /\ AsAddressed(file)
    /\ \A m \in Pending("tc_dev_ind") : m.short = netAddr[m.ext]

-----------------------------------------------------------------------------
(* Truth: all that is under way is about the device being learnt, so nothing *)
(* of another device is stored under it.                                     *)

About(m, d) ==
    /\ m.type = "tc_dev_ind" => m.ext = d
    /\ m.type \in {"active_req", "simple_req", "active_rsp"} => m.short = netAddr[d]
    /\ m.type = "active_rsp" => m.nums = NumsOf(d)
    /\ m.type = "simple_rsp" => \E k \in DOMAIN Descriptors[d] : m = SimpleResponse(Descriptors[d][k])

Focus(d) ==
    /\ netAddr[d] # NoAddr
    /\ \A m \in BagToSet(air) : About(m, d)
    /\ sm # "none" => learning = netAddr[d]

Quiet   == BagToSet(air) = {} /\ sm = "none"
Focused == Quiet \/ \E d \in Devices : Focus(d)

\* The device a descriptor is of, when that is known, or some device.
Sources(d, known) == IF known THEN {d} ELSE Devices

Truthful(base, known) ==
    \A i \in DOMAIN base : \A e \in DOMAIN base[i].endpoints :
       TrueOf(Sources(base[i].ext, known), base[i].endpoints[e])

Truth == Focused /\ Truthful(db, TRUE) /\ Truthful(file, TRUE)
Told  == Truthful(db, FALSE) /\ Truthful(file, FALSE)

-----------------------------------------------------------------------------
(* Completeness: a device has all of its endpoints in the list or none, and  *)
(* all of them once an endpoint of its is asked about.                       *)

Filled(eps, d) ==
    /\ DOMAIN eps = DOMAIN Descriptors[d]
    /\ \A e \in DOMAIN eps : eps[e].num = Descriptors[d][e].num

AllOrNone(base) == \A i \in DOMAIN base : base[i].endpoints = <<>> \/ Filled(base[i].endpoints, base[i].ext)

HasAll(d) == \E i \in DOMAIN db : db[i].ext = d /\ Filled(db[i].endpoints, d)

Asks(m) == m.type = "simple_rsp" \/ (m.type = "simple_req" /\ m.num # 0)

FocusOnAll(d) == Focus(d) /\ \A m \in BagToSet(air) : Asks(m) => HasAll(d)

Complete ==
    /\ AllOrNone(db)
    /\ Reloaded(file) = Reloaded(db)
    /\ Quiet \/ \E d \in Devices : FocusOnAll(d)

-----------------------------------------------------------------------------
(* What a step can do to the list, to the machine and to the air *)

KeepsFile == ~PathHasSlash /\ Faults \cap {"torn_save", "reset"} = {}

Reloads ==
    /\ UNCHANGED netAddr
    /\ db' \in {<<>>, Reloaded(file)} /\ file' \in {<<>>, file}
    /\ KeepsFile => db' = Reloaded(file) /\ file' = file

Saves ==
    /\ UNCHANGED netAddr
    /\ file' \in {<<>>, file, db'}
    /\ KeepsFile => file' = db'

Grows ==
    \E m \in Pending("tc_dev_ind") :
       /\ ~IsDeviceKnown(db, m.ext) /\ FreeIds(db) # {}
       /\ db' = AddDevice(db, m.short, m.ext)
Lists ==
    \E m \in Pending("active_rsp") : db' = UpdateEndpoints(db, m.short, m.nums)
Describes ==
    \E m \in Pending("simple_rsp") :
       /\ EndpointIndex(db, learning, m.num) # 0
       /\ db' = UpdateEndpointData(db, learning, m.num, m.profile, m.device_id)

SameList  == UNCHANGED <<db, file>>
ListMoves == SameList \/ Reloads \/ (Saves /\ (Grows \/ Lists \/ Describes))

Moves == netAddr' = netAddr \/ \E d \in Devices : \E a \in Addresses : Join(d, a)

LearnsOn ==
    sm' # "none" =>
      \/ sm # "none" /\ learning' = learning
      \/ \E m \in Pending("tc_dev_ind") : learning' = m.short

Joined(x) == \E d \in Devices, a \in Addresses : Join(d, a) /\ x = Announcement(d, a)
ActiveAnswer(x) ==
    \E q \in Pending("active_req") : \E d \in Listeners(q) : x = ActiveResponse(d, q.short)
SimpleAnswer(x) ==
    \E q \in Pending("simple_req") : \E d \in Listeners(q) : \E i \in DOMAIN Descriptors[d] :
       Descriptors[d][i].num = q.num /\ x = SimpleResponse(Descriptors[d][i])
Queried(x) == sm' \in RestStates /\ x = QueryOf(sm', learning', db')
Comes(x) == \/ Joined(x) \/ Queried(x)
            \/ (ActiveAnswer(x) \/ SimpleAnswer(x)) /\ UNCHANGED <<netAddr, db>>

AirMoves == \A x \in BagToSet(air') : x \in BagToSet(air) \/ Comes(x)

Structure == ListMoves /\ Moves /\ LearnsOn /\ AirMoves

LEMMA Entered ==
    ASSUME NEW s, NEW addr, NEW base, NEW m,
           SaveThenEnter(base, s, addr, Without(m)) \/ (OnlyEnter(s, addr, Without(m)) /\ base = db)
    PROVE  /\ db' = base
           /\ AirMoves
           /\ \/ UNCHANGED <<sm, learning>>
              \/ sm' = "none"
              \/ sm' = s /\ s \in RestStates /\ learning' = addr
<1>1. \A x \in BagToSet(Without(m)) : x \in BagToSet(air)
  BY WithoutSpec
<1>2. CASE db' = base /\ Enter(s, addr, base, Without(m))
  <2>1. CASE air' = Without(m) /\ sm' = "none"
    BY <1>1, <1>2, <2>1 DEF AirMoves
  <2>2. CASE s \in RestStates /\ sm' = s /\ learning' = addr
             /\ air' = With(Without(m), QueryOf(s, addr, base))
    <3>1. BagToSet(air') = BagToSet(Without(m)) \cup {QueryOf(s, addr, base)}
      BY <2>2, WithSpec
    <3>2. AirMoves
      BY <1>1, <1>2, <2>2, <3>1 DEF AirMoves, Comes, Queried
    <3> QED
      BY <1>2, <2>2, <3>2
  <2> QED
    BY <1>2, <2>1, <2>2 DEF Enter
<1>3. CASE db' = base /\ air' = Without(m) /\ UNCHANGED <<sm, learning>>
  BY <1>1, <1>3 DEF AirMoves
<1> QED
  BY <1>2, <1>3 DEF SaveThenEnter, OnlyEnter, stored, volatile

LEMMA SaveSaves ==
    ASSUME NEW s, NEW addr, NEW base, NEW rest, SaveThenEnter(base, s, addr, rest), UNCHANGED network
    PROVE  Saves /\ db' = base
BY DEF SaveThenEnter, Saves, KeepsFile, Written, network

LEMMA AloneKeeps ==
    ASSUME NEW s, NEW addr, NEW rest, OnlyEnter(s, addr, rest), UNCHANGED network
    PROVE  SameList /\ Moves
BY DEF OnlyEnter, SameList, Moves, network, stored

LEMMA LearnNewDeviceStructure == LearnNewDevice => Structure
<1> SUFFICES ASSUME LearnNewDevice PROVE Structure
  OBVIOUS
<1>1. PICK m \in Pending("tc_dev_ind") :
         /\ ~IsDeviceKnown(db, m.ext)
         /\ IF FreeIds(db) = {}
              THEN OnlyEnter(Start, m.short, Without(m))
              ELSE SaveThenEnter(AddDevice(db, m.short, m.ext), Start, m.short, Without(m))
  BY DEF LearnNewDevice
<1>2. UNCHANGED network /\ sm = "none"
  BY DEF LearnNewDevice
<1>3. ListMoves /\ Moves
  BY <1>1, <1>2, SaveSaves, AloneKeeps DEF ListMoves, Grows, Moves, network
<1>4. /\ AirMoves
      /\ \/ UNCHANGED <<sm, learning>>
         \/ sm' = "none"
         \/ sm' = Start /\ learning' = m.short
  <2>1. CASE OnlyEnter(Start, m.short, Without(m))
    BY <2>1, Entered
  <2>2. CASE SaveThenEnter(AddDevice(db, m.short, m.ext), Start, m.short, Without(m))
    BY <2>2, Entered
  <2> QED
    BY <1>1, <2>1, <2>2
<1>5. LearnsOn
  BY <1>2, <1>4 DEF LearnsOn
<1> QED
  BY <1>3, <1>4, <1>5 DEF Structure

LEMMA RestartLearningStructure == RestartLearning => Structure
<1> SUFFICES ASSUME RestartLearning PROVE Structure
  OBVIOUS
<1>1. PICK m \in Pending("tc_dev_ind") :
         m.short = learning /\ OnlyEnter(Start, m.short, Without(m))
  BY DEF RestartLearning
<1>2. UNCHANGED network /\ sm # "none"
  BY DEF RestartLearning
<1>3. AirMoves /\ LearnsOn
  BY <1>1, <1>2, Entered DEF LearnsOn
<1> QED
  BY <1>1, <1>2, <1>3, AloneKeeps DEF Structure, ListMoves

\* A response finds the machine running or changes nothing of it.
LEMMA AfterLearns ==
    ASSUME NEW event, \/ UNCHANGED <<sm, learning>>
                      \/ sm' = "none"
                      \/ /\ sm' = After(event) /\ After(event) \in RestStates
                         /\ learning' = learning
    PROVE  LearnsOn
BY DEF LearnsOn, After, RestStates

LEMMA ActiveEndpointsStructure == ActiveEndpointsRsp => Structure
<1> SUFFICES ASSUME ActiveEndpointsRsp PROVE Structure
  OBVIOUS
<1>1. PICK m \in Pending("active_rsp") :
         IF ByShortAddr(db, m.short) # 0 /\ m.nums # <<>>
           THEN SaveThenEnter(UpdateEndpoints(db, m.short, m.nums),
                              After("ACTIVE_ENDPOINTS_RESP"), learning, Without(m))
           ELSE OnlyEnter(After("ACTIVE_ENDPOINTS_RESP"), learning, Without(m))
  BY DEF ActiveEndpointsRsp
<1>2. UNCHANGED network
  BY DEF ActiveEndpointsRsp
<1>3. ListMoves /\ Moves
  BY <1>1, <1>2, SaveSaves, AloneKeeps DEF ListMoves, Lists, Moves, network
<1>4. /\ AirMoves
      /\ \/ UNCHANGED <<sm, learning>>
         \/ sm' = "none"
         \/ /\ sm' = After("ACTIVE_ENDPOINTS_RESP") /\ sm' \in RestStates
            /\ learning' = learning
  BY <1>1, Entered
<1> QED
  BY <1>3, <1>4, AfterLearns DEF Structure

LEMMA SimpleDescStructure == SimpleDescRsp => Structure
<1> SUFFICES ASSUME SimpleDescRsp PROVE Structure
  OBVIOUS
<1> DEFINE new(m)   == UpdateEndpointData(db, learning, m.num, m.profile, m.device_id)
           event(m) == IF NextEmptyEndpoint(new(m), learning) # 0
                         THEN "SIMPLE_DESC_RECEIVED" ELSE "ALL_SIMPLE_DESC_RECEIVED"
<1>1. PICK m \in Pending("simple_rsp") :
         IF EndpointIndex(db, learning, m.num) # 0
           THEN SaveThenEnter(new(m), After(event(m)), learning, Without(m))
           ELSE OnlyEnter(After(event(m)), learning, Without(m))
  BY DEF SimpleDescRsp
<1>2. UNCHANGED network
  BY DEF SimpleDescRsp
<1>3. ListMoves /\ Moves
  BY <1>1, <1>2, SaveSaves, AloneKeeps DEF ListMoves, Describes, Moves, network
<1> HIDE DEF new, event
<1>4. /\ AirMoves
      /\ \/ UNCHANGED <<sm, learning>>
         \/ sm' = "none"
         \/ /\ sm' = After(event(m)) /\ sm' \in RestStates
            /\ learning' = learning
  BY <1>1, Entered
<1> QED
  BY <1>3, <1>4, AfterLearns DEF Structure

\* What the network does leaves the gateway alone.
LEMMA AirStructure ==
    ASSUME UNCHANGED <<volatile, stored>>, Moves, AirMoves
    PROVE  Structure
BY DEF Structure, ListMoves, SameList, LearnsOn, volatile, stored

LEMMA NetworkStructure == Network => Structure
<1>1. ASSUME NEW d \in Devices, NEW a \in Addresses, Join(d, a) PROVE Structure
  <2>1. BagToSet(air') = BagToSet(air) \cup {Announcement(d, a)}
    BY <1>1, WithSpec DEF Join
  <2>2. AirMoves
    BY <1>1, <2>1 DEF AirMoves, Comes, Joined
  <2>3. Moves
    BY <1>1 DEF Moves
  <2> QED
    BY <1>1, <2>2, <2>3, AirStructure DEF Join
<1>2. ASSUME AnswerActive \/ AnswerSimple PROVE Structure
  <2>1. PICK q, x : air' = With(Without(q), x) /\ (ActiveAnswer(x) \/ SimpleAnswer(x))
    BY <1>2 DEF AnswerActive, AnswerSimple, ActiveAnswer, SimpleAnswer
  <2>2. UNCHANGED <<volatile, stored, netAddr>>
    BY <1>2 DEF AnswerActive, AnswerSimple, network
  <2>3. BagToSet(air') = BagToSet(Without(q)) \cup {x} /\ BagToSet(Without(q)) \subseteq BagToSet(air)
    BY <2>1, WithSpec, WithoutSpec
  <2>4. Comes(x)
    BY <2>1, <2>2 DEF Comes, stored
  <2>5. AirMoves
    BY <2>3, <2>4 DEF AirMoves
  <2> QED
    BY <2>2, <2>5, AirStructure DEF Moves
<1>3. ASSUME Lose \/ Duplicate PROVE Structure
  <2>1. PICK m \in BagToSet(air) : air' = Without(m) \/ air' = With(air, m)
    BY <1>3 DEF Lose, Duplicate
  <2>2. AirMoves
    BY <2>1, WithSpec, WithoutSpec DEF AirMoves
  <2> QED
    BY <1>3, <2>2, AirStructure DEF Lose, Duplicate, Moves, network
<1> QED
  BY <1>1, <1>2, <1>3 DEF Network

LEMMA StepStructure == [Next]_vars => Structure
<1> SUFFICES ASSUME [Next]_vars PROVE Structure
  OBVIOUS
<1>1. CASE IgnoreDevice
  <2>1. AirMoves
    BY <1>1, WithoutSpec DEF IgnoreDevice, AirMoves
  <2> QED
    BY <1>1, <2>1, AirStructure DEF IgnoreDevice, Moves, network
<1>2. CASE Crash
  <2>1. UNCHANGED <<volatile, stored, air, netAddr>>
    BY <1>2 DEF Crash, network
  <2> QED
    BY <2>1, AirStructure DEF AirMoves, Moves
<1>3. ASSUME NEW reset \in BOOLEAN, Boot(reset) PROVE Structure
  <2>1. UNCHANGED <<air, netAddr>> /\ sm' = "none"
    BY <1>3 DEF Boot, network
  <2>2. Reloads
    BY <1>3, <2>1 DEF Boot, Reloads, Loaded, Removed, KeepsFile
  <2> QED
    BY <2>1, <2>2 DEF Structure, ListMoves, LearnsOn, Moves, AirMoves
<1>4. CASE UNCHANGED vars
  BY <1>4, AirStructure DEF vars, network, AirMoves, Moves
<1>5. CASE Callback
  BY <1>1, <1>5, LearnNewDeviceStructure, RestartLearningStructure, ActiveEndpointsStructure,
     SimpleDescStructure DEF Callback
<1> QED
  BY <1>2, <1>3, <1>4, <1>5, NetworkStructure DEF Next, Process

-----------------------------------------------------------------------------
(* Addresses *)

\* A device keeps its place in the list as it is described.
LEMMA SameDevicesAddressed ==
    ASSUME NEW base, NEW other, SameDevices(base, other), AsAddressed(base)
    PROVE  AsAddressed(other)
BY DEF SameDevices, AsAddressed

\* The networks' addresses stay, but for a device that had none.
LEMMA JoinAddresses ==
    ASSUME Inv, StayPut, OneEach(netAddr), NEW d \in Devices, NEW a \in Addresses, Join(d, a)
    PROVE  /\ OneEach(netAddr') /\ netAddr'[d] = a
           /\ \A e \in Devices : netAddr[e] # NoAddr => netAddr'[e] = netAddr[e]
<1>1. /\ netAddr' = [netAddr EXCEPT ![d] = a]
      /\ \A other \in Devices \ {d} : netAddr[other] # a
      /\ netAddr[d] \in {NoAddr, a}
  BY DEF Join, StayPut
<1>2. netAddr \in [Devices -> Addresses \cup {NoAddr}]
  BY DEF Inv, Around
<1> QED
  BY <1>1, <1>2 DEF OneEach

\* The entry found at the address of a device is that device's.
LEMMA FoundIn ==
    ASSUME NEW base, Keyed(base), DevicesTyped(base),
           NEW where, OneEach(where), \A i \in DOMAIN base : base[i].short = where[base[i].ext],
           NEW d \in Devices, where[d] # NoAddr, ByShortAddr(base, where[d]) # 0
    PROVE  /\ ByShortAddr(base, where[d]) \in DOMAIN base
           /\ base[ByShortAddr(base, where[d])].ext = d
<1> DEFINE k == ByShortAddr(base, where[d])
<1>1. k \in DOMAIN base /\ base[k].short = where[d]
  BY KeyedLength, ByShortAddrFinds
<1>2. base[k].ext \in Devices /\ where[base[k].ext] = where[d]
  BY <1>1 DEF DevicesTyped
<1> QED
  BY <1>1, <1>2 DEF OneEach

LEMMA FoundIsDevice ==
    ASSUME Inv, OneEach(netAddr), AsAddressed(db), NEW d \in Devices, netAddr[d] # NoAddr,
           ByShortAddr(db, netAddr[d]) # 0
    PROVE  /\ ByShortAddr(db, netAddr[d]) \in DOMAIN db
           /\ db[ByShortAddr(db, netAddr[d])].ext = d
BY FoundIn DEF Inv, Kept, AsAddressed

LEMMA GrownEntries ==
    ASSUME Inv, NEW m \in Pending("tc_dev_ind"), ~IsDeviceKnown(db, m.ext), FreeIds(db) # {},
           NEW new, new = AddDevice(db, m.short, m.ext), NEW i \in DOMAIN new
    PROVE  \/ i \in DOMAIN db /\ new[i] = db[i]
           \/ /\ i = Len(db) + 1
              /\ new[i].short = m.short /\ new[i].ext = m.ext /\ new[i].endpoints = <<>>
<1>1. Len(db) \in Nat /\ DOMAIN db = 1..Len(db)
  BY KeyedLength DEF Inv, Kept
<1>2. /\ DOMAIN new = 1..Len(db) + 1
      /\ \A j \in 1..Len(db) : new[j] = db[j]
      /\ new[Len(db) + 1] = NewDevice(Len(db), m.short, m.ext)
  BY AddDeviceKeys DEF Inv, Kept
<1>3. i \in 1..Len(db) \/ i = Len(db) + 1
  BY <1>1, <1>2
<1> QED
  BY <1>1, <1>2, <1>3 DEF NewDevice

\* The answers of devices describe them: none is added, moved or renamed.
LEMMA DescribedDevices ==
    ASSUME Inv, Lists \/ Describes
    PROVE  SameDevices(db, db')
<1>1. CASE Lists
  <2>1. PICK m \in Pending("active_rsp") : db' = UpdateEndpoints(db, m.short, m.nums)
    BY <1>1 DEF Lists
  <2>2. PICK d \in Devices : m.nums = NumsOf(d)
    BY PendingTyped DEF MessageTyped
  <2>3. m.nums \in Seq(Nat \ {0})
    BY <2>2, DescriptorsTyped
  <2> QED
    BY <2>1, <2>3, UpdateEndpointsDevices DEF Inv, Kept
<1>2. CASE Describes
  BY <1>2, UpdateEndpointDataDevices DEF Describes, Inv, Kept
<1> QED
  BY <1>1, <1>2

LEMMA AddressedNext ==
    ASSUME StayPut, Inv, Addressed, [Next]_vars
    PROVE  Addressed'
<1>1. ListMoves /\ Moves /\ AirMoves
  BY StepStructure DEF Structure
<1>2. DevicesTyped(db) /\ DevicesTyped(file)
  BY DEF Inv, Kept
<1>3. \A m \in Pending("tc_dev_ind") : m.ext \in Devices /\ m.short \in Addresses /\ m.short = netAddr[m.ext]
  BY PendingTyped DEF Addressed, MessageTyped
\* Wherever a device has an address, it keeps it.
<1>4. /\ OneEach(netAddr')
      /\ \A e \in Devices : netAddr[e] # NoAddr => netAddr'[e] = netAddr[e]
  BY <1>1, JoinAddresses DEF Addressed, Moves
<1>5. ASSUME NEW base, DevicesTyped(base), AsAddressed(base)
      PROVE  \A i \in DOMAIN base : base[i].short = netAddr'[base[i].ext]
  BY <1>4, <1>5, AddressesTyped DEF DevicesTyped, AsAddressed
<1>6. \A i \in DOMAIN db' : db'[i].short = netAddr'[db'[i].ext]
  <2>1. CASE SameList
    BY <1>2, <1>5, <2>1 DEF SameList, Addressed
  <2>2. CASE Reloads
    <3>1. SameDevices(file, Reloaded(file))
      BY ReloadedDevices DEF Inv, Kept
    <3>2. AsAddressed(Reloaded(file)) /\ AsAddressed(<<>>)
      BY <3>1, SameDevicesAddressed DEF Addressed, AsAddressed
    <3> QED
      BY <2>2, <3>2 DEF Reloads, AsAddressed
  <2>3. CASE Saves /\ Grows
    BY <1>3, <2>3, GrownEntries DEF Saves, Grows, Addressed, AsAddressed
  <2>4. CASE Saves /\ (Lists \/ Describes)
    <3>1. AsAddressed(db) /\ SameDevices(db, db')
      BY <2>4, DescribedDevices DEF Addressed
    <3>2. \A i \in DOMAIN db' : db'[i].short = netAddr[db'[i].ext]
      BY <3>1 DEF SameDevices, AsAddressed
    <3> QED
      BY <2>4, <3>2 DEF Saves
  <2> QED
    BY <1>1, <2>1, <2>2, <2>3, <2>4 DEF ListMoves
<1>7. \A i \in DOMAIN file' : file'[i].short = netAddr'[file'[i].ext]
  <2>1. file' \in {<<>>, file, db'}
    BY <1>1 DEF ListMoves, SameList, Reloads, Saves
  <2>2. CASE file' = file
    BY <1>2, <1>5, <2>2 DEF Addressed
  <2> QED
    BY <1>6, <2>1, <2>2
<1>8. ASSUME NEW x \in BagToSet(air'), x.type = "tc_dev_ind" PROVE x.short = netAddr'[x.ext]
  <2>1. CASE x \in BagToSet(air)
    <3>1. x \in Pending("tc_dev_ind")
      BY <1>8, <2>1 DEF Pending
    <3> QED
      BY <1>3, <1>4, <3>1, AddressesTyped
  <2>2. CASE Joined(x)
    BY <2>2, JoinAddresses DEF Joined, Announcement, Addressed
  <2>3. x.type # "tc_dev_ind" \/ x \in BagToSet(air) \/ Joined(x)
    BY <1>1 DEF AirMoves, Comes, Queried, QueryOf, ActiveQuery, SimpleQuery,
                ActiveAnswer, ActiveResponse, SimpleAnswer, SimpleResponse
  <2> QED
    BY <1>8, <2>1, <2>2, <2>3
<1> QED
  BY <1>4, <1>6, <1>7, <1>8 DEF Addressed, OneEach, AsAddressed, Pending

LEMMA InitAddressed == Init => Addressed
<1> SUFFICES ASSUME Init PROVE Addressed
  OBVIOUS
<1>1. Pending("tc_dev_ind") = {}
  BY DEF Init, Pending, EmptyBag, BagToSet, SetToBag
<1> QED
  BY <1>1 DEF Init, Addressed, OneEach, AsAddressed

\* The invariant behind the next theorem.
THEOREM AddressedInvariance == ASSUME StayPut PROVE Spec => []Addressed
<1>1. Inv /\ Addressed /\ [Next]_vars => Addressed'
  BY AddressedNext
<1> QED
  BY <1>1, InitAddressed, IdentifiersInvariance, PTL DEF Spec

\* While no device moves, an event names the device whose report it passes on
\* (core.c:301-387).
THEOREM EventsNameTheirDeviceCorrectness ==
    ASSUME StayPut
    PROVE  Spec => []EventsNameTheirDevice
<1>1. Inv /\ Addressed => EventsNameTheirDevice
  <2> SUFFICES ASSUME Inv, Addressed, NEW d \in Devices, NEW i \in DOMAIN db,
                      netAddr[d] # NoAddr, db[i].id = ReportedId(d)
               PROVE  db[i].ext = d
    BY DEF EventsNameTheirDevice
  <2> DEFINE k == ByShortAddr(db, netAddr[d])
  <2>1. Keyed(db) /\ Len(db) \in Nat /\ DOMAIN db = 1..Len(db)
    BY KeyedLength DEF Inv, Kept
  <2>2. Len(db) <= MaxId /\ db[i].id = i - 1 /\ i \in 1..Len(db)
    BY <2>1 DEF Keyed
  <2>3. db[i].id # NoId
    BY <2>1, <2>2, DeviceStoreAssumption DEF NoId
  <2>4. k # 0 /\ db[i].id = db[k].id
    BY <2>3 DEF ReportedId, IdOf
  <2>5. k \in DOMAIN db /\ db[k].ext = d
    BY <2>4, FoundIsDevice DEF Addressed
  <2>6. i = k
    BY <2>1, <2>2, <2>4, <2>5 DEF Keyed
  <2> QED
    BY <2>5, <2>6
<1> QED
  BY <1>1, IdentifiersInvariance, AddressedInvariance, PTL

-----------------------------------------------------------------------------
(* One device at a time *)

\* Whoever listens at the address of the focus is the focus.
LEMMA OneListens ==
    ASSUME OneEach(netAddr), NEW d \in Devices, netAddr[d] # NoAddr,
           NEW q, q.short = netAddr[d], NEW e \in Listeners(q)
    PROVE  e = d
BY DEF OneEach, Listeners

LEMMA ComesAbout ==
    ASSUME Inv, Addressed, NEW d \in Devices, Focus(d), UNCHANGED netAddr,
           NEW x, Comes(x), ~Joined(x), sm' # "none" => learning' = netAddr[d]
    PROVE  About(x, d)
<1>1. CASE Queried(x)
  BY <1>1 DEF Queried, QueryOf, ActiveQuery, SimpleQuery, About, RestStates
<1>2. CASE ActiveAnswer(x)
  <2>1. PICK q, e : /\ q \in Pending("active_req") /\ e \in Listeners(q)
                     /\ x = ActiveResponse(e, q.short)
    BY <1>2 DEF ActiveAnswer
  <2>2. q.short = netAddr[d]
    BY <2>1 DEF Pending, Focus, About
  <2>3. e = d
    BY <2>1, <2>2, OneListens DEF Addressed, Focus
  <2> QED
    BY <2>1, <2>2, <2>3 DEF ActiveResponse, NumsOf, About
<1>3. CASE SimpleAnswer(x)
  <2>1. PICK q, e, i :
          /\ q \in Pending("simple_req") /\ e \in Listeners(q) /\ i \in DOMAIN Descriptors[e]
          /\ x = SimpleResponse(Descriptors[e][i])
    BY <1>3 DEF SimpleAnswer
  <2>2. q.short = netAddr[d]
    BY <2>1 DEF Pending, Focus, About
  <2>3. e = d
    BY <2>1, <2>2, OneListens DEF Addressed, Focus
  <2> QED
    BY <2>1, <2>3 DEF SimpleResponse, About
<1> QED
  BY <1>1, <1>2, <1>3 DEF Comes

\* As long as nobody joins, the focus stays where it is.
LEMMA FocusStays ==
    ASSUME Inv, Addressed, NEW d \in Devices, Focus(d), [Next]_vars, UNCHANGED netAddr,
           \A x \in BagToSet(air') : ~Joined(x)
    PROVE  Focus(d)'
<1>1. LearnsOn /\ AirMoves
  BY StepStructure DEF Structure
<1>2. sm' # "none" => learning' = netAddr[d]
  <2>1. \A m \in Pending("tc_dev_ind") : m.short = netAddr[d]
    BY DEF Pending, Focus, About, Addressed
  <2> QED
    BY <1>1, <2>1 DEF LearnsOn, Focus
<1>3. ASSUME NEW x \in BagToSet(air') PROVE About(x, d)
  <2>1. CASE x \in BagToSet(air)
    BY <2>1 DEF Focus
  <2>2. CASE Comes(x)
    BY <1>2, <2>2, ComesAbout
  <2> QED
    BY <1>1, <2>1, <2>2 DEF AirMoves
<1> QED
  BY <1>2, <1>3 DEF Focus, About

LEMMA QuietStays ==
    ASSUME Quiet, [Next]_vars, \A x \in BagToSet(air') : ~Joined(x)
    PROVE  Quiet'
<1>1. LearnsOn /\ AirMoves
  BY StepStructure DEF Structure
<1>2. \A type : Pending(type) = {}
  BY DEF Quiet, Pending
<1>3. sm' = "none"
  BY <1>1, <1>2 DEF LearnsOn, Quiet
<1>4. \A x \in BagToSet(air') : FALSE
  BY <1>1, <1>2, <1>3 DEF AirMoves, Quiet, Comes, Queried, ActiveAnswer, SimpleAnswer, RestStates
<1> QED
  BY <1>3, <1>4 DEF Quiet

\* A device that joins is the focus from then on, or still.
LEMMA JoinFocus ==
    ASSUME InTurn, Inv, Addressed, NEW d \in Devices, NEW a \in Addresses, Join(d, a),
           NEW e, Quiet \/ (e \in Devices /\ Focus(e))
    PROVE  Focus(d)' /\ (BagToSet(air) = {} \/ e = d)
<1>1. /\ UNCHANGED <<sm, learning>>
      /\ BagToSet(air') = BagToSet(air) \cup {Announcement(d, a)}
  BY WithSpec DEF Join, volatile
<1>2. netAddr'[d] = a /\ a # NoAddr /\ (netAddr[d] # NoAddr => netAddr'[d] = netAddr[d])
  BY JoinAddresses, AddressesTyped DEF InTurn, Addressed
<1>3. \/ BagToSet(air) = {} /\ (sm = "none" \/ netAddr[d] = learning)
      \/ sm # "none" /\ netAddr[d] = learning
  BY DEF Join, InTurn, BagToSet, EmptyBag, SetToBag
<1>4. sm # "none" => netAddr[d] = learning /\ learning # NoAddr
  BY <1>3 DEF Inv
<1>5. BagToSet(air) = {} \/ (Focus(e) /\ e = d)
  <2> SUFFICES ASSUME BagToSet(air) # {} PROVE Focus(e) /\ e = d
    OBVIOUS
  <2>1. e \in Devices /\ Focus(e) /\ sm # "none"
    BY <1>3 DEF Quiet
  <2>2. netAddr[d] = netAddr[e] /\ netAddr[d] # NoAddr
    BY <1>4, <2>1 DEF Focus
  <2> QED
    BY <2>1, <2>2 DEF Addressed, OneEach
<1>6. ASSUME NEW x \in BagToSet(air')
      PROVE  /\ x.type = "tc_dev_ind" => x.ext = d
             /\ x.type \in {"active_req", "simple_req", "active_rsp"} => x.short = netAddr'[d]
             /\ x.type = "active_rsp" => x.nums = NumsOf(d)
             /\ x.type = "simple_rsp" =>
                   \E k \in DOMAIN Descriptors[d] : x = SimpleResponse(Descriptors[d][k])
  <2>1. CASE x = Announcement(d, a)
    BY <2>1 DEF Announcement
  <2>2. CASE x \in BagToSet(air)
    BY <1>2, <1>5, <2>2 DEF Focus, About
  <2> QED
    BY <1>1, <2>1, <2>2
<1> QED
  BY <1>1, <1>2, <1>4, <1>5, <1>6 DEF Focus, About

\* No device joins, or what comes are only its words.
LEMMA JoinOrNot ==
    ASSUME [Next]_vars
    PROVE  \/ \E d \in Devices, a \in Addresses : Join(d, a)
           \/ UNCHANGED netAddr /\ \A x \in BagToSet(air') : ~Joined(x)
BY StepStructure DEF Structure, Moves, Joined

LEMMA FocusedNext ==
    ASSUME InTurn, Inv, Addressed, Focused, [Next]_vars
    PROVE  Focused'
<1>1. CASE \E d \in Devices, a \in Addresses : Join(d, a)
  <2>1. PICK d \in Devices, a \in Addresses : Join(d, a)
    BY <1>1
  <2>2. Focus(d)'
    BY <2>1, JoinFocus DEF Focused
  <2> QED
    BY <2>2 DEF Focused
<1>2. CASE UNCHANGED netAddr /\ \A x \in BagToSet(air') : ~Joined(x)
  <2>1. CASE Quiet
    BY <1>2, <2>1, QuietStays DEF Focused
  <2>2. CASE \E d \in Devices : Focus(d)
    BY <1>2, <2>2, FocusStays DEF Focused
  <2> QED
    BY <2>1, <2>2 DEF Focused
<1> QED
  BY <1>1, <1>2, JoinOrNot

-----------------------------------------------------------------------------
(* What is stored is true *)

LEMMA EmptyTruthful == ASSUME NEW known PROVE Truthful(<<>>, known)
BY DEF Truthful

LEMMA ReloadedTruthful ==
    ASSUME NEW base, Keyed(base), NEW known, Truthful(base, known)
    PROVE  Truthful(Reloaded(base), known)
<1> DEFINE other == Reloaded(base)
<1>1. SameDevices(base, other) /\ \A i \in DOMAIN base : other[i].endpoints = Unnamed(base[i].endpoints)
  BY ReloadedDevices
<1>2. \A i \in DOMAIN base : Listed(base[i].endpoints)
  BY DEF Keyed
<1> HIDE DEF other
<1>3. ASSUME NEW i \in DOMAIN other, NEW e \in DOMAIN other[i].endpoints
      PROVE  TrueOf(Sources(other[i].ext, known), other[i].endpoints[e])
  <2>1. i \in DOMAIN base /\ other[i].ext = base[i].ext
    BY <1>1 DEF SameDevices
  <2> DEFINE old == base[i].endpoints
             new == other[i].endpoints
  <2>2. /\ e \in DOMAIN old /\ new[e].num = old[e].num
        /\ new[e].profile = old[e].profile /\ new[e].device_id = 0
    BY <1>1, <1>2, <2>1, UnnamedListed
  <2>3. TrueOf(Sources(base[i].ext, known), old[e])
    BY <2>1, <2>2 DEF Truthful
  <2> QED
    BY <2>1, <2>2, <2>3 DEF TrueOf, StoredExactly
<1> QED
  BY <1>3 DEF Truthful, other

\* A response with a list adds endpoints of which nothing is known yet.
LEMMA ListsTruthful ==
    ASSUME Inv, NEW known, Truthful(db, known), Lists
    PROVE  Truthful(db', known)
<1>1. PICK m \in Pending("active_rsp") : db' = UpdateEndpoints(db, m.short, m.nums)
  BY DEF Lists
<1>2. PICK d \in Devices : m.nums = NumsOf(d)
  BY PendingTyped DEF MessageTyped
<1>3. m.nums \in Seq(Nat \ {0}) /\ Keyed(db)
  BY <1>2, DescriptorsTyped DEF Inv, Kept
<1> DEFINE k == ByShortAddr(db, m.short)
           more(i) == FoldLeft(AddEndpoint, db[i].endpoints, m.nums)
<1>4. /\ SameDevices(db, db')
      /\ k = 0 \/ m.nums = <<>> => db' = db
      /\ k # 0 /\ m.nums # <<>> => \A i \in DOMAIN db :
           db'[i].endpoints = IF i = k THEN more(i) ELSE db[i].endpoints
  BY <1>1, <1>3, UpdateEndpointsDevices
<1>5. \A i \in DOMAIN db : Longer(db[i].endpoints, more(i), m.nums)
  BY <1>3, FoldListed DEF Keyed
<1> HIDE DEF more
<1>6. ASSUME k # 0, m.nums # <<>>,
             NEW i \in DOMAIN db', NEW e \in DOMAIN db'[i].endpoints
      PROVE  TrueOf(Sources(db'[i].ext, known), db'[i].endpoints[e])
  <2>1. i \in DOMAIN db /\ db'[i].ext = db[i].ext
    BY <1>4 DEF SameDevices
  <2>2. CASE db'[i].endpoints = db[i].endpoints
    BY <2>1, <2>2 DEF Truthful
  <2>3. CASE db'[i].endpoints = more(i)
    <3>1. \/ e \in DOMAIN db[i].endpoints /\ more(i)[e] = db[i].endpoints[e]
          \/ more(i)[e].profile = 0
      BY <1>5, <2>1, <2>3 DEF Longer, NewEndpoint
    <3> QED
      BY <2>1, <2>3, <3>1 DEF Truthful, TrueOf
  <2> QED
    BY <1>4, <1>6, <2>1, <2>2, <2>3
<1> QED
  BY <1>4, <1>6 DEF Truthful

\* A descriptor is of some device; it is of the focus, if there is one, and so is
\* the device it is stored for.
LEMMA DescribesTruthful ==
    ASSUME Inv, NEW known, known => Addressed /\ Focused, Truthful(db, known), Describes
    PROVE  Truthful(db', known)
<1>1. PICK m \in Pending("simple_rsp") :
         /\ EndpointIndex(db, learning, m.num) # 0
         /\ db' = UpdateEndpointData(db, learning, m.num, m.profile, m.device_id)
  BY DEF Describes
<1> DEFINE k    == ByShortAddr(db, learning)
           x    == EndpointIndex(db, learning, m.num)
           data == [num |-> m.num, profile |-> m.profile, device_id |-> m.device_id]
<1>2. /\ SameDevices(db, db')
      /\ k \in DOMAIN db /\ x \in DOMAIN db[k].endpoints
      /\ \A i \in DOMAIN db :
           db'[i].endpoints = IF i = k THEN [db[i].endpoints EXCEPT ![x] = data]
                              ELSE db[i].endpoints
  BY <1>1, UpdateEndpointDataDevices DEF Inv, Kept
<1>3. known => TrueOf({db[k].ext}, data)
  <2> SUFFICES ASSUME known PROVE TrueOf({db[k].ext}, data)
    OBVIOUS
  <2>1. PICK d \in Devices : Focus(d)
    BY DEF Focused, Quiet, Pending
  <2>2. k # 0
    BY <1>2, KeyedLength DEF Inv, Kept
  <2>3. sm # "none" /\ learning = netAddr[d] /\ netAddr[d] # NoAddr
    <3>1. db[k].short = learning /\ db[k].short \in Addresses
      BY <1>2, <2>2, KeyedLength, ByShortAddrFinds DEF Inv, Kept, DevicesTyped
    <3> QED
      BY <2>1, <3>1, AddressesTyped DEF Inv, Focus
  <2>4. db[k].ext = d
    BY <2>2, <2>3, FoundIsDevice DEF Addressed
  <2>5. PICK n \in DOMAIN Descriptors[d] : m = SimpleResponse(Descriptors[d][n])
    BY <2>1 DEF Focus, About, Pending
  <2> QED
    BY <2>4, <2>5 DEF SimpleResponse, TrueOf, StoredExactly
<1>4. TrueOf(Devices, data)
  <2>1. PICK d \in Devices : \E n \in DOMAIN Descriptors[d] : m = SimpleResponse(Descriptors[d][n])
    BY PendingTyped DEF MessageTyped
  <2> QED
    BY <2>1 DEF SimpleResponse, TrueOf, StoredExactly
<1>5. TrueOf(Sources(db[k].ext, known), data)
  BY <1>3, <1>4 DEF Sources
<1> HIDE DEF k, x, data
<1>6. ASSUME NEW i \in DOMAIN db', NEW e \in DOMAIN db'[i].endpoints
      PROVE  TrueOf(Sources(db'[i].ext, known), db'[i].endpoints[e])
  <2>1. i \in DOMAIN db /\ db'[i].ext = db[i].ext
    BY <1>2 DEF SameDevices
  <2>2. CASE i = k
    <3>1. db'[i].endpoints = [db[k].endpoints EXCEPT ![x] = data]
      BY <1>2, <2>1, <2>2
    <3>2. e \in DOMAIN db[k].endpoints
          /\ db'[i].endpoints[e] = IF e = x THEN data ELSE db[k].endpoints[e]
      BY <3>1
    <3> QED
      BY <1>2, <1>5, <2>1, <2>2, <3>2 DEF Truthful
  <2>3. CASE i # k
    BY <1>2, <2>1, <2>3 DEF Truthful
  <2> QED
    BY <2>2, <2>3
<1> QED
  BY <1>6 DEF Truthful

LEMMA GrowsTruthful ==
    ASSUME Inv, NEW known, Truthful(db, known), Grows
    PROVE  Truthful(db', known)
<1>1. PICK m \in Pending("tc_dev_ind") : /\ ~IsDeviceKnown(db, m.ext) /\ FreeIds(db) # {}
                                         /\ db' = AddDevice(db, m.short, m.ext)
  BY DEF Grows
<1>2. ASSUME NEW i \in DOMAIN db', NEW e \in DOMAIN db'[i].endpoints
      PROVE  TrueOf(Sources(db'[i].ext, known), db'[i].endpoints[e])
  <2>1. \/ i \in DOMAIN db /\ db'[i] = db[i]
        \/ db'[i].endpoints = <<>>
    BY <1>1, GrownEntries
  <2>2. DOMAIN <<>> = {}
    OBVIOUS
  <2> QED
    BY <1>2, <2>1, <2>2 DEF Truthful
<1> QED
  BY <1>2 DEF Truthful

LEMMA TruthfulNext ==
    ASSUME Inv, NEW known, known => Addressed /\ Focused, [Next]_vars,
           Truthful(db, known), Truthful(file, known)
    PROVE  Truthful(db', known) /\ Truthful(file', known)
<1>1. ListMoves
  BY StepStructure DEF Structure
<1>2. Truthful(db', known)
  <2>1. CASE Reloads
    BY <2>1, EmptyTruthful, ReloadedTruthful DEF Reloads, Inv, Kept
  <2>2. CASE SameList
    BY <2>2 DEF SameList
  <2> QED
    BY <1>1, <2>1, <2>2, ListsTruthful, DescribesTruthful, GrowsTruthful DEF ListMoves
<1>3. file' \in {<<>>, file, db'}
  BY <1>1 DEF ListMoves, SameList, Reloads, Saves
<1> QED
  BY <1>2, <1>3, EmptyTruthful

LEMMA TruthNext ==
    ASSUME InTurn, Inv, Addressed, Truth, [Next]_vars
    PROVE  Truth'
<1>1. Truthful(db', TRUE) /\ Truthful(file', TRUE)
  BY TruthfulNext DEF Truth
<1>2. Focused'
  BY FocusedNext DEF Truth
<1> QED
  BY <1>1, <1>2 DEF Truth, Truthful, TrueOf, Sources, StoredExactly

LEMMA InitTruth == Init => Truth
<1> SUFFICES ASSUME Init PROVE Truth
  OBVIOUS
<1>1. Quiet
  BY DEF Init, Quiet, EmptyBag, BagToSet, SetToBag
<1> QED
  BY <1>1, EmptyTruthful DEF Init, Truth, Focused

\* While devices join one at a time and none moves, the list and the file have
\* true descriptors only: the invariant behind the next two theorems.
THEOREM TruthInvariance == ASSUME InTurn PROVE Spec => []Truth
<1>1. Inv /\ Addressed /\ Truth /\ [Next]_vars => Truth'
  BY TruthNext
<1>2. StayPut
  BY DEF InTurn
<1>3. Spec => []Addressed
  BY <1>2, AddressedInvariance
<1> QED
  BY <1>1, <1>3, InitTruth, IdentifiersInvariance, PTL DEF Spec

\* If devices join one at a time, which nothing in the code enforces, and keep
\* their addresses, a profile shown to a client is one the device has at that
\* endpoint (core.c:282-294).
THEOREM DescriptorsTruthfulCorrectness ==
    ASSUME InTurn
    PROVE  Spec => []DescriptorsTruthful
<1>1. Truth => DescriptorsTruthful
  BY DEF Truth, Truthful, Sources, DescriptorsTruthful
<1> QED
  BY <1>1, TruthInvariance, PTL

\* With devices joining whenever they like, moving, and every fault there is, no
\* profile is invented: what a client is shown of an endpoint was told, whole,
\* by some device about an endpoint of that number (core.c:282-294,
\* device.c:596-611).
THEOREM DescriptorsWholeCorrectness == Spec => []DescriptorsWhole
<1>1. Init => Told
  BY EmptyTruthful DEF Init, Told
<1>2. Inv /\ Told /\ [Next]_vars => Told'
  <2> SUFFICES ASSUME Inv, Told, [Next]_vars PROVE Told'
    OBVIOUS
  <2>1. Truthful(db', FALSE) /\ Truthful(file', FALSE)
    BY TruthfulNext DEF Told
  <2> QED
    BY <2>1 DEF Told, Truthful, TrueOf, Sources, StoredExactly
<1>3. Told => DescriptorsWhole
  BY DEF Told, Truthful, Sources, DescriptorsWhole
<1> QED
  BY <1>1, <1>2, <1>3, IdentifiersInvariance, PTL DEF Spec

\* Under the same hypotheses a command for an identifier leaves for the device
\* that has it, and for an endpoint of its that can be switched, if it is learnt
\* to the end and has one; for endpoint 255 otherwise (interfaces.c:123-136).
THEOREM CommandsReachTheirDeviceCorrectness ==
    ASSUME InTurn
    PROVE  Spec => []CommandsReachTheirDevice
<1>1. Inv /\ Addressed /\ Truth => CommandsReachTheirDevice
  <2> SUFFICES ASSUME Inv, Addressed, Truth, NEW i \in DOMAIN db
               PROVE  Reaches(db[i].ext, OnOffTarget(db[i].id))
    BY DEF CommandsReachTheirDevice
  <2> DEFINE d    == db[i].ext
             addr == db[i].short
  <2>1. Keyed(db) /\ Len(db) \in Nat /\ DOMAIN db = 1..Len(db) /\ i \in 1..Len(db)
    BY KeyedLength DEF Inv, Kept
  <2>2. ById(db, db[i].id) = i
    BY <2>1, ByIdFinds DEF Keyed
  <2>3. ShortAddrOf(db, db[i].id) = addr
    BY <2>1, <2>2 DEF ShortAddrOf
  <2>4. d \in Devices /\ addr = netAddr[d] /\ netAddr[d] # NoAddr
    BY AddressesTyped DEF Inv, Kept, DevicesTyped, Addressed, AsAddressed
  <2> DEFINE k   == ByShortAddr(db, addr)
             eps == db[k].endpoints
             ep  == ZhaEndpoint(db, addr)
  <2>5. k # 0
    BY <2>1, ByShortAddrFinds
  <2>6. k \in DOMAIN db /\ db[k].ext = d
    BY <2>4, <2>5, FoundIsDevice DEF Addressed
  <2>7. Len(eps) \in Nat /\ DOMAIN eps = 1..Len(eps)
    BY <2>1, <2>6, ListedLength DEF Keyed
  <2>8. ASSUME NEW e \in 1..Len(eps), eps[e].profile = Zha, ep = eps[e].num
        PROVE  ep \in Switchable(d)
    <3>1. TrueOf({d}, eps[e])
      BY <2>6, <2>7 DEF Truth, Truthful, Sources
    <3>2. eps[e].profile # 0
      BY <2>8 DEF Zha
    <3> HIDE DEF eps, d
    <3>3. PICK n \in DOMAIN Descriptors[d] : /\ eps[e].num = Descriptors[d][n].num
                                             /\ eps[e].profile = Descriptors[d][n].profile
      BY <3>1, <3>2 DEF TrueOf, StoredExactly
    <3> QED
      BY <2>8, <3>3 DEF Switchable
  <2>9. ASSUME \A e \in 1..Len(eps) : eps[e].profile # Zha
        PROVE  Switchable(d) = {} \/ ~Learnt(d)
    <3> SUFFICES ASSUME Learnt(d), Switchable(d) # {}
                 PROVE  FALSE
      OBVIOUS
    <3>1. PICK n \in DOMAIN Descriptors[d] : Descriptors[d][n].profile = Zha
      BY DEF Switchable
    <3>2. PICK x \in DOMAIN db : /\ db[x].ext = d
                                 /\ Len(db[x].endpoints) = Len(Descriptors[d])
                                 /\ \A y \in DOMAIN db[x].endpoints :
                                      StoredExactly(d, db[x].endpoints[y], Descriptors[d][y])
      BY DEF Learnt
    <3>3. x = k
      BY <2>1, <2>6, <3>2 DEF Keyed
    <3>4. n \in 1..Len(eps) /\ StoredExactly(d, eps[n], Descriptors[d][n])
      BY <2>4, <2>7, <3>1, <3>2, <3>3, DescriptorsTyped
    <3> QED
      BY <2>9, <3>1, <3>4 DEF StoredExactly
  <2>10. CASE \E e \in 1..Len(eps) : eps[e].profile = Zha /\ ep = eps[e].num
    BY <2>3, <2>4, <2>8, <2>10 DEF Reaches, OnOffTarget
  <2>11. CASE ep = NoEndpoint /\ \A e \in 1..Len(eps) : eps[e].profile # Zha
    BY <2>3, <2>4, <2>9, <2>11 DEF Reaches, OnOffTarget
  <2> QED
    BY <2>5, <2>7, <2>10, <2>11, ZhaEndpointFinds
<1>2. Spec => []Addressed
  BY AddressedInvariance DEF InTurn
<1> QED
  BY <1>1, <1>2, IdentifiersInvariance, TruthInvariance, PTL

-----------------------------------------------------------------------------
(* Once listed, a device is listed in full and stays so *)

Further(base, other) ==
    \A i \in DOMAIN base :
       /\ i \in DOMAIN other /\ other[i].ext = base[i].ext
       /\ Filled(base[i].endpoints, base[i].ext) => Filled(other[i].endpoints, base[i].ext)

LEMMA SameNumbersFilled ==
    ASSUME NEW d, NEW eps, NEW new, DOMAIN new = DOMAIN eps,
           \A e \in DOMAIN eps : new[e].num = eps[e].num, Filled(eps, d)
    PROVE  Filled(new, d)
BY DEF Filled

\* The list a device answers with gives it all of its endpoints.
LEMMA FoldFilled ==
    ASSUME DistinctEndpoints, NEW d \in Devices, NEW eps, eps = <<>> \/ Filled(eps, d)
    PROVE  Filled(FoldLeft(AddEndpoint, eps, NumsOf(d)), d)
<1> DEFINE nums == NumsOf(d)
<1>1. nums \in Seq(Nat \ {0}) /\ DOMAIN nums = DOMAIN Descriptors[d]
  BY DescriptorsTyped
<1>2. \A k \in DOMAIN nums : nums[k] = Descriptors[d][k].num
  BY DEF NumsOf
<1> HIDE DEF nums
<1>3. CASE eps = <<>>
  <2>1. \A i, j \in DOMAIN nums : nums[i] = nums[j] => i = j
    BY <1>1, <1>2 DEF DistinctEndpoints
  <2>2. FoldLeft(AddEndpoint, <<>>, nums) = [k \in DOMAIN nums |-> NewEndpoint(nums[k])]
    BY <1>1, <2>1, FoldFresh
  <2> DEFINE fresh == [k \in DOMAIN nums |-> NewEndpoint(nums[k])]
  <2>3. DOMAIN fresh = DOMAIN Descriptors[d] /\ \A k \in DOMAIN fresh : fresh[k].num = Descriptors[d][k].num
    BY <1>1, <1>2 DEF NewEndpoint
  <2> QED
    BY <1>3, <2>2, <2>3 DEF Filled, nums
<1>4. CASE Filled(eps, d)
  <2>1. \A j \in DOMAIN nums : \E i \in DOMAIN eps : eps[i].num = nums[j]
    BY <1>1, <1>2, <1>4 DEF Filled
  <2>2. FoldLeft(AddEndpoint, eps, nums) = eps
    BY <1>1, <2>1, FoldKnown
  <2> QED
    BY <1>4, <2>2 DEF nums
<1> QED
  BY <1>3, <1>4

LEMMA ListsFurther ==
    ASSUME DistinctEndpoints, Inv, Addressed, Focused, AllOrNone(db), Lists
    PROVE  AllOrNone(db') /\ Further(db, db')
<1>1. PICK m \in Pending("active_rsp") : db' = UpdateEndpoints(db, m.short, m.nums)
  BY DEF Lists
<1>2. PICK d \in Devices : Focus(d)
  BY DEF Focused, Quiet, Pending
<1>3. m.nums = NumsOf(d) /\ m.short = netAddr[d] /\ netAddr[d] # NoAddr
  BY <1>2 DEF Focus, About, Pending
<1>4. m.nums \in Seq(Nat \ {0}) /\ Keyed(db)
  BY <1>3, DescriptorsTyped DEF Inv, Kept
<1> DEFINE k == ByShortAddr(db, m.short)
           more(i) == FoldLeft(AddEndpoint, db[i].endpoints, m.nums)
<1>5. /\ SameDevices(db, db')
      /\ k = 0 \/ m.nums = <<>> => db' = db
      /\ k # 0 /\ m.nums # <<>> => \A i \in DOMAIN db :
           db'[i].endpoints = IF i = k THEN more(i) ELSE db[i].endpoints
  BY <1>1, <1>4, UpdateEndpointsDevices
<1>6. CASE db' = db
  BY <1>6 DEF AllOrNone, Further
<1>7. CASE k # 0 /\ m.nums # <<>>
  <2>1. k \in DOMAIN db /\ db[k].ext = d
    BY <1>3, <1>7, FoundIsDevice DEF Addressed
  <2>2. Filled(more(k), d)
    BY <1>3, <2>1, FoldFilled DEF AllOrNone
  <2> HIDE DEF more, k
  <2>3. \A i \in DOMAIN db' : i \in DOMAIN db /\ db'[i].ext = db[i].ext
    BY <1>5 DEF SameDevices
  <2>4. \A i \in DOMAIN db : i \in DOMAIN db' /\ db'[i].ext = db[i].ext
    BY <1>5 DEF SameDevices
  <2>5. AllOrNone(db')
    BY <1>5, <1>7, <2>1, <2>2, <2>3 DEF AllOrNone
  <2>6. Further(db, db')
    BY <1>5, <1>7, <2>1, <2>2, <2>4 DEF Further
  <2> QED
    BY <2>5, <2>6
<1> QED
  BY <1>5, <1>6, <1>7

LEMMA DescribesFurther ==
    ASSUME Inv, AllOrNone(db), Describes
    PROVE  AllOrNone(db') /\ Further(db, db')
<1>1. PICK m \in Pending("simple_rsp") :
         /\ EndpointIndex(db, learning, m.num) # 0
         /\ db' = UpdateEndpointData(db, learning, m.num, m.profile, m.device_id)
  BY DEF Describes
<1> DEFINE k    == ByShortAddr(db, learning)
           x    == EndpointIndex(db, learning, m.num)
           data == [num |-> m.num, profile |-> m.profile, device_id |-> m.device_id]
           new  == [db[k].endpoints EXCEPT ![x] = data]
<1>2. /\ SameDevices(db, db')
      /\ k \in DOMAIN db /\ x \in DOMAIN db[k].endpoints
      /\ db[k].endpoints[x].num = m.num
      /\ \A i \in DOMAIN db :
           db'[i].endpoints = IF i = k THEN [db[i].endpoints EXCEPT ![x] = data]
                              ELSE db[i].endpoints
  BY <1>1, UpdateEndpointDataDevices DEF Inv, Kept
<1>3. data.num = m.num
  OBVIOUS
<1>4. \A i \in DOMAIN db' : i \in DOMAIN db /\ db'[i].ext = db[i].ext
  BY <1>2 DEF SameDevices
<1>5. \A i \in DOMAIN db : i \in DOMAIN db' /\ db'[i].ext = db[i].ext
  BY <1>2 DEF SameDevices
<1> HIDE DEF k, x, data
<1>6. DOMAIN new = DOMAIN db[k].endpoints /\ \A e \in DOMAIN new : new[e].num = db[k].endpoints[e].num
  BY <1>2, <1>3
<1>7. db'[k].endpoints = new
  BY <1>2
<1> HIDE DEF new
<1>8. Filled(db[k].endpoints, db[k].ext)
  <2>1. db[k].endpoints # <<>>
    <3>1. DOMAIN <<>> = {}
      OBVIOUS
    <3> QED
      BY <1>2, <3>1
  <2> QED
    BY <1>2, <2>1 DEF AllOrNone
<1>9. Filled(new, db[k].ext)
  BY <1>6, <1>8, SameNumbersFilled
<1>10. AllOrNone(db')
  BY <1>2, <1>4, <1>7, <1>9 DEF AllOrNone
<1>11. Further(db, db')
  BY <1>2, <1>5, <1>7, <1>9 DEF Further
<1> QED
  BY <1>10, <1>11

LEMMA GrowsFurther ==
    ASSUME Inv, AllOrNone(db), Grows
    PROVE  AllOrNone(db') /\ Further(db, db')
<1>1. PICK m \in Pending("tc_dev_ind") : /\ ~IsDeviceKnown(db, m.ext) /\ FreeIds(db) # {}
                                         /\ db' = AddDevice(db, m.short, m.ext)
  BY DEF Grows
<1>2. AllOrNone(db')
  BY <1>1, GrownEntries DEF AllOrNone
<1>3. \A i \in DOMAIN db : i \in DOMAIN db' /\ db'[i] = db[i]
  BY <1>1, KeyedLength, AddDeviceKeys DEF Inv, Kept
<1>4. Further(db, db')
  BY <1>3 DEF Further
<1> QED
  BY <1>2, <1>4

LEMMA ReloadsFurther ==
    ASSUME KeepsFile, Inv, AllOrNone(db), Reloaded(file) = Reloaded(db), Reloads
    PROVE  AllOrNone(db') /\ Further(db, db') /\ Reloaded(file') = Reloaded(db')
<1>1. db' = Reloaded(db) /\ file' = file
  BY DEF Reloads
<1>2. /\ SameDevices(db, db') /\ Reloaded(db') = db'
      /\ \A i \in DOMAIN db : db'[i].endpoints = Unnamed(db[i].endpoints)
  BY <1>1, ReloadedDevices DEF Inv, Kept
<1>3. \A i \in DOMAIN db' : i \in DOMAIN db /\ db'[i].ext = db[i].ext
  BY <1>2 DEF SameDevices
<1>4. \A i \in DOMAIN db : i \in DOMAIN db' /\ db'[i].ext = db[i].ext
  BY <1>2 DEF SameDevices
<1>5. ASSUME NEW i \in DOMAIN db
      PROVE  /\ db[i].endpoints = <<>> => db'[i].endpoints = <<>>
             /\ Filled(db[i].endpoints, db[i].ext) => Filled(db'[i].endpoints, db[i].ext)
  <2> DEFINE eps == db[i].endpoints
             new == db'[i].endpoints
  <2>1. Listed(eps) /\ new = Unnamed(eps)
    BY <1>2 DEF Inv, Kept, Keyed
  <2>2. /\ Listed(new) /\ DOMAIN new = DOMAIN eps
        /\ \A e \in DOMAIN eps : new[e].num = eps[e].num
    BY <2>1, UnnamedListed
  <2>3. eps = <<>> => new = <<>>
    BY <2>1 DEF Unnamed
  <2> QED
    BY <2>2, <2>3, SameNumbersFilled
<1>6. AllOrNone(db')
  BY <1>3, <1>5 DEF AllOrNone
<1>7. Further(db, db')
  BY <1>4, <1>5 DEF Further
<1> QED
  BY <1>1, <1>2, <1>6, <1>7

LEMMA ListNext ==
    ASSUME Careful, DistinctEndpoints, Inv, Addressed, Focused, Complete, [Next]_vars
    PROVE  AllOrNone(db') /\ Further(db, db') /\ Reloaded(file') = Reloaded(db')
<1>1. ListMoves /\ KeepsFile
  BY StepStructure DEF Structure, Careful, KeepsFile
<1>2. CASE SameList
  BY <1>2 DEF SameList, Complete, AllOrNone, Further
<1>3. CASE Reloads
  BY <1>1, <1>3, ReloadsFurther DEF Complete
<1>4. CASE Saves /\ (Grows \/ Lists \/ Describes)
  BY <1>1, <1>4, GrowsFurther, ListsFurther, DescribesFurther DEF Saves, Complete
<1> QED
  BY <1>1, <1>2, <1>3, <1>4 DEF ListMoves

LEMMA HasAllStays ==
    ASSUME Further(db, db'), NEW d, HasAll(d)
    PROVE  HasAll(d)'
BY DEF HasAll, Further, Filled

\* The machine asks about endpoints of a device that is listed in full only.
LEMMA QueryAsks ==
    ASSUME Inv', Addressed', AllOrNone(db'), NEW d \in Devices, Focus(d)',
           NEW x, Queried(x), Asks(x)
    PROVE  HasAll(d)'
<1> DEFINE k   == ByShortAddr(db', netAddr'[d])
           eps == db'[k].endpoints
<1>1. learning' = netAddr'[d] /\ netAddr'[d] # NoAddr
  BY DEF Queried, RestStates, Focus
<1>2. NextEmptyEndpoint(db', netAddr'[d]) # 0
  BY <1>1 DEF Queried, QueryOf, ActiveQuery, SimpleQuery, Asks
<1>3. k # 0
  BY <1>2 DEF NextEmptyEndpoint
<1>4. Keyed(db') /\ DevicesTyped(db') /\ OneEach(netAddr')
      /\ \A i \in DOMAIN db' : db'[i].short = netAddr'[db'[i].ext]
  BY DEF Inv, Kept, Addressed, AsAddressed, OneEach
<1>5. k \in DOMAIN db' /\ db'[k].ext = d
  BY <1>1, <1>3, <1>4, FoundIn
<1>6. Len(eps) \in Nat /\ DOMAIN eps = 1..Len(eps)
  BY <1>4, <1>5, ListedLength DEF Keyed
<1>7. \E e \in 1..Len(eps) : eps[e].profile = 0
  BY <1>2, <1>3, <1>6, NextEmptyEndpointFinds
<1>8. eps # <<>>
  BY <1>6, <1>7
<1>9. Filled(eps, d)
  BY <1>5, <1>8 DEF AllOrNone
<1> QED
  BY <1>5, <1>9 DEF HasAll, Filled

\* What asks, or answers, comes from what asked before.
LEMMA ComesAsks ==
    ASSUME NEW x, Comes(x), Asks(x), ~Joined(x)
    PROVE  Queried(x) \/ \E q \in BagToSet(air) : Asks(q)
<1>1. CASE ActiveAnswer(x)
  BY <1>1 DEF ActiveAnswer, ActiveResponse, Asks
<1>2. CASE SimpleAnswer(x)
  <2>1. PICK q, d, i :
          /\ q \in Pending("simple_req") /\ d \in Listeners(q) /\ i \in DOMAIN Descriptors[d]
          /\ Descriptors[d][i].num = q.num
    BY <1>2 DEF SimpleAnswer
  <2>2. q.num # 0
    BY <2>1, DescriptorsTyped DEF Listeners
  <2> QED
    BY <2>1, <2>2 DEF Pending, Asks
<1> QED
  BY <1>1, <1>2 DEF Comes

LEMMA FocusOnAllStays ==
    ASSUME Inv, Addressed, Inv', Addressed', AllOrNone(db'), Further(db, db'),
           NEW d \in Devices, FocusOnAll(d), [Next]_vars,
           UNCHANGED netAddr, \A x \in BagToSet(air') : ~Joined(x)
    PROVE  FocusOnAll(d)'
<1>1. AirMoves
  BY StepStructure DEF Structure
<1>2. Focus(d)'
  BY FocusStays DEF FocusOnAll
<1>3. (\E q \in BagToSet(air) : Asks(q)) => HasAll(d)'
  BY HasAllStays DEF FocusOnAll
<1>4. ASSUME NEW x \in BagToSet(air'), Asks(x) PROVE HasAll(d)'
  <2>1. x \in BagToSet(air) \/ Comes(x)
    BY <1>1 DEF AirMoves
  <2>2. CASE Queried(x)
    BY <1>2, <1>4, <2>2, QueryAsks
  <2> QED
    BY <1>3, <1>4, <2>1, <2>2, ComesAsks
<1> QED
  BY <1>2, <1>4 DEF FocusOnAll, Asks

LEMMA JoinFocusOnAll ==
    ASSUME InTurn, Inv, Addressed, Further(db, db'), Quiet \/ \E d \in Devices : FocusOnAll(d),
           NEW d \in Devices, NEW a \in Addresses, Join(d, a)
    PROVE  FocusOnAll(d)'
<1>1. PICK e : Quiet \/ (e \in Devices /\ FocusOnAll(e))
  OBVIOUS
<1>2. Focus(d)' /\ (BagToSet(air) = {} \/ e = d)
  BY <1>1, JoinFocus DEF FocusOnAll
<1>3. ASSUME NEW x \in BagToSet(air'), Asks(x) PROVE HasAll(d)'
  <2>1. x \in BagToSet(air)
    BY <1>3, WithSpec DEF Join, Announcement, Asks
  <2>2. e = d /\ FocusOnAll(d)
    BY <1>1, <1>2, <2>1 DEF Quiet
  <2> QED
    BY <1>3, <2>1, <2>2, HasAllStays DEF FocusOnAll
<1> QED
  BY <1>2, <1>3 DEF FocusOnAll, Asks

LEMMA CompleteFocused == Complete => Focused
BY DEF Complete, Focused, FocusOnAll

LEMMA CompleteNext ==
    ASSUME Careful, DistinctEndpoints, Inv, Addressed, Complete, [Next]_vars
    PROVE  Complete'
<1>1. AllOrNone(db') /\ Further(db, db') /\ Reloaded(file') = Reloaded(db')
  BY CompleteFocused, ListNext
<1>2. Inv' /\ Addressed'
  BY EveryStep, AddressedNext DEF Step, Careful, InTurn
<1>3. CASE \E d \in Devices, a \in Addresses : Join(d, a)
  <2>1. PICK d \in Devices, a \in Addresses : Join(d, a)
    BY <1>3
  <2>2. FocusOnAll(d)'
    BY <1>1, <2>1, JoinFocusOnAll DEF Complete, Careful
  <2> QED
    BY <1>1, <2>2 DEF Complete, AllOrNone, Filled
<1>4. CASE UNCHANGED netAddr /\ \A x \in BagToSet(air') : ~Joined(x)
  <2>1. Quiet' \/ \E d \in Devices : FocusOnAll(d)'
    BY <1>1, <1>2, <1>4, QuietStays, FocusOnAllStays DEF Complete
  <2> QED
    BY <1>1, <2>1 DEF Complete, AllOrNone, Filled
<1> QED
  BY <1>3, <1>4, JoinOrNot

LEMMA InitComplete == Init => Complete
<1> SUFFICES ASSUME Init PROVE Complete
  OBVIOUS
<1>1. Quiet
  BY DEF Init, Quiet, EmptyBag, BagToSet, SetToBag
<1> QED
  BY <1>1 DEF Init, Complete, AllOrNone

\* When no file is lost either, a device that is asked about an endpoint, or
\* answers, is listed in full: the invariant behind the last theorem.
THEOREM CompleteInvariance ==
    ASSUME Careful, DistinctEndpoints
    PROVE  Spec => []Complete
<1>1. Inv /\ Addressed /\ Complete /\ [Next]_vars => Complete'
  BY CompleteNext
<1>2. Spec => []Addressed
  BY AddressedInvariance DEF Careful, InTurn
<1> QED
  BY <1>1, <1>2, InitComplete, IdentifiersInvariance, PTL DEF Spec

-----------------------------------------------------------------------------
(* The end of a learning *)

LEMMA OnlyAllEnds ==
    ASSUME NEW s \in RestStates, NEW event, event # "ALL_SIMPLE_DESC_RECEIVED"
    PROVE  StateAfter(Transitions, s, event) \in RestStates
<1> DEFINE M == Matches(Transitions, s, event)
<1>1. \A t \in M : t[3] \in RestStates
  BY DEF Matches, Transitions, RestStates
<1> HIDE DEF M
<1>2. M # {} => (CHOOSE t \in M : TRUE) \in M
  OBVIOUS
<1> QED
  BY <1>1, <1>2 DEF StateAfter, M

\* A callback that enters a state of rest does not end the learning.
LEMMA RestGoesOn ==
    ASSUME NEW s \in RestStates, NEW addr, NEW base, NEW rest,
           OnlyEnter(s, addr, rest) \/ SaveThenEnter(base, s, addr, rest)
    PROVE  sm' # "none" \/ up' = FALSE
BY DEF OnlyEnter, SaveThenEnter, Enter, RestStates

LEMMA FinishDescribes ==
    ASSUME Inv, [Next]_vars, Finished
    PROVE  /\ UNCHANGED netAddr
           /\ \E m \in BagToSet(air) : Asks(m)
           /\ NextEmptyEndpoint(db', learning) = 0
<1>1. up /\ up' /\ sm \in RestStates /\ sm # "none" /\ sm' = "none"
  BY DEF Finished, Inv
<1>2. ~LearnNewDevice /\ ~IgnoreDevice /\ ~Crash /\ ~Network /\ vars' # vars
  BY <1>1 DEF LearnNewDevice, IgnoreDevice, Crash, Network, Join, AnswerActive, AnswerSimple,
              Lose, Duplicate, vars, volatile
<1>3. \A reset \in BOOLEAN : ~Boot(reset)
  BY <1>1 DEF Boot
<1>4. ~RestartLearning
  BY <1>1, StartIsActive, RestGoesOn DEF RestartLearning, RestStates
<1>5. ~ActiveEndpointsRsp
  <2>1. After("ACTIVE_ENDPOINTS_RESP") \in RestStates
    BY <1>1, OnlyAllEnds DEF After
  <2> QED
    BY <1>1, <2>1, RestGoesOn DEF ActiveEndpointsRsp
<1>6. SimpleDescRsp
  BY <1>2, <1>3, <1>4, <1>5 DEF Next, Callback, Process
<1> DEFINE new(m)   == UpdateEndpointData(db, learning, m.num, m.profile, m.device_id)
           event(m) == IF NextEmptyEndpoint(new(m), learning) # 0
                         THEN "SIMPLE_DESC_RECEIVED" ELSE "ALL_SIMPLE_DESC_RECEIVED"
<1>7. PICK m \in Pending("simple_rsp") :
         IF EndpointIndex(db, learning, m.num) # 0
           THEN SaveThenEnter(new(m), After(event(m)), learning, Without(m))
           ELSE OnlyEnter(After(event(m)), learning, Without(m))
  BY <1>6 DEF SimpleDescRsp
<1>8. UNCHANGED netAddr
  BY <1>6 DEF SimpleDescRsp, network
<1>9. EndpointIndex(db, learning, m.num) = 0 => new(m) = db
  BY UpdateEndpointDataDevices DEF Inv, Kept
<1> HIDE DEF new
<1>10. After(event(m)) \notin RestStates
  BY <1>1, <1>7, RestGoesOn
<1>11. event(m) = "ALL_SIMPLE_DESC_RECEIVED"
  BY <1>1, <1>10, OnlyAllEnds DEF After
<1>12. NextEmptyEndpoint(new(m), learning) = 0
  BY <1>11
<1>13. db' = new(m)
  BY <1>7, <1>9 DEF SaveThenEnter, OnlyEnter, stored
<1>14. m \in BagToSet(air) /\ Asks(m)
  BY DEF Pending, Asks
<1> QED
  BY <1>8, <1>12, <1>13, <1>14

LEMMA FinishLearns ==
    ASSUME Careful, DistinctEndpoints, Inv, Addressed, Truth, Complete, [Next]_vars, Finished
    PROVE  \E d \in Devices : netAddr[d] = learning /\ Learnt(d)'
<1>1. /\ UNCHANGED netAddr
      /\ \E m \in BagToSet(air) : Asks(m)
      /\ NextEmptyEndpoint(db', learning) = 0
  BY FinishDescribes
<1>2. PICK d \in Devices : FocusOnAll(d)
  BY <1>1 DEF Complete, Quiet
<1>3. netAddr[d] = learning /\ netAddr[d] # NoAddr
  BY <1>2 DEF FocusOnAll, Focus, Finished
<1>4. HasAll(d)'
  BY <1>1, <1>2, CompleteFocused, ListNext, HasAllStays DEF FocusOnAll
<1>5. Inv' /\ Addressed' /\ Truth'
  BY EveryStep, AddressedNext, TruthNext DEF Step, Careful, InTurn
<1>6. /\ Keyed(db') /\ DevicesTyped(db') /\ OneEach(netAddr')
      /\ \A i \in DOMAIN db' : db'[i].short = netAddr'[db'[i].ext]
  BY <1>5 DEF Inv, Kept, Addressed, AsAddressed, OneEach
<1>7. PICK i \in DOMAIN db' : db'[i].ext = d /\ Filled(db'[i].endpoints, d)
  BY <1>4 DEF HasAll, Filled
<1> DEFINE k   == ByShortAddr(db', learning)
           eps == db'[i].endpoints
<1>8. k # 0
  BY <1>1, <1>3, <1>6, <1>7, KeyedLength, ByShortAddrFinds
<1>9. k = i
  <2>1. k = ByShortAddr(db', netAddr'[d]) /\ netAddr'[d] # NoAddr
    BY <1>1, <1>3
  <2> HIDE DEF k
  <2>2. k \in DOMAIN db' /\ db'[k].ext = d
    BY <1>6, <1>8, <2>1, FoundIn
  <2> QED
    BY <1>6, <1>7, <2>2 DEF Keyed
<1>10. Len(eps) \in Nat /\ DOMAIN eps = 1..Len(eps)
  BY <1>6, ListedLength DEF Keyed
<1>11. \A e \in DOMAIN eps : e \in DOMAIN Descriptors[d] /\ eps[e].num = Descriptors[d][e].num /\ eps[e].num # 0
  BY <1>7, DescriptorsTyped DEF Filled
<1>12. \A e \in DOMAIN eps : eps[e].profile # 0
  BY <1>1, <1>8, <1>9, <1>10, <1>11, NextEmptyEndpointFinds
<1>13. ASSUME NEW e \in DOMAIN eps PROVE StoredExactly(d, eps[e], Descriptors[d][e])
  <2>1. TrueOf({d}, eps[e])
    BY <1>5, <1>7 DEF Truth, Truthful, Sources, TrueOf, StoredExactly
  <2>2. PICK n \in DOMAIN Descriptors[d] : StoredExactly(d, eps[e], Descriptors[d][n])
    BY <1>12, <2>1 DEF TrueOf
  <2>3. n = e
    BY <1>11, <2>2 DEF StoredExactly, DistinctEndpoints
  <2> QED
    BY <2>2, <2>3
<1>14. Len(eps) = Len(Descriptors[d])
  <2> DEFINE n == Len(eps)
             l == Len(Descriptors[d])
  <2>1. n \in Nat /\ l \in Nat /\ 1..n = 1..l
    BY <1>7, <1>10, DescriptorsTyped DEF Filled
  <2> HIDE DEF n, l
  <2>2. n \in 1..l \/ n = 0
    BY <2>1
  <2>3. l \in 1..n \/ l = 0
    BY <2>1
  <2>4. n <= l /\ l <= n
    BY <2>1, <2>2, <2>3
  <2>5. n = l
    BY <2>1, <2>4
  <2> QED
    BY <2>5 DEF n, l
<1>15. Learnt(d)'
  BY <1>7, <1>13, <1>14 DEF Learnt, StoredExactly
<1> QED
  BY <1>3, <1>15

\* A learning ends when the device at its address is learnt completely, with
\* every endpoint and its profile (core.c:282-294), whatever is lost or repeated
\* on the air and whenever the gateway is killed between two callbacks.
THEOREM FinishMeansLearntCorrectness ==
    ASSUME Careful, DistinctEndpoints
    PROVE  Spec => FinishMeansLearnt
<1>1. Inv /\ Addressed /\ Truth /\ Complete /\ [Next]_vars
        => [Finished => \E d \in Devices : netAddr[d] = learning /\ Learnt(d)']_vars
  BY FinishLearns
<1>2. (Spec => []Addressed) /\ (Spec => []Truth)
  BY AddressedInvariance, TruthInvariance DEF Careful, InTurn
<1>3. Spec => []Complete
  BY CompleteInvariance
<1> QED
  BY <1>1, <1>2, <1>3, IdentifiersInvariance, PTL DEF Spec, FinishMeansLearnt
=============================================================================
