----------------------------- MODULE LearnDevice -----------------------------
(***************************************************************************)
(* How the gateway installs a device: the learning machine of              *)
(* src/core.c, the ZDP and MT ZDO callbacks that drive it, the database    *)
(* it fills (DeviceStore) with the file behind it, and the devices on the  *)
(* air that announce themselves and answer.                                *)
(*                                                                         *)
(* A callback runs to its end, save included; between two of them messages *)
(* of any device may arrive in any order.  The queries pass no callback to *)
(* the APS layer, so the acknowledgement of the dongle plays no part.      *)
(***************************************************************************)
EXTENDS DeviceStore, Bags, StateMachine

CONSTANTS
    Devices,       \* extended addresses
    Addresses,     \* short addresses the network hands out
    Descriptors,   \* for every device, its simple descriptors
    PathHasSlash,  \* does device_list_path name a directory and a file in it?
    OneAtATime,    \* does the installer wait for the end of one learning, or until
                   \* nothing happens any more before the same device tries again?
    MaxJoins,      \* bound: announcements
    MaxAir,        \* bound: messages beyond which none is duplicated
    Faults

FaultKinds == {"loss", "duplicate",  \* of a message on the air
               "reannounce",         \* a device announces itself while it is learnt
               "new_address",        \* a device comes back under another address
               "crash",              \* the gateway is killed between two callbacks,
               "torn_save",          \* or while it writes the file
               "reset"}              \* it is started with -r

ASSUME LearnDeviceAssumption ==
    /\ Addresses \subseteq Nat \ {NoAddr}
    /\ \A d \in Devices :
         Descriptors[d] \in Seq([num : Nat \ {0}, profile : Nat, device_id : Nat])
    /\ PathHasSlash \in BOOLEAN
    /\ OneAtATime \in BOOLEAN
    /\ MaxJoins \in Nat
    /\ MaxAir \in Nat
    /\ Faults \subseteq FaultKinds

VARIABLES
    sm,        \* state of _new_device_sm, "none" when it is NULL
    learning,  \* _current_learning_device_addr
    db,        \* _device_list
    file,      \* what the file at device_list_path holds, <<>> when unreadable
    up,        \* does the gateway run?
    air,       \* bag of the messages under way
    netAddr,   \* short address every device has on the network
    joins,     \* announcements so far
    owed       \* history: devices that announced themselves to a gateway able to
               \* learn them, with no mishap since

volatile == <<sm, learning>>
stored   == <<db, file>>
network  == <<netAddr, joins>>
vars     == <<volatile, stored, up, air, network, owed>>

-----------------------------------------------------------------------------
(* Messages *)

Announcement(d, a)      == [type |-> "tc_dev_ind", short |-> a, ext |-> d]
ActiveQuery(a)          == [type |-> "active_req", short |-> a]
SimpleQuery(a, num)     == [type |-> "simple_req", short |-> a, num |-> num]
ActiveResponse(d, a)    == [type |-> "active_rsp", short |-> a,
                            nums |-> [i \in DOMAIN Descriptors[d] |-> Descriptors[d][i].num]]
SimpleResponse(desc)    == [type |-> "simple_rsp", num |-> desc.num,
                            profile |-> desc.profile, device_id |-> desc.device_id]

Pending(type) == {m \in BagToSet(air) : m.type = type}
Without(m)    == air (-) SetToBag({m})
With(bag, m)  == bag (+) SetToBag({m})

-----------------------------------------------------------------------------
(* The machine *)

Transitions_no_end_variant ==
    {<<"INIT",                 "INIT_DONE",                "ACTIVE_ENDPOINT_DISC">>,
     <<"ACTIVE_ENDPOINT_DISC", "ACTIVE_ENDPOINTS_RESP",    "SIMPLE_DESC_DISC">>,
     <<"SIMPLE_DESC_DISC",     "SIMPLE_DESC_RECEIVED",     "SIMPLE_DESC_DISC">>}
Transitions ==
    {<<"INIT",                 "INIT_DONE",                "ACTIVE_ENDPOINT_DISC">>,
     <<"ACTIVE_ENDPOINT_DISC", "ACTIVE_ENDPOINTS_RESP",    "SIMPLE_DESC_DISC">>,
     <<"SIMPLE_DESC_DISC",     "SIMPLE_DESC_RECEIVED",     "SIMPLE_DESC_DISC">>,
     <<"SIMPLE_DESC_DISC",     "ALL_SIMPLE_DESC_RECEIVED", "SHUTDOWN">>}

RestStates == {"ACTIVE_ENDPOINT_DISC", "SIMPLE_DESC_DISC"}

QueryOf_first_variant(s, addr, newDb) ==
    IF s = "ACTIVE_ENDPOINT_DISC" THEN ActiveQuery(addr) ELSE SimpleQuery(addr, 1)

\* The query the entry function of a state sends about the device at addr.
QueryOf(s, addr, newDb) ==
    IF s = "ACTIVE_ENDPOINT_DISC" THEN ActiveQuery(addr)
    ELSE SimpleQuery(addr, NextEmptyEndpoint(newDb, addr))

\* Without a machine an event changes nothing.
After(event) == IF sm = "none" THEN "none" ELSE StateAfter(Transitions, sm, event)

Enter_kept_variant(s, addr, newDb, rest) ==
    \/ /\ s \in {"none", "SHUTDOWN"}
       /\ sm' = "none"
       /\ learning' = learning
       /\ air' = rest
    \/ /\ s \in RestStates
       /\ sm' = s
       /\ learning' = addr
       /\ air' = With(rest, QueryOf(s, addr, newDb))

\* The machine enters s, or s once more; the messages left are rest.
Enter(s, addr, newDb, rest) ==
    \/ /\ s \in {"none", "SHUTDOWN"}
       /\ sm' = "none"
       /\ learning' = IF s = "none" THEN learning ELSE NoAddr
       /\ air' = rest
    \/ /\ s \in RestStates
       /\ sm' = s
       /\ learning' = addr
       /\ air' = With(rest, QueryOf(s, addr, newDb))

-----------------------------------------------------------------------------
(* The file.  zg_device_init calls dirname on the configured path, which   *)
(* cuts it where it stands: with a slash in it, the path names a directory *)
(* from then on, which cannot be loaded, written or unlinked.              *)

Written(newDb)  == IF PathHasSlash THEN file ELSE newDb
Loaded          == IF PathHasSlash THEN <<>> ELSE Reloaded(file)
Removed_kept_variant == file
Removed         == IF PathHasSlash THEN file ELSE <<>>

SaveThenEnter_late_variant(newDb, s, addr, rest) ==
    /\ db' = newDb
    /\ file' = Written(db)
    /\ UNCHANGED <<up, owed>>
    /\ Enter(s, addr, newDb, rest)

\* _save_device_list rewrites the file in place: killed meanwhile, the gateway
\* leaves one that does not parse.
SaveThenEnter(newDb, s, addr, rest) ==
    \/ /\ db' = newDb
       /\ file' = Written(newDb)
       /\ UNCHANGED <<up, owed>>
       /\ Enter(s, addr, newDb, rest)
    \/ /\ "torn_save" \in Faults /\ ~PathHasSlash
       /\ db' = newDb
       /\ file' = <<>>
       /\ up' = FALSE
       /\ owed' = {}
       /\ air' = rest
       /\ UNCHANGED volatile

OnlyEnter(s, addr, rest) == UNCHANGED <<stored, up, owed>> /\ Enter(s, addr, db, rest)

-----------------------------------------------------------------------------
(* The callbacks of the gateway *)

Start == StateAfter(Transitions, "INIT", "INIT_DONE")

\* _new_device_cb: a device nobody knows is added and learnt, unless another
\* one is being learnt; the one being learnt starts again; others are ignored.
\* zg_add_device does not save when the database is full.
LearnNewDevice ==
    /\ up
    /\ sm = "none"
    /\ \E m \in Pending("tc_dev_ind") :
         /\ ~IsDeviceKnown(db, m.ext)
         /\ IF FreeIds(db) = {}
              THEN OnlyEnter(Start, m.short, Without(m))
              ELSE SaveThenEnter(AddDevice(db, m.short, m.ext), Start, m.short, Without(m))
    /\ UNCHANGED network

RestartLearning ==
    /\ up
    /\ sm # "none"
    /\ \E m \in Pending("tc_dev_ind") :
         /\ m.short = learning
         /\ OnlyEnter(Start, m.short, Without(m))
    /\ UNCHANGED network

Ignored(m) == IF sm = "none" THEN IsDeviceKnown(db, m.ext) ELSE m.short # learning

IgnoreDevice ==
    /\ up
    /\ \E m \in Pending("tc_dev_ind") :
         /\ Ignored(m)
         /\ air' = Without(m)
    /\ UNCHANGED <<volatile, stored, up, network, owed>>

\* _active_endpoints_cb: whoever answered, the machine takes it for the device
\* it is learning.
ActiveEndpointsRsp ==
    /\ up
    /\ \E m \in Pending("active_rsp") :
         LET s == After("ACTIVE_ENDPOINTS_RESP")
         IN  IF ByShortAddr(db, m.short) # 0 /\ m.nums # <<>>
               THEN SaveThenEnter(UpdateEndpoints(db, m.short, m.nums), s, learning, Without(m))
               ELSE OnlyEnter(s, learning, Without(m))
    /\ UNCHANGED network

SimpleDescRsp_one_variant ==
    /\ up
    /\ \E m \in Pending("simple_rsp") :
         SaveThenEnter(UpdateEndpointData(db, learning, m.num, m.profile, m.device_id),
                       After("ALL_SIMPLE_DESC_RECEIVED"), learning, Without(m))
    /\ UNCHANGED network

\* _simple_desc_cb: a descriptor says which endpoint it describes and not of
\* which device.
SimpleDescRsp ==
    /\ up
    /\ \E m \in Pending("simple_rsp") :
         LET newDb == UpdateEndpointData(db, learning, m.num, m.profile, m.device_id)
             s     == After(IF NextEmptyEndpoint(newDb, learning) # 0
                              THEN "SIMPLE_DESC_RECEIVED" ELSE "ALL_SIMPLE_DESC_RECEIVED")
         IN  IF EndpointIndex(db, learning, m.num) # 0
               THEN SaveThenEnter(newDb, s, learning, Without(m))
               ELSE OnlyEnter(s, learning, Without(m))
    /\ UNCHANGED network

\* zg_core_init, as far as the database goes.
Boot(reset) ==
    /\ ~up
    /\ reset => "reset" \in Faults
    /\ up' = TRUE
    /\ sm' = "none"
    /\ learning' = NoAddr
    /\ db' = IF reset THEN <<>> ELSE Loaded
    /\ file' = IF reset THEN Removed ELSE file
    /\ UNCHANGED <<air, network, owed>>

Crash ==
    /\ up
    /\ "crash" \in Faults
    /\ up' = FALSE
    /\ owed' = {}
    /\ UNCHANGED <<volatile, stored, air, network>>

-----------------------------------------------------------------------------
(* The devices and the air *)

\* The end a correct learning reaches: every endpoint of the device is
\* stored, with the profile the device has there.
StoredExactly(d, e, desc) == e.num = desc.num /\ e.profile = desc.profile
Learnt(d) ==
    \E i \in DOMAIN db :
       /\ db[i].ext = d
       /\ Len(db[i].endpoints) = Len(Descriptors[d])
       /\ \A e \in DOMAIN db[i].endpoints :
            StoredExactly(d, db[i].endpoints[e], Descriptors[d][e])

\* Can the gateway learn d, all of it, when it announces itself at a?  Not while
\* it is down; nor, for sure, when messages of an earlier attempt are still under
\* way; nor a device that was half learnt when it was killed, which it knows; nor
\* one the database has no room for; nor one with no endpoint, or none left, to
\* ask for, as it then waits for the descriptor of endpoint 0.
Learnable(d, a) ==
    /\ up /\ air = EmptyBag
    /\ IF IsDeviceKnown(db, d) THEN learning = a ELSE FreeIds(db) # {}
    /\ Descriptors[d] # <<>> /\ ~Learnt(d)

\* A device joins, or comes back, and the dongle announces it.
Join(d, a) ==
    /\ joins < MaxJoins
    /\ OneAtATime =>
         \/ air = EmptyBag /\ (sm = "none" \/ netAddr[d] = learning)
         \/ "reannounce" \in Faults /\ sm # "none" /\ netAddr[d] = learning
    /\ \A other \in Devices \ {d} : netAddr[other] # a
    /\ netAddr[d] \in {NoAddr, a} \/ "new_address" \in Faults
    /\ joins' = joins + 1
    /\ netAddr' = [netAddr EXCEPT ![d] = a]
    /\ air' = With(air, Announcement(d, a))
    /\ owed' = IF Learnable(d, a) THEN owed \cup {d} ELSE owed \ {d}
    /\ UNCHANGED <<volatile, stored, up>>

\* The device at the address of a query, if there is one, answers.
Listeners(m) == {d \in Devices : netAddr[d] = m.short}

AnswerActive ==
    /\ \E m \in Pending("active_req") : \E d \in Listeners(m) :
         air' = With(Without(m), ActiveResponse(d, m.short))
    /\ UNCHANGED <<volatile, stored, up, network, owed>>

AnswerSimple ==
    /\ \E m \in Pending("simple_req") : \E d \in Listeners(m) :
         \E i \in DOMAIN Descriptors[d] :
           /\ Descriptors[d][i].num = m.num
           /\ air' = With(Without(m), SimpleResponse(Descriptors[d][i]))
    /\ UNCHANGED <<volatile, stored, up, network, owed>>

\* A response with an error status (the endpoint does not exist) is dropped by
\* MT ZDO; a query to an address nobody has gets none.
Vain(m) ==
    \/ /\ m.type = "active_req"
       /\ Listeners(m) = {}
    \/ /\ m.type = "simple_req"
       /\ \A d \in Listeners(m) : \A i \in DOMAIN Descriptors[d] : Descriptors[d][i].num # m.num

\* Nobody listens to the dongle while the gateway is down.
Lose ==
    /\ \E m \in BagToSet(air) :
         /\ Vain(m) \/ ~up \/ "loss" \in Faults
         /\ air' = Without(m)
         /\ owed' = IF Vain(m) THEN owed ELSE {}
    /\ UNCHANGED <<volatile, stored, up, network>>

Duplicate ==
    /\ "duplicate" \in Faults
    /\ BagCardinality(air) < MaxAir
    /\ \E m \in BagToSet(air) : air' = With(air, m)
    /\ owed' = {}
    /\ UNCHANGED <<volatile, stored, up, network>>

Init ==
    /\ sm = "none"
    /\ learning = NoAddr
    /\ db = <<>>
    /\ file = <<>>
    /\ up = TRUE
    /\ air = EmptyBag
    /\ netAddr = [d \in Devices |-> NoAddr]
    /\ joins = 0
    /\ owed = {}

Callback == \/ LearnNewDevice \/ RestartLearning \/ IgnoreDevice
            \/ ActiveEndpointsRsp \/ SimpleDescRsp
Process  == Crash \/ \E reset \in BOOLEAN : Boot(reset)
Network  == \/ \E d \in Devices : \E a \in Addresses : Join(d, a)
            \/ AnswerActive \/ AnswerSimple \/ Lose \/ Duplicate
Next     == Callback \/ Process \/ Network

Spec == Init /\ [][Next]_vars

\* The loop reads what the dongle sends, and devices answer.  The first is
\* WF_vars(Callback) with the condition that enables it written out: some
\* callback takes every report of the dongle, and always off the air.
CallbackDue == up /\ \E m \in BagToSet(air) : m.type \in {"tc_dev_ind", "active_rsp", "simple_rsp"}
LoopReads   == []<>~CallbackDue \/ []<><<Callback>>_vars
FairSpec    == Spec /\ LoopReads /\ WF_vars(AnswerActive \/ AnswerSimple)

-----------------------------------------------------------------------------
(* Properties *)

TypeOK ==
    /\ sm \in RestStates \cup {"none"}
    /\ learning \in Addresses \cup {NoAddr}
    /\ \A i \in DOMAIN db : db[i].ext \in Devices /\ db[i].short \in Addresses
    /\ IsABag(air)
    /\ netAddr \in [Devices -> Addresses \cup {NoAddr}]
    /\ joins \in 0..MaxJoins
    /\ owed \subseteq Devices

\* An event names the device whose report it passes on, or none: the reports
\* carry a short address, and the identifier is looked up when they arrive.
ReportedId(d) == IdOf(db, netAddr[d])
EventsNameTheirDevice ==
    \A d \in Devices : \A i \in DOMAIN db :
       netAddr[d] # NoAddr /\ db[i].id = ReportedId(d) => db[i].ext = d

\* A client's command to switch a device names an identifier.  What leaves in the
\* end is for the address the device has, and for an endpoint of its that can be
\* switched; for endpoint 255 only when it has none, or is not learnt to the end:
\* the command is not refused then but sent to 255 (device.c:640-655,
\* zha.c:260-274).
OnOffTarget(id) == [addr |-> ShortAddrOf(db, id), ep |-> ZhaEndpoint(db, ShortAddrOf(db, id))]
Switchable(d) ==
    {Descriptors[d][k].num : k \in {n \in DOMAIN Descriptors[d] : Descriptors[d][n].profile = Zha}}
Reaches(d, target) ==
    /\ target.addr = netAddr[d]
    /\ \/ target.ep \in Switchable(d)
       \/ target.ep = NoEndpoint /\ (Switchable(d) = {} \/ ~Learnt(d))
Settled == up /\ sm = "none" /\ air = EmptyBag
CommandsReachTheirDevice ==
    Settled => \A i \in DOMAIN db : Reaches(db[i].ext, OnOffTarget(db[i].id))

\* However often devices announce themselves and answer, whatever is lost and
\* whenever the gateway is killed, a device is in the database once, an
\* identifier is one device's, and an endpoint is listed once.
DbWellFormed == WellFormed(db)

\* The file never lags behind: what a restart would load is what clients are
\* shown now, but for the device identifiers of endpoints.  That is so with a
\* plain path.  With a slash in it, as in the sample configuration, dirname cuts
\* the path (device.c:471) and there is never anything to load.
FileFollows == up => Reloaded(file) = IF PathHasSlash THEN <<>> ELSE Reloaded(db)

\* The machine and the address it learns live and die together, and the device
\* it learns is one the database can store the answers for.
LearningIsStored ==
    /\ sm = "none" <=> learning = NoAddr
    /\ up /\ sm # "none" /\ Len(db) < MaxId => ByShortAddr(db, learning) # 0

\* A profile shown to a client is one a device of ds has, at that endpoint.
TrueOf(ds, x) ==
    x.profile # 0 =>
      \E d \in ds : \E k \in DOMAIN Descriptors[d] :
        /\ StoredExactly(d, x, Descriptors[d][k])
        /\ x.device_id \in {0, Descriptors[d][k].device_id}

\* A profile shown to a client is one the device has, at that endpoint.  A
\* descriptor does not say which device it is of (core.c:287): this is so when
\* devices join one at a time.
DescriptorsTruthful ==
    \A i \in DOMAIN db : \A e \in DOMAIN db[i].endpoints : TrueOf({db[i].ext}, db[i].endpoints[e])

\* With devices joining at any time a descriptor may be stored under a device it
\* is not of, but never at another endpoint than the one it describes, nor mixed
\* with another: what is shown was told, whole, by some device.
DescriptorsWhole ==
    \A i \in DOMAIN db : \A e \in DOMAIN db[i].endpoints : TrueOf(Devices, db[i].endpoints[e])

\* The machine ends a learning only when it has learnt the device at its
\* address completely (new_device_join.plantuml: AllEndpointsDiscovered).
Finished == up /\ up' /\ sm # "none" /\ sm' = "none"
FinishMeansLearnt ==
    [][Finished => \E d \in Devices : netAddr[d] = learning /\ Learnt(d)']_vars

\* A device that announces itself is learnt in the end, unless something is
\* lost or repeated on the way or the gateway is killed.  Announcing itself once
\* more makes up for a loss: a learning that was cut short starts again.
AnnouncedAreLearnt == \A d \in Devices : d \in owed ~> Learnt(d) \/ d \notin owed

\* The learning of such a device comes to its end, and the machine is free
\* again for the next.
LearnsOwed   == up /\ \E d \in owed : netAddr[d] = learning
LearningEnds == LearnsOwed ~> ~LearnsOwed

\* Identifiers stay with their devices: LearnDevice implements Registry, which
\* may forget all of them when the file may be torn, is removed, or never was.
Owner == {<<db[i].id, db[i].ext>> : i \in DOMAIN db}
Promise == INSTANCE Registry WITH
    Ids <- 0..MaxId - 1, owner <- Owner, running <- up,
    MayForget <- PathHasSlash \/ Faults \cap {"torn_save", "reset"} # {}
IdentifiersStay == Promise!Spec

\* The same with nothing forgotten.
Durable == INSTANCE Registry WITH
    Ids <- 0..MaxId - 1, owner <- Owner, running <- up, MayForget <- FALSE
DevicesSurvive == Durable!Spec
=============================================================================
