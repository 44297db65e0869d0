----------------------------- MODULE DeviceStore -----------------------------
(***************************************************************************)
(* The device database of src/devices/device.c as a value and the          *)
(* operations on it.  A database is the sequence of its devices, in the    *)
(* order of _device_list; a device keeps its endpoints in the order they   *)
(* were listed.  Every search takes the first match, as the code's loops   *)
(* do, so which of two devices with one short address is found is part of  *)
(* the model.                                                              *)
(***************************************************************************)
EXTENDS Naturals, Sequences, SequencesExt

CONSTANT MaxId  \* ZG_DEVICE_ID_MAX: identifiers are 0 .. MaxId - 1

NoAddr == 65533  \* 0xFFFD, "no such device"
NoId   == 255    \* 0xFF, likewise

ASSUME DeviceStoreAssumption == MaxId \in 0..NoId

Zha    == 260    \* 0x0104, the profile of home automation

NewEndpoint(num) == [num |-> num, profile |-> 0, device_id |-> 0]

NewDevice_swapped_variant(id, short, ext) ==
    [id |-> id, short |-> ext, ext |-> short, endpoints |-> <<>>]
NewDevice(id, short, ext) ==
    [id |-> id, short |-> short, ext |-> ext, endpoints |-> <<>>]

-----------------------------------------------------------------------------
(* Queries: an index is 0 when nothing matches *)

ByShortAddr(db, short) == SelectInSeq(db, LAMBDA d : d.short = short)
ByExtAddr(db, ext)     == SelectInSeq(db, LAMBDA d : d.ext = ext)
ById(db, id)           == SelectInSeq(db, LAMBDA d : d.id = id)

IsDeviceKnown(db, ext) == \E i \in DOMAIN db : db[i].ext = ext

ShortAddrOf(db, id) == IF ById(db, id) = 0 THEN NoAddr ELSE db[ById(db, id)].short

IdOf_place_variant(db, short) ==
    IF ByShortAddr(db, short) = 0 THEN NoId ELSE ByShortAddr(db, short)
IdOf(db, short) == IF ByShortAddr(db, short) = 0 THEN NoId ELSE db[ByShortAddr(db, short)].id

\* The endpoint a command to switch a device goes to, NoEndpoint when it has
\* none: the -1 of the code as it leaves in a frame.
NoEndpoint == 255

ZhaEndpoint_any_variant(db, short) ==
    LET i == ByShortAddr(db, short)
    IN  IF i = 0 \/ db[i].endpoints = <<>> THEN NoEndpoint ELSE db[i].endpoints[1].num
ZhaEndpoint(db, short) ==
    LET i == ByShortAddr(db, short)
        e == IF i = 0 THEN 0 ELSE SelectInSeq(db[i].endpoints, LAMBDA x : x.profile = Zha)
    IN  IF e = 0 THEN NoEndpoint ELSE db[i].endpoints[e].num

\* Endpoint 0 stands for "none": it is ZDP's, and no application endpoint.
NextEmptyEndpoint(db, short) ==
    LET i == ByShortAddr(db, short)
        e == IF i = 0 THEN 0 ELSE SelectInSeq(db[i].endpoints, LAMBDA x : x.profile = 0)
    IN  IF e = 0 THEN 0 ELSE db[i].endpoints[e].num

-----------------------------------------------------------------------------
(* Updates *)

UsedIds(db) == {db[i].id : i \in DOMAIN db}
FreeIds(db) == (0..MaxId - 1) \ UsedIds(db)

NextFreeId_last_variant(db) == IF db = <<>> THEN 0 ELSE Len(db) - 1
NextFreeId(db) == CHOOSE id \in FreeIds(db) : \A other \in FreeIds(db) : id <= other

\* zg_add_device: a full database stays as it is.
AddDevice(db, short, ext) ==
    IF IsDeviceKnown(db, ext) THEN [db EXCEPT ![ByExtAddr(db, ext)].short = short]
    ELSE IF FreeIds(db) = {} THEN db
    ELSE Append(db, NewDevice(NextFreeId(db), short, ext))

AddEndpoint_again_variant(endpoints, num) == Append(endpoints, NewEndpoint(num))
AddEndpoint(endpoints, num) ==
    IF \E i \in DOMAIN endpoints : endpoints[i].num = num
      THEN endpoints
      ELSE Append(endpoints, NewEndpoint(num))

UpdateEndpoints(db, short, nums) ==
    LET i == ByShortAddr(db, short)
    IN  IF i = 0 \/ nums = <<>> THEN db
        ELSE [db EXCEPT ![i].endpoints = FoldLeft(AddEndpoint, @, nums)]

\* The place of endpoint num in the list of the device found at short.
EndpointIndex(db, short, num) ==
    LET i == ByShortAddr(db, short)
    IN  IF i = 0 THEN 0 ELSE SelectInSeq(db[i].endpoints, LAMBDA x : x.num = num)

UpdateEndpointData_next_variant(db, short, num, profile, device_id) ==
    LET i == ByShortAddr(db, short)
        e == IF i = 0 THEN 0 ELSE SelectInSeq(db[i].endpoints, LAMBDA x : x.profile = 0)
    IN  IF e = 0 THEN db
        ELSE [db EXCEPT ![i].endpoints[e] =
                 [@ EXCEPT !.profile = profile, !.device_id = device_id]]

UpdateEndpointData(db, short, num, profile, device_id) ==
    LET i == ByShortAddr(db, short)
        e == EndpointIndex(db, short, num)
    IN  IF e = 0 THEN db
        ELSE [db EXCEPT ![i].endpoints[e] =
                 [num |-> num, profile |-> profile, device_id |-> device_id]]

\* What a file holding db gives back: _load_endpoint_data checks that the
\* device identifier of an endpoint is there, and leaves it out.
Reloaded(db) ==
    [i \in DOMAIN db |->
        [db[i] EXCEPT !.endpoints =
            [e \in DOMAIN db[i].endpoints |-> [db[i].endpoints[e] EXCEPT !.device_id = 0]]]]

-----------------------------------------------------------------------------

\* No two devices share an identifier or an extended address, identifiers are
\* handed out in order, and a device lists an endpoint once.
WellFormed(db) ==
    /\ Len(db) <= MaxId
    /\ \A i \in DOMAIN db : db[i].id = i - 1
    /\ \A i, j \in DOMAIN db : db[i].ext = db[j].ext => i = j
    /\ \A i \in DOMAIN db : IsInjective([e \in DOMAIN db[i].endpoints |-> db[i].endpoints[e].num])
=============================================================================
