----------------------------- MODULE GatewayInit -----------------------------
(***************************************************************************)
(* The start of the gateway: the action lists of src/core.c and of the     *)
(* profiles, which send the dongle one request after the other; the MT     *)
(* layers, each with one slot for the callback of "the" request under way; *)
(* the network key on the host; and the dongle, with the memory that       *)
(* survives its restarts and the one that does not.                        *)
(*                                                                         *)
(* Touchlink and the learning of devices have modules of their own; of the *)
(* commands, the one that opens the network is here, because it shares a   *)
(* slot with the lists and does not wait for their end.                    *)
(***************************************************************************)
EXTENDS Naturals, Sequences, FiniteSets

CONSTANTS
    MaxBoots,  \* bound: starts of the program, and so keys it generates
    MaxLink,   \* bound: frames on the link beyond which nothing unsolicited is added
    MaxRefused,  \* bound: requests the dongle stands refusing
    Faults

FaultKinds == {"lost_write",     \* tcflush(TCOFLUSH) drops the frame just written
               "refused",        \* the dongle answers with a failure, and does nothing
               "no_key",         \* no key can be generated
               "no_store",       \* the key is generated, its file cannot be created
               "early_command",  \* the network is opened before the lists are through
               "dongle_reset",   \* the dongle restarts by itself (watchdog)
               "crash"}          \* the gateway may stop before they are through

ASSUME GatewayInitAssumption ==
    /\ MaxBoots \in Nat
    /\ MaxLink \in Nat
    /\ MaxRefused \in Nat
    /\ Faults \subseteq FaultKinds

VARIABLES
    up,           \* does the gateway run?
    initialized,  \* _initialized, until the next start
    list,         \* which list the core runs: "reset" or "restart"
    pos,          \* current_state_index of the lists, counted from 1
    slot,         \* sync_action_cb of mt_sys.c, mt_af.c, mt_util.c and mt_zdo.c
    key,          \* nwk_key of keys.c, named after the start that made it; 0 for NULL
    keyFile,      \* the start whose key file is on the host, 0 without one
    toZnp,        \* requests written and not yet processed by the dongle
    fromZnp,      \* frames of the dongle the loop has not read yet
    nv,           \* the dongle's memory: pending clear, key, settings written
    znp,          \* what it forgets: endpoints registered, network started
    boots,        \* starts so far
    disturbed,    \* what has interfered with the lists
    refused       \* history: the requests it refused when it was last asked

gateway == <<up, initialized, list, pos, slot, key, keyFile>>
dongle  == <<nv, znp>>
vars    == <<gateway, toZnp, fromZnp, dongle, boots, disturbed, refused>>

-----------------------------------------------------------------------------
(* The lists *)

Lists == [reset   |-> <<"clear", "reset", "nwk_key", "reset", "ext_addr", "coord_flag", "pan_id",
                        "channel", "ping", "subscribe", "zll", "zha", "zdp", "startup", "security",
                        "announce">>,
          restart |-> <<"reset", "ext_addr", "ping", "subscribe", "zll", "zha", "zdp", "startup",
                        "security", "route", "announce">>]

\* The lists of the profiles.  The one of ZDP asks the dongle nothing: it is
\* through within the callback that starts it.
ZllList  == <<"register_zll", "inter_pan_endpoint", "inter_pan_channel">>
ZhaList  == <<"register_zha">>
Profiles_no_channel_variant ==
    [zll |-> <<"register_zll", "inter_pan_endpoint">>, zha |-> ZhaList]
Profiles == [zll |-> ZllList, zha |-> ZhaList]

CoreList == Lists[list]

Settings    == {"coord_flag", "pan_id", "channel", "security"}
AfRequests  == {"register_zll", "inter_pan_endpoint", "inter_pan_channel", "register_zha"}
ZdoRequests == {"startup", "route", "announce", "permit_join"}
Requests    == {"clear", "reset", "nwk_key", "ext_addr", "ping", "subscribe"}
                 \cup Settings \cup AfRequests \cup ZdoRequests
Layers      == {"SYS", "AF", "UTIL", "ZDO"}

\* The MT layer whose slot a request uses, and where its answer arrives.
LayerOf(r) == IF r \in AfRequests THEN "AF" ELSE IF r \in ZdoRequests THEN "ZDO"
              ELSE IF r = "subscribe" THEN "UTIL" ELSE "SYS"

\* zg_rpc_write, whose flush may discard the frame; without a key there is
\* nothing to write.
Write(r) ==
    \/ /\ ~(r = "nwk_key" /\ key = 0)
       /\ toZnp' = Append(toZnp, r)
       /\ UNCHANGED disturbed
    \/ /\ "lost_write" \in Faults \/ (r = "nwk_key" /\ key = 0)
       /\ disturbed' = disturbed \cup {"lost"}
       /\ UNCHANGED toZnp

\* The entry function of a step of list owner: its callback goes into the slot.
Send(owner, newPos, r) ==
    /\ pos' = newPos
    /\ slot' = [slot EXCEPT ![LayerOf(r)] = owner]
    /\ Write(r)
    /\ UNCHANGED initialized

\* _general_init_cb of core.c: the next step, or the end.
NextStep == IF pos.core < Len(CoreList) /\ CoreList[pos.core + 1] = "zdp"
              THEN pos.core + 2 ELSE pos.core + 1

ContinueCore_overrun_variant ==
    IF NextStep > Len(CoreList)
      THEN initialized' = TRUE /\ pos' = [pos EXCEPT !.core = @ + 1]
           /\ UNCHANGED <<slot, toZnp, disturbed>>
    ELSE IF CoreList[NextStep] \in DOMAIN Profiles
      THEN LET p == CoreList[NextStep]
           IN  Send(p, [pos EXCEPT !.core = NextStep, ![p] = 1], Profiles[p][1])
    ELSE Send("core", [pos EXCEPT !.core = NextStep], CoreList[NextStep])

ContinueCore ==
    \/ /\ NextStep > Len(CoreList)
       /\ initialized' = TRUE
       /\ UNCHANGED <<pos, slot, toZnp, disturbed>>
    \/ /\ NextStep <= Len(CoreList)
       /\ CoreList[NextStep] \in DOMAIN Profiles
       /\ LET p == CoreList[NextStep]
          IN  Send(p, [pos EXCEPT !.core = NextStep, ![p] = 1], Profiles[p][1])
    \/ /\ NextStep <= Len(CoreList)
       /\ CoreList[NextStep] \notin DOMAIN Profiles
       /\ Send("core", [pos EXCEPT !.core = NextStep], CoreList[NextStep])

\* The list of a profile that is through, or was long ago, calls the core's.
Through(p) == pos[p] >= Len(Profiles[p])

Call(callback) ==
    \/ /\ callback = "none"
       /\ UNCHANGED <<initialized, pos, slot, toZnp, disturbed>>
    \/ /\ callback \in DOMAIN Profiles
       /\ ~Through(callback)
       /\ Send(callback, [pos EXCEPT ![callback] = @ + 1],
                         Profiles[callback][pos[callback] + 1])
    \/ /\ callback = "core" \/ (callback \in DOMAIN Profiles /\ Through(callback))
       /\ ContinueCore

-----------------------------------------------------------------------------
(* The gateway *)

Init ==
    /\ up = FALSE
    /\ initialized = FALSE
    /\ list = "reset"
    /\ pos = [core |-> 0, zll |-> 0, zha |-> 0]
    /\ slot = [layer \in Layers |-> "none"]
    /\ key = 0
    /\ keyFile = 0
    /\ toZnp = <<>>
    /\ fromZnp = <<>>
    /\ nv = [clear |-> FALSE, key |-> 0, settings |-> {}]
    /\ znp = [endpoints |-> {}, started |-> FALSE]
    /\ boots = 0
    /\ disturbed = {}
    /\ refused = {}

\* zg_keys_init, after the file was removed for the long list: the key and the
\* file.  Without a file a key is generated and stored at once; either may fail.
\* A file that was created and not written counts: only its existence matters,
\* since the short list, the one that loads it, does not send the key.
KeysAfter(l) ==
    LET new == boots + 1
    IN  IF l = "restart" THEN {[key |-> keyFile, file |-> keyFile]}
        ELSE {[key |-> new, file |-> new]}
               \cup (IF "no_key" \in Faults THEN {[key |-> 0, file |-> 0]} ELSE {})
               \cup (IF "no_store" \in Faults THEN {[key |-> new, file |-> 0]} ELSE {})

Boot_key_kept_variant(reset) ==
    /\ ~up
    /\ toZnp = <<>>
    /\ boots < MaxBoots
    /\ up' = TRUE
    /\ initialized' = FALSE
    /\ list' = IF reset THEN "reset" ELSE "restart"
    /\ keyFile' = IF keyFile = 0 THEN boots + 1 ELSE keyFile
    /\ key' = keyFile'
    /\ pos' = [core |-> 1, zll |-> 0, zha |-> 0]
    /\ slot' = [layer \in Layers |-> IF layer = "SYS" THEN "core" ELSE "none"]
    /\ toZnp' = <<Lists[list'][1]>>
    /\ fromZnp' = <<>>
    /\ boots' = boots + 1
    /\ disturbed' = IF list' = "reset" THEN {} ELSE disturbed \cap {"reset"}
    /\ UNCHANGED <<dongle, refused>>

\* zg_core_init, with -r or without: a new key and the long list when there is
\* no key on the host, or no longer one.  The input is flushed, and what the
\* dongle was asked before is long done.
Boot(reset) ==
    /\ ~up
    /\ toZnp = <<>>
    /\ boots < MaxBoots
    /\ up' = TRUE
    /\ initialized' = FALSE
    /\ list' = IF reset \/ keyFile = 0 THEN "reset" ELSE "restart"
    /\ \E k \in KeysAfter(list') : key' = k.key /\ keyFile' = k.file
    /\ pos' = [core |-> 1, zll |-> 0, zha |-> 0]
    /\ slot' = [layer \in Layers |-> IF layer = "SYS" THEN "core" ELSE "none"]
    /\ LET before == IF list' = "reset" THEN {} ELSE disturbed \cap {"reset"}
       IN  \/ toZnp' = <<Lists[list'][1]>> /\ disturbed' = before
           \/ "lost_write" \in Faults /\ toZnp' = <<>> /\ disturbed' = before \cup {"lost"}
    /\ fromZnp' = <<>>
    /\ boots' = boots + 1
    /\ UNCHANGED <<dongle, refused>>

\* The loop reads one frame.  A frame is named after the request it completes:
\* its SRSP, SYS_RESET_IND for a reset, and for the start of the network the
\* indication that the dongle is coordinator (state 9).
Take ==
    /\ up
    /\ fromZnp # <<>>
    /\ fromZnp' = Tail(fromZnp)
    /\ UNCHANGED <<up, list, key, keyFile, dongle, boots, refused>>

\* A frame calls whoever is in the slot of its layer, and the slot keeps it: its
\* status is logged at most, and which request it answers is not looked at.
Read ==
    /\ Take
    /\ Head(fromZnp) \in Requests
    /\ Call(slot[LayerOf(Head(fromZnp))])

ReadUnknown_left_variant ==
    /\ up
    /\ fromZnp # <<>>
    /\ Head(fromZnp) = "startup_srsp"
    /\ UNCHANGED vars

ReadUnknown_answers_variant ==
    /\ Take
    /\ Head(fromZnp) = "startup_srsp"
    /\ Call(slot.ZDO)

\* MT ZDO does not know the SRSP of ZDO_STARTUP_FROM_APP.
ReadUnknown ==
    /\ Take
    /\ Head(fromZnp) = "startup_srsp"
    /\ UNCHANGED <<initialized, pos, slot, toZnp, disturbed>>

\* zg_mt_zdo_permit_join(NULL), from standard input or a client.
OpenNetwork ==
    /\ up
    /\ initialized \/ "early_command" \in Faults
    /\ Len(toZnp) + Len(fromZnp) < MaxLink
    /\ slot' = [slot EXCEPT !.ZDO = "none"]
    /\ \/ toZnp' = Append(toZnp, "permit_join")
       \/ "lost_write" \in Faults /\ UNCHANGED toZnp
    /\ disturbed' = IF initialized THEN disturbed ELSE disturbed \cup {"command"}
    /\ UNCHANGED <<up, initialized, list, pos, key, keyFile, fromZnp, dongle, boots, refused>>

\* The program ends, in order or not: only the key outlives it.
Stop ==
    /\ up
    /\ initialized \/ "crash" \in Faults
    /\ up' = FALSE
    /\ UNCHANGED <<initialized, list, pos, slot, key, keyFile, toZnp, fromZnp, dongle, boots,
                   disturbed, refused>>

-----------------------------------------------------------------------------
(* The dongle *)

\* A restart carries out a pending clear, once, and forgets what is not in NV.
Restarted ==
    /\ nv' = IF nv.clear THEN [clear |-> FALSE, key |-> 0, settings |-> {}] ELSE nv
    /\ znp' = [endpoints |-> {}, started |-> FALSE]

\* What a request does when the dongle carries it out.  The request to subscribe
\* is three zero bytes, typed as an answer: the dongle is assumed to answer it,
\* and it subscribes the gateway to nothing.
Effect(r) ==
    \/ r = "reset" /\ Restarted
    \/ r = "clear" /\ nv' = [nv EXCEPT !.clear = TRUE] /\ UNCHANGED znp
    \/ r = "nwk_key" /\ nv' = [nv EXCEPT !.key = key] /\ UNCHANGED znp
    \/ r \in Settings /\ nv' = [nv EXCEPT !.settings = @ \cup {r}] /\ UNCHANGED znp
    \/ r \in AfRequests /\ znp' = [znp EXCEPT !.endpoints = @ \cup {r}] /\ UNCHANGED nv
    \/ r = "startup" /\ znp' = [znp EXCEPT !.started = TRUE] /\ UNCHANGED nv
    \/ /\ r \in {"ext_addr", "ping", "subscribe", "route", "announce", "permit_join"}
       /\ UNCHANGED dongle

\* It may refuse to write its memory or to register an endpoint.  (A refused
\* start brings no indication: to the lists it is a start that was lost.)
Refusable == {"clear", "nwk_key"} \cup Settings \cup AfRequests

Serve(r) ==
    \/ /\ Effect(r)
       /\ refused' = refused \ {r}
    \/ /\ "refused" \in Faults
       /\ r \in Refusable
       /\ Cardinality(refused) < MaxRefused
       /\ refused' = refused \cup {r}
       /\ UNCHANGED dongle

\* Either way the answer is a frame the lists take for the end of their step.
ZnpProcess ==
    /\ toZnp # <<>>
    /\ toZnp' = Tail(toZnp)
    /\ Serve(Head(toZnp))
    /\ fromZnp' = fromZnp \o (IF Head(toZnp) = "startup" THEN <<"startup_srsp", "startup">>
                              ELSE <<Head(toZnp)>>)
    /\ UNCHANGED <<gateway, boots, disturbed>>

\* It restarts by itself, forgets requests it had received, and says so.  Bound:
\* once in the course of the lists, which are out of step after the first time;
\* any number of times when they are through.
DongleReset ==
    /\ "dongle_reset" \in Faults
    /\ "reset" \notin disturbed
    /\ Len(toZnp) + Len(fromZnp) < MaxLink
    /\ \E n \in 0..Len(toZnp) : toZnp' = SubSeq(toZnp, n + 1, Len(toZnp))
    /\ Restarted
    /\ fromZnp' = Append(fromZnp, "reset")
    /\ disturbed' = IF initialized THEN disturbed ELSE disturbed \cup {"reset"}
    /\ UNCHANGED <<gateway, boots, refused>>

Gateway == (\E reset \in BOOLEAN : Boot(reset)) \/ Read \/ ReadUnknown \/ OpenNetwork \/ Stop
Dongle  == ZnpProcess \/ DongleReset
Next    == Gateway \/ Dongle

Spec == Init /\ [][Next]_vars

\* A live dongle answers and a running loop reads.
FairSpec == Spec /\ WF_vars(ZnpProcess) /\ WF_vars(Read \/ ReadUnknown)

-----------------------------------------------------------------------------
(* Properties *)

Owners == {"none", "core", "zll", "zha"}

TypeOK ==
    /\ up \in BOOLEAN
    /\ initialized \in BOOLEAN
    /\ list \in {"reset", "restart"}
    /\ pos \in [core : 0..Len(CoreList), zll : 0..3, zha : 0..1]
    /\ slot \in [Layers -> Owners]
    /\ key \in 0..boots
    /\ keyFile \in {0, key}
    /\ toZnp \in Seq(Requests)
    /\ fromZnp \in Seq(Requests \cup {"startup_srsp"})
    /\ nv \in [clear : BOOLEAN, key : 0..boots, settings : SUBSET Settings]
    /\ znp \in [endpoints : SUBSET AfRequests, started : BOOLEAN]
    /\ boots \in 0..MaxBoots
    /\ disturbed \subseteq {"lost", "command", "reset"}
    /\ refused \subseteq Refusable

\* The request the lists wait for, and whose callback it is.
Owner   == IF CoreList[pos.core] \in DOMAIN Profiles THEN CoreList[pos.core] ELSE "core"
Awaited == IF Owner = "core" THEN CoreList[pos.core] ELSE Profiles[Owner][pos[Owner]]

Link == <<toZnp, fromZnp>>

\* While nothing interferes, one request is under way, the one of the present
\* step, and the slot its answer will find holds the callback of its list:
\* four slots, three nested lists and an answer nobody knows never get the
\* steps out of order.
LockStep ==
    up /\ ~initialized /\ disturbed = {} =>
      /\ slot[LayerOf(Awaited)] = Owner
      /\ \/ Link = << <<Awaited>>, <<>> >>
         \/ Link = << <<>>, <<Awaited>> >>
         \/ Link = << <<>>, <<"startup_srsp", "startup">> >> /\ Awaited = "startup"

\* The network is started "after processing all needed configuration
\* (addressing, security, etc)" (mt_zdo.h:26): nothing of it is ever skipped,
\* undone or overtaken, also when requests are lost, commands come early, and
\* over restarts.  What the dongle itself refused to write is all that can be
\* missing: a status is logged and the list goes on (mt_sys.c:124-132), so that
\* the network is then started without that part, against mt_zdo.h:26.
Configured ==
    /\ nv.key = key \/ "nwk_key" \in refused
    /\ {"coord_flag", "pan_id", "channel"} \subseteq nv.settings \cup refused
StartsConfigured ==
    toZnp # <<>> /\ Head(toZnp) = "startup" /\ "reset" \notin disturbed => Configured

\* When the core says it is initialized the dongle is a coordinator, every
\* endpoint is registered and the security of the network is on, but for what
\* the dongle has refused: the statuses of these answers are logged and the list
\* goes on (mt_af.c:84-103, mt_sys.c:124-132).
Ready ==
    /\ znp.started
    /\ AfRequests \subseteq znp.endpoints \cup refused
    /\ "security" \in nv.settings \cup refused
InitializedMeansReady ==
    [][~initialized /\ initialized' /\ disturbed = {} => Ready]_vars

\* The lists come to their end unless something interferes.
InitCompletes ==
    up /\ disturbed = {} ~> initialized \/ disturbed # {} \/ ~up
=============================================================================
