------------------------------ MODULE Touchlink ------------------------------
(***************************************************************************)
(* The touchlink procedure of the gateway (src/profiles/zll.c) with        *)
(* everything it needs underneath: the single callback slot of the APS     *)
(* layer (aps.c), the single callback slot of the MT SYS layer (mt_sys.c), *)
(* and the serial link to the radio dongle (the ZNP), which answers every  *)
(* request with one SRSP, in order.                                        *)
(*                                                                         *)
(* The gateway is one libuv loop: an action is one callback of that loop,  *)
(* run to its end.  What interleaves is the loop with the dongle, with the *)
(* remote devices, and with the other users of the APS layer.              *)
(***************************************************************************)
EXTENDS Naturals, Sequences, StateMachine

CONSTANTS
    MaxScans,      \* scans sent before giving up: the 5 of _scan_timeout_cb
    MaxAnswers,    \* bound: scan responses under way at any time
    MaxLink,       \* bound: frames on the link beyond which nothing unsolicited is added
    OtherTraffic,  \* do the other users of APS (ZHA, ZDP) send meanwhile?
    Faults         \* what may go wrong on the link

FaultKinds == {"lost_write",    \* tcflush(TCOFLUSH) drops the frame just written
               "nv_failure",    \* the dongle answers an NV write with an error status
               "dongle_reset",  \* the dongle restarts by itself (watchdog)
               "late_answer"}   \* an answer may take longer than a timer

ASSUME TouchlinkAssumption ==
    /\ MaxScans \in Nat \ {0}
    /\ MaxAnswers \in Nat
    /\ MaxLink \in Nat
    /\ OtherTraffic \in BOOLEAN
    /\ Faults \subseteq FaultKinds

VARIABLES
    sm,             \* state of _touchlink_sm, "none" when it is NULL
    scanCount,      \* _scan_count
    scanTimer,      \* is _scan_timeout_timer active?
    identifyTimer,  \* is _identify_timer active?
    sysCb,          \* sync_action_cb of mt_sys.c
    apsCb,          \* _current_cb of aps.c
    toZnp,          \* requests written and not yet processed by the dongle
    fromZnp,        \* frames of the dongle the loop has not read yet
    secured,        \* the dongle's NV item 0x64: is NWK security on?
    answering,      \* scan responses still to come over the air
    identified,     \* has the dongle broadcast an identify since security went off?
    harmed          \* history: has the link lost a request, or the dongle failed?

gateway == <<sm, scanCount, scanTimer, identifyTimer, sysCb, apsCb>>
world   == <<secured, answering, identified>>
vars    == <<gateway, toZnp, fromZnp, world, harmed>>

-----------------------------------------------------------------------------
(* The table of the state machine, its entry functions, its callbacks *)

Transitions ==
    {<<"INIT",               "INIT_DONE",              "DISABLE_SECURITY">>,
     <<"DISABLE_SECURITY",   "SECURITY_DISABLED",      "SEND_SCAN">>,
     <<"SEND_SCAN",          "SCAN_SENT",              "WAIT_SCAN_RESPONSE">>,
     <<"WAIT_SCAN_RESPONSE", "SCAN_TIMEOUT_RESCAN",    "SEND_SCAN">>,
     <<"WAIT_SCAN_RESPONSE", "SCAN_RESPONSE_RECEIVED", "IDENTIFY">>,
     <<"WAIT_SCAN_RESPONSE", "SCAN_TIMEOUT_NO_RESCAN", "ENABLE_SECURITY">>,
     <<"IDENTIFY",           "IDENTIFY_REQUEST_SENT",  "WAIT_IDENTIFY">>,
     <<"WAIT_IDENTIFY",      "IDENTIFY_DELAY_PAST",    "FACTORY_RESET">>,
     <<"FACTORY_RESET",      "FACTORY_RESET_SENT",     "ENABLE_SECURITY">>,
     <<"ENABLE_SECURITY",    "SECURITY_ENABLED",       "SHUTDOWN">>}

\* The states the machine rests in: INIT and SHUTDOWN are left, and the
\* machine destroyed, within the callback that enters them.
RestStates == {"DISABLE_SECURITY", "SEND_SCAN", "WAIT_SCAN_RESPONSE", "IDENTIFY",
               "WAIT_IDENTIFY", "FACTORY_RESET", "ENABLE_SECURITY"}

\* (Definitions named ..._variant, here and in the other modules, are slips the
\* properties must catch; nothing else uses them.)
RequestOf_swapped_variant ==
    [DISABLE_SECURITY |-> "disable", SEND_SCAN |-> "scan", IDENTIFY |-> "reset",
     FACTORY_RESET |-> "identify", ENABLE_SECURITY |-> "enable"]
RequestOf_stays_off_variant ==
    [DISABLE_SECURITY |-> "disable", SEND_SCAN |-> "scan", IDENTIFY |-> "identify",
     FACTORY_RESET |-> "reset", ENABLE_SECURITY |-> "disable"]

\* The request the entry function of a state writes to the dongle.
RequestOf == [DISABLE_SECURITY |-> "disable", SEND_SCAN     |-> "scan",
              IDENTIFY         |-> "identify", FACTORY_RESET |-> "reset",
              ENABLE_SECURITY  |-> "enable"]

\* The callback it leaves in the slot of MT SYS, or of APS.
SysCallbackOf == [DISABLE_SECURITY |-> "security_disabled",
                  ENABLE_SECURITY  |-> "security_enabled"]
ApsCallbackOf_no_report_variant ==
    [SEND_SCAN |-> "scan_sent", IDENTIFY |-> "identify_sent"]
ApsCallbackOf == [SEND_SCAN     |-> "scan_sent", IDENTIFY |-> "identify_sent",
                  FACTORY_RESET |-> "reset_sent"]

\* The event a callback sends to the machine.
EventOf == [security_disabled |-> "SECURITY_DISABLED",
            security_enabled  |-> "SECURITY_ENABLED",
            scan_sent         |-> "SCAN_SENT",
            identify_sent     |-> "IDENTIFY_REQUEST_SENT",
            reset_sent        |-> "FACTORY_RESET_SENT"]

NvWrites == {"disable", "enable"}
InterPan == {"scan", "identify", "reset"}
Requests == NvWrites \cup InterPan \cup {"zcl"}
Frames   == {"nv_srsp", "af_srsp", "scan_response", "reset_ind"}

\* zg_rpc_write, whose flush may discard the frame.
Write(request) ==
    \/ /\ toZnp' = Append(toZnp, request)
       /\ UNCHANGED harmed
    \/ /\ "lost_write" \in Faults
       /\ harmed' = TRUE
       /\ UNCHANGED toZnp

SysSlotAfter(s) == IF s \in DOMAIN SysCallbackOf THEN SysCallbackOf[s] ELSE sysCb
ApsSlotAfter(s) == IF s \in DOMAIN ApsCallbackOf THEN ApsCallbackOf[s] ELSE apsCb

ScanTimerAfter_not_stopped_variant(s, active) == s = "WAIT_SCAN_RESPONSE" \/ active
IdentifyTimerAfter_not_started_variant(s, active) == active
ScanTimerAfter(s, active)     == s = "WAIT_SCAN_RESPONSE" \/ (active /\ s # "IDENTIFY")
IdentifyTimerAfter(s, active) == s = "WAIT_IDENTIFY" \/ active

Enter_no_wait_variant(s, scanActive, identifyActive) ==
    /\ sm' = IF s \in {"ENABLE_SECURITY", "SHUTDOWN"} THEN "none" ELSE s
    /\ scanTimer' = ScanTimerAfter(s, scanActive)
    /\ identifyTimer' = IdentifyTimerAfter(s, identifyActive)
    /\ sysCb' = SysSlotAfter(s)
    /\ IF s \in DOMAIN RequestOf THEN Write(RequestOf[s]) ELSE UNCHANGED <<toZnp, harmed>>

\* The machine enters state s, or s once more, and runs its entry function,
\* the two timers being as the caller left them.  The APS slot is left to the
\* callers: the one that runs inside an APS callback sees it cleared after.
Enter(s, scanActive, identifyActive) ==
    /\ sm' = IF s = "SHUTDOWN" THEN "none" ELSE s
    /\ scanTimer' = ScanTimerAfter(s, scanActive)
    /\ identifyTimer' = IdentifyTimerAfter(s, identifyActive)
    /\ sysCb' = SysSlotAfter(s)
    /\ IF s \in DOMAIN RequestOf THEN Write(RequestOf[s]) ELSE UNCHANGED <<toZnp, harmed>>

Target(event) == StateAfter(Transitions, sm, event)

-----------------------------------------------------------------------------
(* The gateway *)

Init ==
    /\ sm = "none"
    /\ scanCount = 0
    /\ scanTimer = FALSE
    /\ identifyTimer = FALSE
    /\ sysCb = "core_init"
    /\ apsCb = "none"
    /\ toZnp = <<>>
    /\ fromZnp = <<>>
    /\ secured = TRUE
    /\ answering = 0
    /\ identified = FALSE
    /\ harmed = FALSE

StartTouchlink_no_reset_variant ==
    /\ sm = "none"
    /\ LET s == StateAfter(Transitions, "INIT", "INIT_DONE")
       IN  Enter(s, FALSE, FALSE) /\ apsCb' = ApsSlotAfter(s)
    /\ UNCHANGED <<scanCount, fromZnp, world>>

StartTouchlink_secured_variant ==
    /\ sm = "none"
    /\ scanCount' = 0
    /\ Enter("SEND_SCAN", FALSE, FALSE)
    /\ apsCb' = ApsSlotAfter("SEND_SCAN")
    /\ UNCHANGED <<fromZnp, world>>

\* zg_zll_start_touchlink: refused while a procedure is in progress.
StartTouchlink ==
    /\ sm = "none"
    /\ scanCount' = 0
    /\ LET s == StateAfter(Transitions, "INIT", "INIT_DONE")
       IN  Enter(s, FALSE, FALSE) /\ apsCb' = ApsSlotAfter(s)
    /\ UNCHANGED <<fromZnp, world>>

\* The timers take 250 ms and 3 s: unless answers may be late, the dongle has
\* answered every request long before one fires.
Srsps == {"nv_srsp", "af_srsp"}
LinkQuiet ==
    \/ "late_answer" \in Faults
    \/ toZnp = <<>> /\ \A i \in 1..Len(fromZnp) : fromZnp[i] \notin Srsps

ScanTimeout_one_more_variant ==
    /\ scanTimer
    /\ LinkQuiet
    /\ LET s == Target(IF scanCount <= MaxScans THEN "SCAN_TIMEOUT_RESCAN"
                                                ELSE "SCAN_TIMEOUT_NO_RESCAN")
       IN  Enter(s, FALSE, identifyTimer) /\ apsCb' = ApsSlotAfter(s)
    /\ UNCHANGED <<scanCount, fromZnp, world>>

ScanTimeout ==
    /\ scanTimer
    /\ LinkQuiet
    /\ LET s == Target(IF scanCount < MaxScans THEN "SCAN_TIMEOUT_RESCAN"
                                               ELSE "SCAN_TIMEOUT_NO_RESCAN")
       IN  Enter(s, FALSE, identifyTimer) /\ apsCb' = ApsSlotAfter(s)
    /\ UNCHANGED <<scanCount, fromZnp, world>>

IdentifyTimeout ==
    /\ identifyTimer
    /\ LinkQuiet
    /\ LET s == Target("IDENTIFY_DELAY_PAST")
       IN  Enter(s, scanTimer, FALSE) /\ apsCb' = ApsSlotAfter(s)
    /\ UNCHANGED <<scanCount, fromZnp, world>>

\* The loop reads one frame of the dongle.
Read(frames) ==
    /\ fromZnp # <<>>
    /\ Head(fromZnp) \in frames
    /\ fromZnp' = Tail(fromZnp)
    /\ UNCHANGED world

\* The SRSP of an NV write, whatever its status, and the indication that the
\* dongle restarted both call whoever is in the slot; the slot keeps it.
ReadSysFrame ==
    /\ Read({"nv_srsp", "reset_ind"})
    /\ \/ /\ sysCb = "core_init"
          /\ UNCHANGED <<gateway, toZnp, harmed>>
       \/ /\ sysCb # "core_init"
          /\ LET s == Target(EventOf[sysCb])
             IN  Enter(s, scanTimer, identifyTimer) /\ apsCb' = ApsSlotAfter(s)
          /\ UNCHANGED scanCount

ReadAfSrsp_slot_kept_variant ==
    /\ Read({"af_srsp"})
    /\ \/ /\ apsCb = "none"
          /\ UNCHANGED <<gateway, toZnp, harmed>>
       \/ /\ apsCb # "none"
          /\ scanCount' = IF apsCb = "scan_sent" THEN scanCount + 1 ELSE scanCount
          /\ Enter(Target(EventOf[apsCb]), scanTimer, identifyTimer)
          /\ UNCHANGED apsCb

\* The SRSP of a data request calls whoever is in the APS slot, whichever
\* request it answers, and empties the slot afterwards.
ReadAfSrsp ==
    /\ Read({"af_srsp"})
    /\ \/ /\ apsCb = "none"
          /\ UNCHANGED <<gateway, toZnp, harmed>>
       \/ /\ apsCb # "none"
          /\ scanCount' = IF apsCb = "scan_sent" THEN scanCount + 1 ELSE scanCount
          /\ Enter(Target(EventOf[apsCb]), scanTimer, identifyTimer)
          /\ apsCb' = "none"

\* A scan response, whichever scan (of whichever procedure) it answers.
ReadScanResponse ==
    /\ Read({"scan_response"})
    /\ LET s == Target("SCAN_RESPONSE_RECEIVED")
       IN  Enter(s, scanTimer, identifyTimer) /\ apsCb' = ApsSlotAfter(s)
    /\ UNCHANGED scanCount

\* Another user of APS sends a command and asks for no callback: the slot is
\* overwritten all the same.
SendOther ==
    /\ OtherTraffic
    /\ Len(toZnp) + Len(fromZnp) < MaxLink
    /\ Write("zcl")
    /\ apsCb' = "none"
    /\ UNCHANGED <<sm, scanCount, scanTimer, identifyTimer, sysCb, fromZnp, world>>

-----------------------------------------------------------------------------
(* The dongle and the remote devices *)

ZnpNvWrite ==
    /\ toZnp # <<>>
    /\ Head(toZnp) \in NvWrites
    /\ toZnp' = Tail(toZnp)
    /\ fromZnp' = Append(fromZnp, "nv_srsp")
    /\ \/ /\ secured' = (Head(toZnp) = "enable")
          /\ identified' = (identified /\ Head(toZnp) = "enable")
          /\ UNCHANGED harmed
       \/ /\ "nv_failure" \in Faults
          /\ harmed' = TRUE
          /\ UNCHANGED <<secured, identified>>
    /\ UNCHANGED <<gateway, answering>>

\* A broadcast scan makes any number of the devices in range answer.
ZnpTransmit ==
    /\ toZnp # <<>>
    /\ Head(toZnp) \notin NvWrites
    /\ toZnp' = Tail(toZnp)
    /\ fromZnp' = Append(fromZnp, "af_srsp")
    /\ identified' = (identified \/ Head(toZnp) = "identify")
    /\ answering' \in IF Head(toZnp) = "scan" THEN answering..MaxAnswers ELSE {answering}
    /\ UNCHANGED <<gateway, secured, harmed>>

RemoteAnswer ==
    /\ answering > 0
    /\ Len(toZnp) + Len(fromZnp) < MaxLink
    /\ answering' = answering - 1
    /\ fromZnp' = Append(fromZnp, "scan_response")
    /\ UNCHANGED <<gateway, toZnp, secured, identified, harmed>>

\* The dongle restarts: it forgets requests it had received, keeps its NV
\* memory, and says so.
DongleReset ==
    /\ "dongle_reset" \in Faults
    /\ Len(toZnp) + Len(fromZnp) < MaxLink
    /\ \E n \in 0..Len(toZnp) : toZnp' = SubSeq(toZnp, n + 1, Len(toZnp))
    /\ fromZnp' = Append(fromZnp, "reset_ind")
    /\ harmed' = TRUE
    /\ UNCHANGED <<gateway, world>>

Gateway == \/ StartTouchlink \/ ScanTimeout \/ IdentifyTimeout
           \/ ReadSysFrame \/ ReadAfSrsp \/ ReadScanResponse \/ SendOther
World   == ZnpNvWrite \/ ZnpTransmit \/ RemoteAnswer \/ DongleReset
Next    == Gateway \/ World

Spec == Init /\ [][Next]_vars

\* A live dongle answers, and the loop runs its timers and reads its input.
\* Nobody is bound to start a procedure, to answer a scan or to send.
FairSpec ==
    /\ Spec
    /\ WF_vars(ZnpNvWrite \/ ZnpTransmit)
    /\ WF_vars(ReadSysFrame \/ ReadAfSrsp \/ ReadScanResponse)
    /\ WF_vars(ScanTimeout)
    /\ WF_vars(IdentifyTimeout)

-----------------------------------------------------------------------------
(* Properties *)

TypeOK ==
    /\ sm \in RestStates \cup {"none"}
    /\ scanCount \in 0..MaxScans
    /\ scanTimer \in BOOLEAN
    /\ identifyTimer \in BOOLEAN
    /\ sysCb \in {"core_init", "security_disabled", "security_enabled"}
    /\ apsCb \in {"none", "scan_sent", "identify_sent", "reset_sent"}
    /\ toZnp \in Seq(Requests)
    /\ fromZnp \in Seq(Frames)
    /\ secured \in BOOLEAN
    /\ answering \in 0..MaxAnswers
    /\ identified \in BOOLEAN
    /\ harmed \in BOOLEAN

\* A timer runs exactly while the machine waits for it.  So a wait always
\* ends, no timer of one procedure fires into the next, and uv_timer_init
\* (zll.c:223) never touches an active timer -- whatever stray frames made
\* entry functions run again, and whatever the link lost.
TimersBelongToStates ==
    /\ scanTimer <=> sm = "WAIT_SCAN_RESPONSE"
    /\ identifyTimer <=> sm = "WAIT_IDENTIFY"

\* The callback in the APS slot is one the present state registered: no
\* answer can make the machine of a later state, or of a later procedure,
\* take the event of an earlier one.
ApsSlotBelongsToState ==
    apsCb # "none" => sm \in DOMAIN ApsCallbackOf /\ ApsCallbackOf[sm] = apsCb

\* A scan is only ever sent while the budget of this procedure lasts, and a
\* procedure starts with its whole budget, although the counter moves when a
\* scan is acknowledged and scans may be sent twice.
ScanBudget ==
    /\ sm = "SEND_SCAN" => scanCount < MaxScans
    /\ sm = "DISABLE_SECURITY" => scanCount = 0

\* As long as no request was lost and the dongle did what it was asked, it
\* transmits an inter-pan frame only with NWK security off: however late the
\* answers, the frames of one procedure never overtake, nor are overtaken by,
\* the security writes of that procedure or of its neighbours.
InterPanInTheClear ==
    ~harmed /\ toZnp # <<>> /\ Head(toZnp) \in InterPan => ~secured

\* Once a procedure is over the last word the dongle has had, or will have,
\* about security is "enable" -- if it heard every word.
SecuredAfterwards ==
    ~harmed /\ sm = "none" =>
      \/ \E k \in 1..Len(toZnp) :
           toZnp[k] = "enable" /\ \A l \in (k + 1)..Len(toZnp) : toZnp[l] # "disable"
      \/ secured /\ \A l \in 1..Len(toZnp) : toZnp[l] # "disable"

\* A device is reset to factory defaults only after it was told to identify
\* itself, in the same procedure: somebody could see which one it is.
IdentifiedBeforeReset ==
    ~harmed /\ toZnp # <<>> /\ Head(toZnp) = "reset" => identified

\* Every procedure ends, and gives the security back.
TouchlinkEnds    == sm # "none" ~> sm = "none"
SecurityRestored == ~secured ~> secured

\* What aps.h:72 promises of zg_aps_send_data: the callback runs when the data
\* has been sent to the dongle.  It is what takes the machine out of a state
\* that sends.
SendIsReported ==
    \A s \in DOMAIN ApsCallbackOf : sm = s ~> sm # s

\* The network sees the procedure as a window without security that a session
\* opens and closes.
Window == INSTANCE SecurityWindow WITH session <- sm # "none", open <- ~secured
WindowSpec == Window!Spec
=============================================================================
