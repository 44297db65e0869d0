--------------------------- MODULE TouchlinkProofs ---------------------------
(***************************************************************************)
(* Machine-checked theorems about Touchlink, for every value of its        *)
(* constants: type correctness; the invariants that hold whatever the link *)
(* loses, delays or repeats; the order of what the dongle is asked (no     *)
(* inter-pan frame but in the clear, security given back, no reset before  *)
(* an identify); and that Touchlink implements SecurityWindow on a link    *)
(* that at worst loses requests.                                           *)
(***************************************************************************)
EXTENDS Touchlink, SequenceTheorems, TLAPS

-----------------------------------------------------------------------------
(* The lookup of sm.c *)

\* A row of a deterministic table is what the lookup finds.
LEMMA LookupHit ==
    ASSUME NEW table, Deterministic(table), NEW t \in table
    PROVE  StateAfter(table, t[1], t[2]) = t[3]
<1>1. Matches(table, t[1], t[2]) = {t}
  BY DEF Deterministic, Matches
<1> QED
  BY <1>1 DEF StateAfter

\* Without a row the machine stays where it is.
LEMMA LookupMiss ==
    ASSUME NEW table, NEW s, NEW e, \A t \in table : ~(t[1] = s /\ t[2] = e)
    PROVE  StateAfter(table, s, e) = s
<1>1. Matches(table, s, e) = {}
  BY DEF Matches
<1> QED
  BY <1>1 DEF StateAfter

LEMMA TransitionsDeterministic == Deterministic(Transitions)
  BY DEF Deterministic, Transitions

\* What each event does to the touchlink machine.
LEMMA Targets ==
    /\ StateAfter(Transitions, "INIT", "INIT_DONE") = "DISABLE_SECURITY"
    /\ \A s : StateAfter(Transitions, s, "SECURITY_DISABLED")
                = IF s = "DISABLE_SECURITY" THEN "SEND_SCAN" ELSE s
    /\ \A s : StateAfter(Transitions, s, "SCAN_SENT")
                = IF s = "SEND_SCAN" THEN "WAIT_SCAN_RESPONSE" ELSE s
    /\ \A s : StateAfter(Transitions, s, "SCAN_TIMEOUT_RESCAN")
                = IF s = "WAIT_SCAN_RESPONSE" THEN "SEND_SCAN" ELSE s
    /\ \A s : StateAfter(Transitions, s, "SCAN_RESPONSE_RECEIVED")
                = IF s = "WAIT_SCAN_RESPONSE" THEN "IDENTIFY" ELSE s
    /\ \A s : StateAfter(Transitions, s, "SCAN_TIMEOUT_NO_RESCAN")
                = IF s = "WAIT_SCAN_RESPONSE" THEN "ENABLE_SECURITY" ELSE s
    /\ \A s : StateAfter(Transitions, s, "IDENTIFY_REQUEST_SENT")
                = IF s = "IDENTIFY" THEN "WAIT_IDENTIFY" ELSE s
    /\ \A s : StateAfter(Transitions, s, "IDENTIFY_DELAY_PAST")
                = IF s = "WAIT_IDENTIFY" THEN "FACTORY_RESET" ELSE s
    /\ \A s : StateAfter(Transitions, s, "FACTORY_RESET_SENT")
                = IF s = "FACTORY_RESET" THEN "ENABLE_SECURITY" ELSE s
    /\ \A s : StateAfter(Transitions, s, "SECURITY_ENABLED")
                = IF s = "ENABLE_SECURITY" THEN "SHUTDOWN" ELSE s
<1>1. \A t \in Transitions : StateAfter(Transitions, t[1], t[2]) = t[3]
  BY LookupHit, TransitionsDeterministic
<1>2. \A s, e : (\A t \in Transitions : ~(t[1] = s /\ t[2] = e))
                  => StateAfter(Transitions, s, e) = s
  BY LookupMiss
<1> QED
  BY <1>1, <1>2 DEF Transitions

-----------------------------------------------------------------------------
(* The entry functions *)

Entered == RestStates \cup {"none", "SHUTDOWN"}

\* Whether or not the flush takes the frame, the queue holds requests.
LEMMA WriteTyped ==
    ASSUME TypeOK, NEW request \in Requests, Write(request)
    PROVE  toZnp' \in Seq(Requests) /\ harmed' \in BOOLEAN
<1>1. CASE toZnp' = Append(toZnp, request) /\ UNCHANGED harmed
  BY <1>1, AppendProperties DEF TypeOK
<1>2. CASE harmed' = TRUE /\ UNCHANGED toZnp
  BY <1>2 DEF TypeOK
<1> QED
  BY <1>1, <1>2 DEF Write

\* An entry function leaves the gateway's state well typed.
LEMMA EnterTyped ==
    ASSUME TypeOK, NEW s \in Entered, NEW a \in BOOLEAN, NEW b \in BOOLEAN,
           Enter(s, a, b)
    PROVE  /\ sm' \in RestStates \cup {"none"}
           /\ scanTimer' \in BOOLEAN
           /\ identifyTimer' \in BOOLEAN
           /\ sysCb' \in {"core_init", "security_disabled", "security_enabled"}
           /\ toZnp' \in Seq(Requests)
           /\ harmed' \in BOOLEAN
           /\ ApsSlotAfter(s) \in {"none", "scan_sent", "identify_sent", "reset_sent"}
<1>1. sm' \in RestStates \cup {"none"}
  BY DEF Enter, Entered
<1>2. scanTimer' \in BOOLEAN /\ identifyTimer' \in BOOLEAN
  BY DEF Enter, ScanTimerAfter, IdentifyTimerAfter
<1>3. sysCb' \in {"core_init", "security_disabled", "security_enabled"}
  BY DEF Enter, SysSlotAfter, SysCallbackOf, TypeOK
<1>4. toZnp' \in Seq(Requests) /\ harmed' \in BOOLEAN
  <2>1. CASE s \in DOMAIN RequestOf
    <3>1. RequestOf[s] \in Requests
      BY <2>1 DEF RequestOf, Requests, NvWrites, InterPan
    <3> QED
      BY <2>1, <3>1, WriteTyped DEF Enter
  <2>2. CASE s \notin DOMAIN RequestOf
    BY <2>2 DEF Enter, TypeOK
  <2> QED
    BY <2>1, <2>2
<1>5. ApsSlotAfter(s) \in {"none", "scan_sent", "identify_sent", "reset_sent"}
  BY DEF ApsSlotAfter, ApsCallbackOf, TypeOK
<1> QED
  BY <1>1, <1>2, <1>3, <1>4, <1>5

\* Entering a state leaves exactly that state's timer running, provided the
\* caller leaves none running that the state would not stop.
LEMMA EnterTimers ==
    ASSUME NEW s \in Entered, NEW a \in BOOLEAN, NEW b \in BOOLEAN,
           Enter(s, a, b),
           a => s \in {"WAIT_SCAN_RESPONSE", "IDENTIFY"},
           b => s = "WAIT_IDENTIFY"
    PROVE  TimersBelongToStates'
  BY DEF Enter, Entered, RestStates, ScanTimerAfter, IdentifyTimerAfter,
         TimersBelongToStates

\* The slot a state leaves is its own, provided a slot it inherits was.
LEMMA EnterApsSlot ==
    ASSUME NEW s \in Entered, NEW a, NEW b, Enter(s, a, b), apsCb' = ApsSlotAfter(s),
           s \in DOMAIN ApsCallbackOf \/ apsCb = "none"
    PROVE  ApsSlotBelongsToState'
  BY DEF Enter, ApsSlotAfter, ApsCallbackOf, ApsSlotBelongsToState

-----------------------------------------------------------------------------
(* The inductive invariant: the three invariants carry each other.  The scan *)
(* budget needs the slot (a scan is counted in SEND_SCAN only), and the slot *)
(* needs nothing else; the timers need the table alone.                      *)

IInv == TypeOK /\ TimersBelongToStates /\ ApsSlotBelongsToState /\ ScanBudget

LEMMA InitIInv == Init => IInv
<1> SUFFICES ASSUME Init PROVE IInv
  OBVIOUS
<1>1. TypeOK
  <2>1. 0 \in 0..MaxScans /\ 0 \in 0..MaxAnswers
    BY TouchlinkAssumption
  <2>2. <<>> \in Seq(Requests) /\ <<>> \in Seq(Frames)
    BY EmptySeq
  <2> QED
    BY <2>1, <2>2 DEF Init, TypeOK
<1>2. TimersBelongToStates /\ ApsSlotBelongsToState /\ ScanBudget
  BY DEF Init, TimersBelongToStates, ApsSlotBelongsToState, ScanBudget
<1> QED
  BY <1>1, <1>2 DEF IInv

LEMMA StartKeepsIInv ==
    ASSUME IInv, StartTouchlink PROVE IInv'
<1> DEFINE s == "DISABLE_SECURITY"
<1>1. Enter(s, FALSE, FALSE) /\ apsCb' = ApsSlotAfter(s) /\ s \in Entered
  BY Targets DEF StartTouchlink, Entered, RestStates
<1>2. TypeOK'
  <2>1. TypeOK
    BY DEF IInv
  <2>2. 0 \in 0..MaxScans
    BY TouchlinkAssumption
  <2> QED
    BY <1>1, <2>1, <2>2, EnterTyped DEF StartTouchlink, world, TypeOK
<1>3. TimersBelongToStates'
  BY <1>1, EnterTimers
<1>4. apsCb = "none"
  BY DEF IInv, StartTouchlink, ApsSlotBelongsToState, ApsCallbackOf
<1>5. ApsSlotBelongsToState'
  BY <1>1, <1>4, EnterApsSlot
<1>6. ScanBudget'
  BY <1>1 DEF StartTouchlink, Enter, ScanBudget
<1> QED
  BY <1>2, <1>3, <1>5, <1>6 DEF IInv

\* What a callback of the loop owes: a state s to enter, the timers as it
\* leaves them, and no scan sent beyond the budget.
LEMMA ReactKeepsInvariants ==
    ASSUME IInv, NEW s \in Entered, NEW a \in BOOLEAN, NEW b \in BOOLEAN,
           Enter(s, a, b), apsCb' = ApsSlotAfter(s), UNCHANGED scanCount,
           a => s \in {"WAIT_SCAN_RESPONSE", "IDENTIFY"},
           b => s = "WAIT_IDENTIFY",
           s \in DOMAIN ApsCallbackOf \/ apsCb = "none",
           s = "SEND_SCAN" => scanCount < MaxScans,
           s = "DISABLE_SECURITY" => scanCount = 0,
           fromZnp' \in Seq(Frames), UNCHANGED world
    PROVE  IInv'
<1>1. TypeOK
  BY DEF IInv
<1>2. TypeOK'
  BY <1>1, EnterTyped DEF TypeOK, world
<1>3. TimersBelongToStates'
  BY EnterTimers
<1>4. ApsSlotBelongsToState'
  BY EnterApsSlot
<1>5. ScanBudget'
  BY DEF Enter, ScanBudget
<1> QED
  BY <1>2, <1>3, <1>4, <1>5 DEF IInv

LEMMA ScanTimeoutKeepsIInv ==
    ASSUME IInv, ScanTimeout PROVE IInv'
<1>1. sm = "WAIT_SCAN_RESPONSE" /\ apsCb = "none" /\ ~identifyTimer
  BY DEF IInv, ScanTimeout, TypeOK, TimersBelongToStates, ApsSlotBelongsToState,
         ApsCallbackOf
<1> DEFINE s == IF scanCount < MaxScans THEN "SEND_SCAN" ELSE "ENABLE_SECURITY"
<1>2. Enter(s, FALSE, identifyTimer) /\ apsCb' = ApsSlotAfter(s)
  BY ZenonT(30), <1>1, Targets DEF ScanTimeout, Target
<1>3. fromZnp' \in Seq(Frames) /\ UNCHANGED <<scanCount, world>>
  BY DEF ScanTimeout, IInv, TypeOK
<1>4. s \in Entered /\ identifyTimer \in BOOLEAN
  BY <1>1 DEF Entered, RestStates, IInv, TypeOK
<1> QED
  BY <1>1, <1>2, <1>3, <1>4, ReactKeepsInvariants

LEMMA IdentifyTimeoutKeepsIInv ==
    ASSUME IInv, IdentifyTimeout PROVE IInv'
<1>1. sm = "WAIT_IDENTIFY" /\ apsCb = "none" /\ ~scanTimer
  BY DEF IInv, IdentifyTimeout, TypeOK, TimersBelongToStates, ApsSlotBelongsToState,
         ApsCallbackOf
<1>2. Enter("FACTORY_RESET", scanTimer, FALSE) /\ apsCb' = ApsSlotAfter("FACTORY_RESET")
  BY <1>1, Targets DEF IdentifyTimeout, Target
<1>3. fromZnp' \in Seq(Frames) /\ UNCHANGED <<scanCount, world>>
  BY DEF IdentifyTimeout, IInv, TypeOK
<1>4. "FACTORY_RESET" \in Entered /\ scanTimer \in BOOLEAN
  BY <1>1 DEF Entered, RestStates, IInv, TypeOK
<1> QED
  BY <1>1, <1>2, <1>3, <1>4, ReactKeepsInvariants

\* Reading a frame takes it off the queue.
LEMMA ReadTyped ==
    ASSUME TypeOK, NEW frames, Read(frames)
    PROVE  fromZnp' \in Seq(Frames) /\ UNCHANGED world
  BY HeadTailProperties DEF TypeOK, Read

\* A frame that concerns nobody changes nothing but the queues.
LEMMA QuietKeepsIInv ==
    ASSUME IInv, UNCHANGED gateway, TypeOK'
    PROVE  IInv'
  BY DEF IInv, gateway, TimersBelongToStates, ApsSlotBelongsToState, ScanBudget

LEMMA ReadSysFrameKeepsIInv ==
    ASSUME IInv, ReadSysFrame PROVE IInv'
<1>1. fromZnp' \in Seq(Frames) /\ UNCHANGED world
  BY ReadTyped DEF IInv, ReadSysFrame
<1>2. CASE UNCHANGED <<gateway, toZnp, harmed>>
  <2>1. TypeOK'
    BY <1>1, <1>2 DEF IInv, TypeOK, gateway, world
  <2> QED
    BY <1>2, <2>1, QuietKeepsIInv
<1>3. CASE sysCb # "core_init"
  <2> DEFINE s == Target(EventOf[sysCb])
  <2>1. CASE UNCHANGED <<gateway, toZnp, harmed>>
    BY <2>1, <1>2
  <2>2. CASE Enter(s, scanTimer, identifyTimer) /\ apsCb' = ApsSlotAfter(s)
             /\ UNCHANGED scanCount
    <3>1. EventOf[sysCb] \in {"SECURITY_DISABLED", "SECURITY_ENABLED"}
      BY <1>3 DEF IInv, TypeOK, EventOf
    <3>2. s = IF EventOf[sysCb] = "SECURITY_DISABLED" /\ sm = "DISABLE_SECURITY"
              THEN "SEND_SCAN"
              ELSE IF EventOf[sysCb] = "SECURITY_ENABLED" /\ sm = "ENABLE_SECURITY"
              THEN "SHUTDOWN" ELSE sm
      BY <3>1, Targets DEF Target
    <3>3. s \in Entered
      BY <3>2 DEF Entered, RestStates, IInv, TypeOK
    <3>4. /\ scanTimer \in BOOLEAN /\ identifyTimer \in BOOLEAN
          /\ scanTimer => s \in {"WAIT_SCAN_RESPONSE", "IDENTIFY"}
          /\ identifyTimer => s = "WAIT_IDENTIFY"
      BY <3>2 DEF IInv, TypeOK, TimersBelongToStates
    <3>5. s \in DOMAIN ApsCallbackOf \/ apsCb = "none"
      BY <3>2 DEF IInv, ApsSlotBelongsToState, ApsCallbackOf
    <3>6. /\ s = "SEND_SCAN" => scanCount < MaxScans
          /\ s = "DISABLE_SECURITY" => scanCount = 0
      BY <3>2, TouchlinkAssumption DEF IInv, ScanBudget
    <3> QED
      BY <1>1, <2>2, <3>3, <3>4, <3>5, <3>6, ReactKeepsInvariants
  <2> QED
    BY <1>3, <2>1, <2>2 DEF ReadSysFrame
<1> QED
  BY <1>2, <1>3 DEF ReadSysFrame

LEMMA ReadScanResponseKeepsIInv ==
    ASSUME IInv, ReadScanResponse PROVE IInv'
<1> DEFINE s == IF sm = "WAIT_SCAN_RESPONSE" THEN "IDENTIFY" ELSE sm
<1>1. /\ Enter(s, scanTimer, identifyTimer) /\ apsCb' = ApsSlotAfter(s)
      /\ UNCHANGED scanCount
  BY Targets DEF ReadScanResponse, Target
<1>2. fromZnp' \in Seq(Frames) /\ UNCHANGED world
  BY ReadTyped DEF IInv, ReadScanResponse
<1>3. s \in Entered
  BY DEF Entered, RestStates, IInv, TypeOK
<1>4. /\ scanTimer \in BOOLEAN /\ identifyTimer \in BOOLEAN
      /\ scanTimer => s \in {"WAIT_SCAN_RESPONSE", "IDENTIFY"}
      /\ identifyTimer => s = "WAIT_IDENTIFY"
  BY DEF IInv, TypeOK, TimersBelongToStates
<1>5. s \in DOMAIN ApsCallbackOf \/ apsCb = "none"
  BY DEF IInv, ApsSlotBelongsToState, ApsCallbackOf
<1>6. /\ s = "SEND_SCAN" => scanCount < MaxScans
      /\ s = "DISABLE_SECURITY" => scanCount = 0
  BY DEF IInv, ScanBudget
<1> QED
  BY <1>1, <1>2, <1>3, <1>4, <1>5, <1>6, ReactKeepsInvariants

LEMMA ReadAfSrspKeepsIInv ==
    ASSUME IInv, ReadAfSrsp PROVE IInv'
<1>1. fromZnp' \in Seq(Frames) /\ UNCHANGED world
  BY ReadTyped DEF IInv, ReadAfSrsp
<1>2. CASE UNCHANGED <<gateway, toZnp, harmed>>
  <2>1. TypeOK'
    BY <1>1, <1>2 DEF IInv, TypeOK, gateway, world
  <2> QED
    BY <1>2, <2>1, QuietKeepsIInv
<1>3. CASE /\ apsCb # "none"
           /\ scanCount' = IF apsCb = "scan_sent" THEN scanCount + 1 ELSE scanCount
           /\ Enter(Target(EventOf[apsCb]), scanTimer, identifyTimer)
           /\ apsCb' = "none"
  <2> DEFINE s == Target(EventOf[apsCb])
  <2>1. \/ apsCb = "scan_sent" /\ sm = "SEND_SCAN" /\ s = "WAIT_SCAN_RESPONSE"
        \/ apsCb = "identify_sent" /\ sm = "IDENTIFY" /\ s = "WAIT_IDENTIFY"
        \/ apsCb = "reset_sent" /\ sm = "FACTORY_RESET" /\ s = "ENABLE_SECURITY"
    <3>1. \/ apsCb = "scan_sent" /\ sm = "SEND_SCAN"
          \/ apsCb = "identify_sent" /\ sm = "IDENTIFY"
          \/ apsCb = "reset_sent" /\ sm = "FACTORY_RESET"
      BY <1>3 DEF IInv, TypeOK, ApsSlotBelongsToState, ApsCallbackOf
    <3> QED
      BY <3>1, Targets DEF Target, EventOf
  <2>2. /\ s \in Entered
        /\ scanTimer = FALSE /\ identifyTimer = FALSE
    BY <2>1 DEF Entered, RestStates, IInv, TypeOK, TimersBelongToStates
  <2>3. scanCount' \in 0..MaxScans
    BY <1>3, <2>1, TouchlinkAssumption DEF IInv, TypeOK, ScanBudget
  <2>4. TypeOK'
    <3>1. TypeOK
      BY DEF IInv
    <3> QED
      BY <1>1, <1>3, <2>2, <2>3, <3>1, EnterTyped DEF TypeOK, world
  <2>5. TimersBelongToStates'
    BY <1>3, <2>2, EnterTimers
  <2>6. ApsSlotBelongsToState' /\ ScanBudget'
    BY <1>3, <2>1 DEF Enter, ApsSlotBelongsToState, ScanBudget
  <2> QED
    BY <2>4, <2>5, <2>6 DEF IInv
<1> QED
  BY <1>2, <1>3 DEF ReadAfSrsp

LEMMA SendOtherKeepsIInv ==
    ASSUME IInv, SendOther PROVE IInv'
<1>1. toZnp' \in Seq(Requests) /\ harmed' \in BOOLEAN
  BY WriteTyped DEF SendOther, Requests, IInv
<1>2. TypeOK'
  BY <1>1 DEF SendOther, IInv, TypeOK, world
<1>3. TimersBelongToStates' /\ ApsSlotBelongsToState' /\ ScanBudget'
  BY DEF SendOther, IInv, TimersBelongToStates, ApsSlotBelongsToState, ScanBudget
<1> QED
  BY <1>2, <1>3 DEF IInv

LEMMA WorldKeepsIInv ==
    ASSUME IInv, World PROVE IInv'
<1>1. UNCHANGED gateway
  BY DEF World, ZnpNvWrite, ZnpTransmit, RemoteAnswer, DongleReset
<1>2. CASE ZnpNvWrite
  <2>1. toZnp' \in Seq(Requests)
    BY <1>2, HeadTailProperties DEF ZnpNvWrite, IInv, TypeOK
  <2>2. fromZnp' \in Seq(Frames)
    BY <1>2, AppendProperties DEF ZnpNvWrite, Frames, IInv, TypeOK
  <2>3. secured' \in BOOLEAN /\ identified' \in BOOLEAN /\ harmed' \in BOOLEAN
        /\ UNCHANGED answering
    BY <1>2 DEF ZnpNvWrite, IInv, TypeOK
  <2>4. TypeOK'
    BY <1>1, <2>1, <2>2, <2>3 DEF IInv, TypeOK, gateway
  <2> QED
    BY <1>1, <2>4, QuietKeepsIInv
<1>3. CASE ZnpTransmit
  <2>1. toZnp' \in Seq(Requests)
    BY <1>3, HeadTailProperties DEF ZnpTransmit, IInv, TypeOK
  <2>2. fromZnp' \in Seq(Frames)
    BY <1>3, AppendProperties DEF ZnpTransmit, Frames, IInv, TypeOK
  <2>3. /\ answering' \in 0..MaxAnswers
        /\ identified' \in BOOLEAN /\ UNCHANGED <<secured, harmed>>
    BY <1>3, TouchlinkAssumption DEF ZnpTransmit, IInv, TypeOK
  <2>4. TypeOK'
    BY <1>1, <2>1, <2>2, <2>3 DEF IInv, TypeOK, gateway
  <2> QED
    BY <1>1, <2>4, QuietKeepsIInv
<1>4. CASE RemoteAnswer
  <2>1. fromZnp' \in Seq(Frames)
    BY <1>4, AppendProperties DEF RemoteAnswer, Frames, IInv, TypeOK
  <2>2. answering' \in 0..MaxAnswers
    BY <1>4, TouchlinkAssumption DEF RemoteAnswer, IInv, TypeOK
  <2>3. TypeOK'
    BY <1>1, <1>4, <2>1, <2>2 DEF RemoteAnswer, IInv, TypeOK, gateway
  <2> QED
    BY <1>1, <2>3, QuietKeepsIInv
<1>5. CASE DongleReset
  <2>1. toZnp' \in Seq(Requests)
    <3>1. PICK n \in 0..Len(toZnp) : toZnp' = SubSeq(toZnp, n + 1, Len(toZnp))
      BY <1>5 DEF DongleReset
    <3>2. toZnp \in Seq(Requests) /\ Len(toZnp) \in Nat
      BY LenProperties DEF IInv, TypeOK
    <3>3. \A i \in (n + 1)..Len(toZnp) : toZnp[i] \in Requests
      BY <3>2, ElementOfSeq
    <3> QED
      BY <3>1, <3>2, <3>3, SubSeqProperties
  <2>2. fromZnp' \in Seq(Frames)
    BY <1>5, AppendProperties DEF DongleReset, Frames, IInv, TypeOK
  <2>3. TypeOK'
    BY <1>1, <1>5, <2>1, <2>2 DEF DongleReset, IInv, TypeOK, gateway, world
  <2> QED
    BY <1>1, <2>3, QuietKeepsIInv
<1> QED
  BY <1>2, <1>3, <1>4, <1>5 DEF World

-----------------------------------------------------------------------------
(* The theorems *)

\* The invariant behind the three that follow holds in every reachable state.
THEOREM Invariance == Spec => []IInv
<1>1. IInv /\ [Next]_vars => IInv'
  <2> SUFFICES ASSUME IInv, [Next]_vars PROVE IInv'
    OBVIOUS
  <2>1. CASE Gateway
    BY <2>1, StartKeepsIInv, ScanTimeoutKeepsIInv, IdentifyTimeoutKeepsIInv,
       ReadSysFrameKeepsIInv, ReadAfSrspKeepsIInv, ReadScanResponseKeepsIInv,
       SendOtherKeepsIInv DEF Gateway
  <2>2. CASE World
    BY <2>2, WorldKeepsIInv
  <2>3. CASE UNCHANGED vars
    BY <2>3 DEF vars, gateway, world, IInv, TypeOK, TimersBelongToStates,
       ApsSlotBelongsToState, ScanBudget
  <2> QED
    BY <2>1, <2>2, <2>3 DEF Next
<1> QED
  BY InitIInv, <1>1, PTL DEF Spec

\* Every variable keeps its type; in particular _scan_count never passes its
\* bound, so a procedure is acknowledged at most MaxScans scans.
THEOREM TypeCorrectness == Spec => []TypeOK
<1>1. IInv => TypeOK
  BY DEF IInv
<1> QED
  BY <1>1, Invariance, PTL

\* A timer of the touchlink procedure runs exactly in the state that waits for
\* it, with any mixture of lost, failed, late and unsolicited frames.
THEOREM TimersCorrectness == Spec => []TimersBelongToStates
<1>1. IInv => TimersBelongToStates
  BY DEF IInv
<1> QED
  BY <1>1, Invariance, PTL

\* The APS callback slot never holds a callback of another state, although
\* everybody overwrites it and it is called for anybody's answer.
THEOREM ApsSlotCorrectness == Spec => []ApsSlotBelongsToState
<1>1. IInv => ApsSlotBelongsToState
  BY DEF IInv
<1> QED
  BY <1>1, Invariance, PTL

\* No scan is sent once the budget of the procedure is spent.
THEOREM ScanBudgetCorrectness == Spec => []ScanBudget
<1>1. IInv => ScanBudget
  BY DEF IInv
<1> QED
  BY <1>1, Invariance, PTL

-----------------------------------------------------------------------------
(* The order of the requests: what the dongle WILL have done at each of them *)

\* Once the requests before place k of queue q are processed, has "on" been
\* done since the last "off"?  base says so of what was processed before q.
Since(q, k, base, on, off) ==
    \/ \E j \in 1..(k - 1) :
         q[j] = on /\ \A l \in (j + 1)..(k - 1) : q[l] # off
    \/ base /\ \A l \in 1..(k - 1) : q[l] # off

Off(k)      == Since(toZnp, k, ~secured, "disable", "enable")
On(k)       == Since(toZnp, k, secured, "enable", "disable")
Identity(k) == Since(toZnp, k, identified, "identify", "disable")

\* The place of the next request to be written.
Next1 == Len(toZnp) + 1

\* What stands in the queue, and what the state of the machine promises to
\* the request it writes next.
Queued ==
    /\ \A k \in 1..Len(toZnp) : toZnp[k] \in InterPan => Off(k)
    /\ \A k \in 1..Len(toZnp) : toZnp[k] = "reset" => Identity(k)

Promised ==
    /\ sm \in RestStates \ {"ENABLE_SECURITY"} => Off(Next1)
    /\ sm \in {"none", "ENABLE_SECURITY"} => On(Next1)
    /\ sm \in {"IDENTIFY", "WAIT_IDENTIFY", "FACTORY_RESET"} => Identity(Next1)

Order == ~harmed => Queued /\ Promised

-----------------------------------------------------------------------------
(* The queue *)

\* A request at the end changes nothing for those before it, and does to what
\* comes after it what it says.
LEMMA SinceAppend ==
    ASSUME NEW q \in Seq(Requests), NEW r \in Requests, NEW base \in BOOLEAN,
           NEW on, NEW off, on # off
    PROVE  /\ \A k \in 1..(Len(q) + 1) :
                Since(Append(q, r), k, base, on, off) <=> Since(q, k, base, on, off)
           /\ Since(Append(q, r), Len(q) + 2, base, on, off)
                <=> r = on \/ (Since(q, Len(q) + 1, base, on, off) /\ r # off)
<1> DEFINE p == Append(q, r)
           n == Len(q)
<1>1. n \in Nat /\ p[n + 1] = r /\ \A i \in 1..n : p[i] = q[i]
  BY AppendProperties, LenProperties
<1> HIDE DEF p, n
<1>2. \A k \in 1..(n + 1) : Since(p, k, base, on, off) <=> Since(q, k, base, on, off)
  BY <1>1 DEF Since
<1>3. Since(p, n + 2, base, on, off)
        <=> r = on \/ (Since(p, n + 1, base, on, off) /\ r # off)
  <2>1. CASE r = on
    BY <1>1, <2>1 DEF Since
  <2>2. CASE r # on
    BY <1>1, <2>2 DEF Since
  <2> QED
    BY <2>1, <2>2
<1>4. n + 1 \in 1..(n + 1)
  BY <1>1
<1> QED
  BY <1>2, <1>3, <1>4 DEF p, n

\* When the head of the queue has been processed, base says so.
LEMMA SinceTail ==
    ASSUME NEW q \in Seq(Requests), q # <<>>, NEW base \in BOOLEAN, NEW after \in BOOLEAN,
           NEW on, NEW off, on # off,
           after <=> Head(q) = on \/ (base /\ Head(q) # off)
    PROVE  \A k \in 1..(Len(Tail(q)) + 1) :
             Since(Tail(q), k, after, on, off) <=> Since(q, k + 1, base, on, off)
<1> DEFINE t == Tail(q)
           n == Len(t)
<1>1. n \in Nat /\ Head(q) = q[1] /\ \A i \in 1..n : t[i] = q[i + 1]
  BY HeadTailProperties, LenProperties
<1> HIDE DEF t, n
<1> SUFFICES ASSUME NEW k \in 1..(n + 1)
             PROVE  Since(t, k, after, on, off) <=> Since(q, k + 1, base, on, off)
  BY DEF t, n
<1>2. \A i \in 1..(k - 1) : t[i] = q[i + 1]
  BY <1>1
<1>3. ASSUME Since(t, k, after, on, off)
      PROVE  Since(q, k + 1, base, on, off)
  <2>1. CASE \E j \in 1..(k - 1) : t[j] = on /\ \A l \in (j + 1)..(k - 1) : t[l] # off
    <3>1. PICK j \in 1..(k - 1) : t[j] = on /\ \A l \in (j + 1)..(k - 1) : t[l] # off
      BY <2>1
    <3>2. q[j + 1] = on /\ j + 1 \in 1..k
      BY <1>1, <1>2, <3>1
    <3>3. \A l \in (j + 2)..k : q[l] = t[l - 1] /\ l - 1 \in (j + 1)..(k - 1)
      BY <1>1, <1>2
    <3>4. \A l \in (j + 2)..k : q[l] # off
      BY <3>1, <3>3
    <3> QED
      BY <1>1, <3>2, <3>4 DEF Since
  <2>2. CASE after /\ \A l \in 1..(k - 1) : t[l] # off
    <3>1. \A l \in 2..k : q[l] = t[l - 1] /\ l - 1 \in 1..(k - 1)
      BY <1>1, <1>2
    <3>2. \A l \in 2..k : q[l] # off
      BY <2>2, <3>1
    <3>3. CASE q[1] = on
      BY <1>1, <3>2, <3>3 DEF Since
    <3>4. CASE base /\ q[1] # off
      BY <1>1, <3>2, <3>4 DEF Since
    <3> QED
      BY <1>1, <2>2, <3>3, <3>4
  <2> QED
    BY <1>3, <2>1, <2>2 DEF Since
<1>4. ASSUME Since(q, k + 1, base, on, off)
      PROVE  Since(t, k, after, on, off)
  <2>1. CASE \E j \in 1..k : q[j] = on /\ \A l \in (j + 1)..k : q[l] # off
    <3>1. PICK j \in 1..k : q[j] = on /\ \A l \in (j + 1)..k : q[l] # off
      BY <2>1
    <3>2. \A l \in j..(k - 1) : t[l] # off
      BY <1>1, <1>2, <3>1
    <3>3. CASE j = 1
      BY <1>1, <3>1, <3>2, <3>3 DEF Since
    <3>4. CASE j # 1
      <4>1. j - 1 \in 1..(k - 1) /\ t[j - 1] = on
        BY <1>1, <1>2, <3>1, <3>4
      <4>2. \A l \in ((j - 1) + 1)..(k - 1) : t[l] # off
        BY <3>2
      <4> QED
        BY <4>1, <4>2 DEF Since
    <3> QED
      BY <3>3, <3>4
  <2>2. CASE base /\ \A l \in 1..k : q[l] # off
    <3>1. after /\ \A l \in 1..(k - 1) : t[l] # off
      BY <1>1, <1>2, <2>2
    <3> QED
      BY <3>1 DEF Since
  <2>3. (k + 1) - 1 = k
    BY <1>1
  <2> QED
    BY <1>4, <2>1, <2>2, <2>3 DEF Since
<1> QED
  BY <1>3, <1>4

-----------------------------------------------------------------------------
(* The gateway writes *)

\* The steps of the table, and the state once more.
Follows(s) ==
    \/ s = sm
    \/ sm = "none" /\ s = "DISABLE_SECURITY"
    \/ sm = "DISABLE_SECURITY" /\ s = "SEND_SCAN"
    \/ sm = "SEND_SCAN" /\ s = "WAIT_SCAN_RESPONSE"
    \/ sm = "WAIT_SCAN_RESPONSE" /\ s \in {"SEND_SCAN", "IDENTIFY", "ENABLE_SECURITY"}
    \/ sm = "IDENTIFY" /\ s = "WAIT_IDENTIFY"
    \/ sm = "WAIT_IDENTIFY" /\ s = "FACTORY_RESET"
    \/ sm = "FACTORY_RESET" /\ s = "ENABLE_SECURITY"
    \/ sm = "ENABLE_SECURITY" /\ s = "SHUTDOWN"

\* A request that is written is where what it needs is promised, and keeps or
\* makes what the state it was written in promises in its turn.
LEMMA WriteOrder ==
    ASSUME TypeOK, Queued, NEW r \in Requests, toZnp' = Append(toZnp, r),
           UNCHANGED <<secured, identified>>,
           r \in InterPan => Off(Next1),
           r = "reset" => Identity(Next1)
    PROVE  /\ Queued'
           /\ Off(Next1)' <=> r = "disable" \/ (Off(Next1) /\ r # "enable")
           /\ On(Next1)' <=> r = "enable" \/ (On(Next1) /\ r # "disable")
           /\ Identity(Next1)' <=> r = "identify" \/ (Identity(Next1) /\ r # "disable")
<1> DEFINE n       == Len(toZnp)
           OffN(k) == Since(toZnp', k, ~secured', "disable", "enable")
           OnN(k)  == Since(toZnp', k, secured', "enable", "disable")
           IdN(k)  == Since(toZnp', k, identified', "identify", "disable")
<1>1. /\ n \in Nat /\ Len(toZnp') = n + 1 /\ toZnp'[n + 1] = r
      /\ \A i \in 1..n : toZnp'[i] = toZnp[i]
  BY AppendProperties, LenProperties DEF TypeOK
<1>2. /\ \A k \in 1..(n + 1) : OffN(k) <=> Off(k)
      /\ OffN(n + 2) <=> r = "disable" \/ (Off(n + 1) /\ r # "enable")
  <2> DEFINE b == ~secured
  <2>1. b \in BOOLEAN /\ ~secured' = b /\ "disable" # "enable"
    OBVIOUS
  <2> HIDE DEF b
  <2>2. /\ \A k \in 1..(n + 1) : Since(toZnp', k, b, "disable", "enable")
                                   <=> Since(toZnp, k, b, "disable", "enable")
        /\ Since(toZnp', n + 2, b, "disable", "enable")
             <=> r = "disable" \/ (Since(toZnp, n + 1, b, "disable", "enable") /\ r # "enable")
    BY <2>1, SinceAppend DEF TypeOK
  <2> QED
    BY <2>1, <2>2 DEF Off, b
<1>3. OnN(n + 2) <=> r = "enable" \/ (On(n + 1) /\ r # "disable")
  BY SinceAppend DEF On, TypeOK
<1>4. /\ \A k \in 1..(n + 1) : IdN(k) <=> Identity(k)
      /\ IdN(n + 2) <=> r = "identify" \/ (Identity(n + 1) /\ r # "disable")
  BY SinceAppend DEF Identity, TypeOK
<1> HIDE DEF OffN, OnN, IdN
<1>5. Next1 = n + 1 /\ Len(toZnp') + 1 = n + 2
  BY <1>1 DEF Next1
<1>6. \A k \in 1..Len(toZnp') :
        /\ toZnp'[k] \in InterPan => OffN(k)
        /\ toZnp'[k] = "reset" => IdN(k)
  <2> SUFFICES ASSUME NEW k \in 1..(n + 1)
               PROVE  /\ toZnp'[k] \in InterPan => OffN(k)
                      /\ toZnp'[k] = "reset" => IdN(k)
    BY <1>1
  <2>1. CASE k = n + 1
    BY <1>1, <1>2, <1>4, <1>5, <2>1
  <2>2. CASE k \in 1..n
    BY <1>1, <1>2, <1>4, <2>2 DEF Queued
  <2> QED
    BY <1>1, <2>1, <2>2
<1>7. Queued'
  BY <1>6 DEF Queued, Off, Identity, OffN, IdN
<1>8. /\ (Off(Next1))' <=> OffN(n + 2)
      /\ (On(Next1))' <=> OnN(n + 2)
      /\ (Identity(Next1))' <=> IdN(n + 2)
  BY <1>5 DEF Off, On, Identity, Next1, OffN, OnN, IdN
<1> QED
  BY <1>2, <1>3, <1>4, <1>5, <1>7, <1>8

\* Entering a state the table allows keeps the order, or the link has lost the
\* request and the order is void.
LEMMA EnterOrder ==
    ASSUME TypeOK, Order, NEW s, Follows(s), NEW a, NEW b, Enter(s, a, b),
           UNCHANGED <<secured, identified>>
    PROVE  Order'
<1> SUFFICES ASSUME ~harmed' PROVE Queued' /\ Promised'
  BY DEF Order
<1>1. sm \in RestStates \cup {"none"}
  BY DEF TypeOK
<1>2. CASE s \in DOMAIN RequestOf
  <2>1. /\ toZnp' = Append(toZnp, RequestOf[s])
        /\ ~harmed
    BY <1>2 DEF Enter, Write
  <2>2. Queued /\ Promised
    BY <2>1 DEF Order
  <2>3. RequestOf[s] \in Requests
    BY <1>2 DEF RequestOf, Requests, NvWrites, InterPan
  <2>4. /\ RequestOf[s] \in InterPan => Off(Next1)
        /\ RequestOf[s] = "reset" => Identity(Next1)
    BY <1>1, <1>2, <2>2 DEF Follows, Promised, RequestOf, InterPan, RestStates
  <2>5. /\ Queued'
        /\ Off(Next1)' <=> RequestOf[s] = "disable"
                              \/ (Off(Next1) /\ RequestOf[s] # "enable")
        /\ On(Next1)' <=> RequestOf[s] = "enable"
                             \/ (On(Next1) /\ RequestOf[s] # "disable")
        /\ Identity(Next1)' <=> RequestOf[s] = "identify"
                                   \/ (Identity(Next1) /\ RequestOf[s] # "disable")
    BY <2>1, <2>2, <2>3, <2>4, WriteOrder
  <2>6. sm' = s
    BY <1>2 DEF Enter, RequestOf
  <2>7. Promised'
    BY <1>1, <1>2, <2>2, <2>5, <2>6 DEF Follows, Promised, RequestOf, RestStates
  <2> QED
    BY <2>5, <2>7
<1>3. CASE s \notin DOMAIN RequestOf
  <2>1. UNCHANGED toZnp /\ ~harmed
    BY <1>3 DEF Enter
  <2>2. Queued /\ Promised
    BY <2>1 DEF Order
  <2>3. Queued'
    BY <2>1, <2>2 DEF Queued, Off, Identity
  <2>4. /\ (Off(Next1))' <=> Off(Next1)
        /\ (On(Next1))' <=> On(Next1)
        /\ (Identity(Next1))' <=> Identity(Next1)
    BY <2>1 DEF Off, On, Identity, Next1
  <2>5. sm' = IF s = "SHUTDOWN" THEN "none" ELSE s
    BY DEF Enter
  <2>6. Promised'
    BY <1>1, <1>3, <2>2, <2>4, <2>5 DEF Follows, Promised, RequestOf, RestStates
  <2> QED
    BY <2>3, <2>6
<1> QED
  BY <1>2, <1>3

\* What changes neither the machine nor the queue nor the dongle keeps the order.
LEMMA QuietKeepsOrder ==
    ASSUME Order, UNCHANGED <<sm, toZnp, secured, identified, harmed>>
    PROVE  Order'
  BY DEF Order, Queued, Promised, Off, On, Identity, Next1

LEMMA GatewayKeepsOrder ==
    ASSUME IInv, Order, Gateway PROVE Order'
<1>1. TypeOK
  BY DEF IInv
<1>2. CASE StartTouchlink
  <2>1. Enter("DISABLE_SECURITY", FALSE, FALSE) /\ Follows("DISABLE_SECURITY")
    BY <1>2, Targets DEF StartTouchlink, Follows
  <2> QED
    BY <1>1, <1>2, <2>1, EnterOrder DEF StartTouchlink, world
<1>3. CASE ScanTimeout
  <2> DEFINE s == IF scanCount < MaxScans THEN "SEND_SCAN" ELSE "ENABLE_SECURITY"
  <2>1. sm = "WAIT_SCAN_RESPONSE"
    BY <1>3 DEF IInv, ScanTimeout, TypeOK, TimersBelongToStates
  <2>2. Enter(s, FALSE, identifyTimer) /\ Follows(s)
    BY ZenonT(30), <1>3, <2>1, Targets DEF ScanTimeout, Target, Follows
  <2> QED
    BY <1>1, <1>3, <2>2, EnterOrder DEF ScanTimeout, world
<1>4. CASE IdentifyTimeout
  <2>1. sm = "WAIT_IDENTIFY"
    BY <1>4 DEF IInv, IdentifyTimeout, TypeOK, TimersBelongToStates
  <2>2. Enter("FACTORY_RESET", scanTimer, FALSE) /\ Follows("FACTORY_RESET")
    BY <1>4, <2>1, Targets DEF IdentifyTimeout, Target, Follows
  <2> QED
    BY <1>1, <1>4, <2>2, EnterOrder DEF IdentifyTimeout, world
<1>5. CASE ReadSysFrame
  <2>1. UNCHANGED <<secured, identified>>
    BY <1>5 DEF ReadSysFrame, Read, world
  <2>2. CASE UNCHANGED <<gateway, toZnp, harmed>>
    BY <2>1, <2>2, QuietKeepsOrder DEF gateway
  <2>3. CASE sysCb # "core_init" /\ Enter(Target(EventOf[sysCb]), scanTimer, identifyTimer)
    <3>1. EventOf[sysCb] \in {"SECURITY_DISABLED", "SECURITY_ENABLED"}
      BY <1>1, <2>3 DEF TypeOK, EventOf
    <3>2. Follows(Target(EventOf[sysCb]))
      BY <3>1, Targets DEF Target, Follows
    <3> QED
      BY <1>1, <2>1, <2>3, <3>2, EnterOrder
  <2> QED
    BY <1>5, <2>2, <2>3 DEF ReadSysFrame
<1>6. CASE ReadAfSrsp
  <2>1. UNCHANGED <<secured, identified>>
    BY <1>6 DEF ReadAfSrsp, Read, world
  <2>2. CASE UNCHANGED <<gateway, toZnp, harmed>>
    BY <2>1, <2>2, QuietKeepsOrder DEF gateway
  <2>3. CASE apsCb # "none" /\ Enter(Target(EventOf[apsCb]), scanTimer, identifyTimer)
    <3>1. EventOf[apsCb] \in {"SCAN_SENT", "IDENTIFY_REQUEST_SENT", "FACTORY_RESET_SENT"}
      BY <1>1, <2>3 DEF TypeOK, EventOf
    <3>2. Follows(Target(EventOf[apsCb]))
      BY <3>1, Targets DEF Target, Follows
    <3> QED
      BY <1>1, <2>1, <2>3, <3>2, EnterOrder
  <2> QED
    BY <1>6, <2>2, <2>3 DEF ReadAfSrsp
<1>7. CASE ReadScanResponse
  <2>1. Follows(Target("SCAN_RESPONSE_RECEIVED"))
    BY Targets DEF Target, Follows
  <2> QED
    BY <1>1, <1>7, <2>1, EnterOrder DEF ReadScanResponse, Read, world
<1>8. CASE SendOther
  <2> SUFFICES ASSUME ~harmed' PROVE Queued' /\ Promised'
    BY DEF Order
  <2>1. /\ toZnp' = Append(toZnp, "zcl") /\ ~harmed
        /\ UNCHANGED <<sm, secured, identified>>
    BY <1>8 DEF SendOther, Write, world
  <2>2. "zcl" \in Requests /\ "zcl" \notin InterPan
    BY DEF Requests, InterPan
  <2>3. Queued /\ Promised
    BY <2>1 DEF Order
  <2>4. /\ Queued'
        /\ Off(Next1)' <=> Off(Next1)
        /\ On(Next1)' <=> On(Next1)
        /\ Identity(Next1)' <=> Identity(Next1)
    BY <1>1, <2>1, <2>2, <2>3, WriteOrder
  <2>5. Promised'
    BY <2>1, <2>3, <2>4 DEF Promised
  <2> QED
    BY <2>4, <2>5
<1> QED
  BY <1>2, <1>3, <1>4, <1>5, <1>6, <1>7, <1>8 DEF Gateway

-----------------------------------------------------------------------------
(* The dongle reads *)

\* A request processed as it should be moves the whole queue up by one.
LEMMA ProcessOrder ==
    ASSUME TypeOK, TypeOK', Queued, Promised, UNCHANGED sm,
           toZnp # <<>>, toZnp' = Tail(toZnp),
           ~secured' <=> Head(toZnp) = "disable" \/ (~secured /\ Head(toZnp) # "enable"),
           identified' <=> Head(toZnp) = "identify" \/ (identified /\ Head(toZnp) # "disable")
    PROVE  Queued' /\ Promised'
<1> DEFINE n       == Len(toZnp')
           OffN(k) == Since(toZnp', k, ~secured', "disable", "enable")
           OnN(k)  == Since(toZnp', k, secured', "enable", "disable")
           IdN(k)  == Since(toZnp', k, identified', "identify", "disable")
<1>1. /\ n \in Nat /\ Len(toZnp) = n + 1
      /\ \A i \in 1..n : toZnp'[i] = toZnp[i + 1]
  BY HeadTailProperties, LenProperties DEF TypeOK
<1>2. \A k \in 1..(n + 1) : OffN(k) <=> Off(k + 1)
  <2> DEFINE b == ~secured
             c == ~secured'
  <2>1. /\ b \in BOOLEAN /\ c \in BOOLEAN /\ "disable" # "enable"
        /\ c <=> Head(toZnp) = "disable" \/ (b /\ Head(toZnp) # "enable")
    OBVIOUS
  <2> HIDE DEF b, c
  <2>2. \A k \in 1..(n + 1) : Since(toZnp', k, c, "disable", "enable")
                                 <=> Since(toZnp, k + 1, b, "disable", "enable")
    BY <2>1, SinceTail DEF TypeOK
  <2> QED
    BY <2>2 DEF Off, b, c
<1>3. \A k \in 1..(n + 1) : OnN(k) <=> On(k + 1)
  <2>1. Head(toZnp) \in Requests
    BY HeadTailProperties DEF TypeOK
  <2>2. secured' <=> Head(toZnp) = "enable" \/ (secured /\ Head(toZnp) # "disable")
    BY DEF TypeOK
  <2> QED
    BY <2>2, SinceTail DEF On, TypeOK
<1>4. \A k \in 1..(n + 1) : IdN(k) <=> Identity(k + 1)
  BY SinceTail DEF Identity, TypeOK
<1> HIDE DEF OffN, OnN, IdN
<1>5. \A k \in 1..n :
        /\ toZnp'[k] \in InterPan => OffN(k)
        /\ toZnp'[k] = "reset" => IdN(k)
  BY <1>1, <1>2, <1>4 DEF Queued
<1>6. Queued'
  BY <1>5 DEF Queued, Off, Identity, OffN, IdN
<1>7. /\ (Off(Next1))' <=> Off(Next1)
      /\ (On(Next1))' <=> On(Next1)
      /\ (Identity(Next1))' <=> Identity(Next1)
  <2>1. Next1 = (n + 1) + 1 /\ n + 1 \in 1..(n + 1)
    BY <1>1 DEF Next1
  <2>2. /\ OffN(n + 1) <=> Off(Next1)
        /\ OnN(n + 1) <=> On(Next1)
        /\ IdN(n + 1) <=> Identity(Next1)
    BY <1>2, <1>3, <1>4, <2>1
  <2> QED
    BY <2>2 DEF Off, On, Identity, Next1, OffN, OnN, IdN
<1>8. Promised'
  BY <1>7 DEF Promised
<1> QED
  BY <1>6, <1>8

LEMMA WorldKeepsOrder ==
    ASSUME IInv, IInv', Order, World PROVE Order'
<1> SUFFICES ASSUME ~harmed' PROVE Queued' /\ Promised'
  BY DEF Order
<1>1. TypeOK /\ TypeOK' /\ UNCHANGED sm
  BY DEF IInv, World, ZnpNvWrite, ZnpTransmit, RemoteAnswer, DongleReset, gateway
<1>2. ~harmed
  BY DEF World, ZnpNvWrite, ZnpTransmit, RemoteAnswer, DongleReset
<1>3. Queued /\ Promised
  BY <1>2 DEF Order
<1>4. CASE ZnpNvWrite
  <2>1. /\ secured' = (Head(toZnp) = "enable")
        /\ identified' = (identified /\ Head(toZnp) = "enable")
        /\ Head(toZnp) \in {"disable", "enable"}
    BY <1>4 DEF ZnpNvWrite, NvWrites
  <2>2. /\ ~secured' <=> Head(toZnp) = "disable" \/ (~secured /\ Head(toZnp) # "enable")
        /\ identified' <=> Head(toZnp) = "identify"
                              \/ (identified /\ Head(toZnp) # "disable")
    BY <2>1
  <2> QED
    BY <1>1, <1>3, <1>4, <2>2, ProcessOrder DEF ZnpNvWrite
<1>5. CASE ZnpTransmit
  <2>1. /\ UNCHANGED secured
        /\ identified' = (identified \/ Head(toZnp) = "identify")
        /\ Head(toZnp) \notin {"disable", "enable"}
    BY <1>5 DEF ZnpTransmit, NvWrites
  <2>2. /\ ~secured' <=> Head(toZnp) = "disable" \/ (~secured /\ Head(toZnp) # "enable")
        /\ identified' <=> Head(toZnp) = "identify"
                              \/ (identified /\ Head(toZnp) # "disable")
    BY <2>1
  <2> QED
    BY <1>1, <1>3, <1>5, <2>2, ProcessOrder DEF ZnpTransmit
<1>6. CASE RemoteAnswer
  <2>1. Order'
    BY <1>6, QuietKeepsOrder DEF RemoteAnswer, gateway
  <2> QED
    BY <2>1 DEF Order
<1>7. CASE DongleReset
  BY <1>7 DEF DongleReset
<1> QED
  BY <1>4, <1>5, <1>6, <1>7 DEF World

-----------------------------------------------------------------------------
(* The theorems *)

\* Without losses the queue keeps the order the procedure needs, always.
THEOREM OrderInvariance == Spec => [](IInv /\ Order)
<1>1. Init => Order
  <2> SUFFICES ASSUME Init PROVE Order
    OBVIOUS
  <2>1. toZnp = <<>> /\ Len(toZnp) = 0 /\ sm = "none" /\ secured = TRUE
    BY DEF Init
  <2>2. On(Next1)
    BY <2>1 DEF On, Since, Next1
  <2> QED
    BY <2>1, <2>2 DEF Order, Queued, Promised, RestStates
<1>2. IInv /\ IInv' /\ Order /\ [Next]_vars => Order'
  <2> SUFFICES ASSUME IInv, IInv', Order, [Next]_vars PROVE Order'
    OBVIOUS
  <2>1. CASE UNCHANGED vars
    BY <2>1, QuietKeepsOrder DEF vars, gateway, world
  <2> QED
    BY <2>1, GatewayKeepsOrder, WorldKeepsOrder DEF Next
<1> QED
  BY <1>1, <1>2, Invariance, PTL DEF Spec

\* What Since says of the first request is what holds now.
LEMMA SinceFirst ==
    ASSUME NEW q, NEW base \in BOOLEAN, NEW on, NEW off, Since(q, 1, base, on, off)
    PROVE  base
  BY DEF Since

\* As long as no request is lost and the dongle does what it is asked, an
\* inter-pan frame is transmitted with NWK security off only, for any number
\* of procedures, other commands and stray frames.
THEOREM InterPanCorrectness == Spec => []InterPanInTheClear
<1>1. IInv /\ Order => InterPanInTheClear
  <2> SUFFICES ASSUME IInv, Order, ~harmed, toZnp # <<>>, Head(toZnp) \in InterPan
               PROVE  ~secured
    BY DEF InterPanInTheClear
  <2>1. 1 \in 1..Len(toZnp) /\ toZnp[1] = Head(toZnp)
    BY HeadTailProperties, LenProperties, EmptySeq DEF IInv, TypeOK
  <2>2. Off(1)
    BY <2>1 DEF Order, Queued
  <2> QED
    BY <2>2, SinceFirst DEF Off
<1> QED
  BY <1>1, OrderInvariance, PTL

\* Once a procedure is over, the last word to the dongle about security is
\* "enable", if none was lost.
THEOREM SecuredCorrectness == Spec => []SecuredAfterwards
<1>1. IInv /\ Order => SecuredAfterwards
  <2> SUFFICES ASSUME IInv, Order, ~harmed, sm = "none" PROVE SecuredAfterwards
    BY DEF SecuredAfterwards
  <2>1. On(Next1) /\ (Len(toZnp) + 1) - 1 = Len(toZnp)
    BY LenProperties DEF Order, Promised, IInv, TypeOK
  <2> QED
    BY <2>1 DEF On, Since, Next1, SecuredAfterwards
<1> QED
  BY <1>1, OrderInvariance, PTL

\* No device is reset that was not told to identify itself since security
\* was switched off for the procedure, if no request was lost.
THEOREM IdentifiedCorrectness == Spec => []IdentifiedBeforeReset
<1>1. IInv /\ Order => IdentifiedBeforeReset
  <2> SUFFICES ASSUME IInv, Order, ~harmed, toZnp # <<>>, Head(toZnp) = "reset"
               PROVE  identified
    BY DEF IdentifiedBeforeReset
  <2>1. 1 \in 1..Len(toZnp) /\ toZnp[1] = Head(toZnp)
    BY HeadTailProperties, LenProperties, EmptySeq DEF IInv, TypeOK
  <2>2. Identity(1)
    BY <2>1 DEF Order, Queued
  <2> QED
    BY <2>2, SinceFirst DEF Identity, IInv, TypeOK
<1> QED
  BY <1>1, OrderInvariance, PTL

-----------------------------------------------------------------------------
(* The window without security *)

In(x, q) == \E i \in 1..Len(q) : q[i] = x

LEMMA InAppend ==
    ASSUME NEW S, NEW q \in Seq(S), NEW r \in S, NEW x
    PROVE  In(x, Append(q, r)) <=> In(x, q) \/ r = x
<1> DEFINE p == Append(q, r)
           n == Len(q)
<1>1. n \in Nat /\ Len(p) = n + 1 /\ p[n + 1] = r /\ \A i \in 1..n : p[i] = q[i]
  BY AppendProperties, LenProperties
<1> HIDE DEF p, n
<1>2. (\E i \in 1..(n + 1) : p[i] = x) <=> (\E i \in 1..n : q[i] = x) \/ r = x
  BY <1>1
<1> QED
  BY <1>1, <1>2 DEF In, p, n

LEMMA InTail ==
    ASSUME NEW S, NEW q \in Seq(S), q # <<>>
    PROVE  /\ In(Head(q), q)
           /\ \A x : In(x, Tail(q)) => In(x, q)
<1> DEFINE t == Tail(q)
           n == Len(t)
<1>1. n \in Nat /\ Len(q) = n + 1 /\ Head(q) = q[1] /\ \A i \in 1..n : t[i] = q[i + 1]
  BY HeadTailProperties, LenProperties
<1> HIDE DEF t, n
<1>2. 1 \in 1..(n + 1) /\ \A i \in 1..n : i + 1 \in 1..(n + 1)
  BY <1>1
<1> QED
  BY <1>1, <1>2 DEF In, t, n

\* While only writes may be lost: from the moment the machine resets a device,
\* the procedure's "disable" has left the link and so has its answer, because
\* the identify timer outlasts them; the answer to an "enable" means it was
\* obeyed.
Shut ==
    /\ ~In("reset_ind", fromZnp)
    /\ sm \in {"none", "FACTORY_RESET", "ENABLE_SECURITY"} => ~In("disable", toZnp)
    /\ sm = "none" => secured
    /\ sm = "FACTORY_RESET" => ~In("enable", toZnp) /\ ~In("nv_srsp", fromZnp)
    /\ sm = "ENABLE_SECURITY" /\ In("nv_srsp", fromZnp) => secured

\* What the loop does to the frames of the dongle: nothing, or it reads one.
LEMMA ReadIn ==
    ASSUME TypeOK, UNCHANGED fromZnp \/ \E frames : Read(frames)
    PROVE  \A x : In(x, fromZnp)' => In(x, fromZnp)
<1>1. CASE UNCHANGED fromZnp
  BY <1>1 DEF In
<1>2. CASE \E frames : Read(frames)
  <2>1. fromZnp # <<>> /\ fromZnp' = Tail(fromZnp)
    BY <1>2 DEF Read
  <2>2. \A x : In(x, Tail(fromZnp)) => In(x, fromZnp)
    BY <2>1, InTail DEF TypeOK
  <2> QED
    BY <2>1, <2>2 DEF In
<1> QED
  BY <1>1, <1>2

\* An entry function adds the request of its state at most.
LEMMA EnterIn ==
    ASSUME TypeOK, NEW s, NEW a, NEW b, Enter(s, a, b), NEW x, In(x, toZnp)'
    PROVE  In(x, toZnp) \/ (s \in DOMAIN RequestOf /\ RequestOf[s] = x)
<1>1. CASE UNCHANGED toZnp
  BY <1>1 DEF In
<1>2. CASE s \in DOMAIN RequestOf /\ toZnp' = Append(toZnp, RequestOf[s])
  <2>1. RequestOf[s] \in Requests
    BY <1>2 DEF RequestOf, Requests, NvWrites, InterPan
  <2>2. In(x, Append(toZnp, RequestOf[s])) <=> In(x, toZnp) \/ RequestOf[s] = x
    BY <2>1, InAppend DEF TypeOK
  <2> QED
    BY <1>2, <2>2 DEF In
<1> QED
  BY <1>1, <1>2 DEF Enter, Write

\* The ways into the states that close the window.
Admits(s) ==
    \/ s = sm
    \/ s \notin {"FACTORY_RESET", "ENABLE_SECURITY", "SHUTDOWN", "none"}
    \/ sm = "FACTORY_RESET" /\ s = "ENABLE_SECURITY"
    \/ sm = "ENABLE_SECURITY" /\ s = "SHUTDOWN" /\ secured
    \/ s \in {"FACTORY_RESET", "ENABLE_SECURITY"} /\ toZnp = <<>> /\ ~In("nv_srsp", fromZnp)

LEMMA EnterShut ==
    ASSUME TypeOK, Shut, NEW s, Admits(s), NEW a, NEW b, Enter(s, a, b),
           UNCHANGED secured, UNCHANGED fromZnp \/ \E frames : Read(frames)
    PROVE  Shut' /\ [Window!Next]_(Window!vars)
<1>1. sm' = IF s = "SHUTDOWN" THEN "none" ELSE s
  BY DEF Enter
<1>2. \A x : In(x, fromZnp)' => In(x, fromZnp)
  BY ReadIn
<1>3. \A x : In(x, toZnp)' => In(x, toZnp) \/ (s \in DOMAIN RequestOf /\ RequestOf[s] = x)
  BY EnterIn
<1>4. s \in DOMAIN RequestOf =>
        /\ RequestOf[s] = "disable" => s = "DISABLE_SECURITY"
        /\ RequestOf[s] = "enable" => s = "ENABLE_SECURITY"
  BY DEF RequestOf
<1>5. toZnp = <<>> => \A x : ~In(x, toZnp)
  BY EmptySeq DEF In
<1> DEFINE off    == In("disable", toZnp)
           on     == In("enable", toZnp)
           done   == In("nv_srsp", fromZnp)
           restart == In("reset_ind", fromZnp)
<1>6. /\ off' => off \/ s = "DISABLE_SECURITY"
      /\ on' => on \/ s = "ENABLE_SECURITY"
      /\ done' => done
      /\ restart' => restart
      /\ toZnp = <<>> => ~off /\ ~on
  BY <1>2, <1>3, <1>4, <1>5
<1> HIDE DEF off, on, done, restart
<1>7. Shut <=>
        /\ ~restart
        /\ sm \in {"none", "FACTORY_RESET", "ENABLE_SECURITY"} => ~off
        /\ sm = "none" => secured
        /\ sm = "FACTORY_RESET" => ~on /\ ~done
        /\ sm = "ENABLE_SECURITY" /\ done => secured
  BY DEF Shut, off, on, done, restart
<1>8. Shut' <=>
        /\ ~restart'
        /\ sm' \in {"none", "FACTORY_RESET", "ENABLE_SECURITY"} => ~off'
        /\ sm' = "none" => secured'
        /\ sm' = "FACTORY_RESET" => ~on' /\ ~done'
        /\ sm' = "ENABLE_SECURITY" /\ done' => secured'
  BY DEF Shut, off, on, done, restart
<1>9. /\ Shut'
      /\ (sm = "none") # (sm' = "none") => secured
  <2>1. CASE s = sm /\ s # "SHUTDOWN"
    BY <1>1, <1>6, <1>7, <1>8, <2>1
  <2>2. CASE s \notin {"FACTORY_RESET", "ENABLE_SECURITY", "SHUTDOWN", "none"}
    BY <1>1, <1>6, <1>7, <1>8, <2>2
  <2>3. CASE sm = "FACTORY_RESET" /\ s = "ENABLE_SECURITY"
    BY <1>1, <1>6, <1>7, <1>8, <2>3
  <2>4. CASE sm = "ENABLE_SECURITY" /\ s = "SHUTDOWN" /\ secured
    BY <1>1, <1>6, <1>7, <1>8, <2>4
  <2>5. CASE s \in {"FACTORY_RESET", "ENABLE_SECURITY"} /\ toZnp = <<>> /\ ~done
    BY <1>1, <1>6, <1>7, <1>8, <2>5
  <2>6. sm # "SHUTDOWN"
    BY DEF TypeOK, RestStates
  <2> QED
    BY <2>1, <2>2, <2>3, <2>4, <2>5, <2>6 DEF Admits, done
<1>10. [Window!Next]_(Window!vars)
  <2>1. CASE (sm = "none") = (sm' = "none")
    BY <2>1 DEF Window!vars
  <2>2. CASE (sm = "none") # (sm' = "none")
    BY <1>9, <2>2 DEF Window!Next, Window!Begin, Window!End
  <2> QED
    BY <2>1, <2>2
<1> QED
  BY <1>9, <1>10

Shown == Shut' /\ [Window!Next]_(Window!vars)

\* A step that neither the machine nor the dongle's security takes part in.
LEMMA AsideShut ==
    ASSUME TypeOK, Shut, UNCHANGED <<sm, secured>>,
           \A x \in NvWrites : In(x, toZnp)' => In(x, toZnp),
           \A x \in {"nv_srsp", "reset_ind"} : In(x, fromZnp)' => In(x, fromZnp)
    PROVE  Shown
<1>1. /\ In("disable", toZnp)' => In("disable", toZnp)
      /\ In("enable", toZnp)' => In("enable", toZnp)
      /\ In("nv_srsp", fromZnp)' => In("nv_srsp", fromZnp)
      /\ In("reset_ind", fromZnp)' => In("reset_ind", fromZnp)
  BY DEF NvWrites
<1>2. Shut'
  BY <1>1 DEF Shut
<1>3. UNCHANGED Window!vars
  BY DEF Window!vars
<1> QED
  BY <1>2, <1>3 DEF Shown

LEMMA GatewayShown ==
    ASSUME Faults \subseteq {"lost_write"}, IInv, Shut, Gateway
    PROVE  Shown
<1>1. TypeOK
  BY DEF IInv
<1>2. CASE StartTouchlink
  <2>1. Enter("DISABLE_SECURITY", FALSE, FALSE) /\ UNCHANGED <<fromZnp, secured>>
    BY <1>2, Targets DEF StartTouchlink, world
  <2>2. Admits("DISABLE_SECURITY")
    BY DEF Admits
  <2> QED
    BY <1>1, <2>1, <2>2, EnterShut DEF Shown
<1>3. LinkQuiet => toZnp = <<>> /\ ~In("nv_srsp", fromZnp)
  BY DEF LinkQuiet, Srsps, In
<1>4. CASE ScanTimeout
  <2> DEFINE s == IF scanCount < MaxScans THEN "SEND_SCAN" ELSE "ENABLE_SECURITY"
  <2>1. sm = "WAIT_SCAN_RESPONSE"
    BY <1>4 DEF IInv, ScanTimeout, TypeOK, TimersBelongToStates
  <2>2. Enter(s, FALSE, identifyTimer)
    BY ZenonT(30), <1>4, <2>1, Targets DEF ScanTimeout, Target
  <2>3. Admits(s) /\ UNCHANGED <<fromZnp, secured>>
    BY <1>3, <1>4 DEF Admits, ScanTimeout, world
  <2> QED
    BY <1>1, <2>2, <2>3, EnterShut DEF Shown
<1>5. CASE IdentifyTimeout
  <2>1. sm = "WAIT_IDENTIFY"
    BY <1>5 DEF IInv, IdentifyTimeout, TypeOK, TimersBelongToStates
  <2>2. Enter("FACTORY_RESET", scanTimer, FALSE)
    BY <1>5, <2>1, Targets DEF IdentifyTimeout, Target
  <2>3. Admits("FACTORY_RESET") /\ UNCHANGED <<fromZnp, secured>>
    BY <1>3, <1>5 DEF Admits, IdentifyTimeout, world
  <2> QED
    BY <1>1, <2>2, <2>3, EnterShut DEF Shown
\* Frames read: either nobody cares, or the machine takes an event.
<1>6. ASSUME NEW frames, Read(frames), UNCHANGED <<gateway, toZnp, harmed>>
      PROVE  Shown
  <2>1. \A x : In(x, fromZnp)' => In(x, fromZnp)
    BY <1>1, <1>6, ReadIn
  <2>2. \A x : In(x, toZnp)' => In(x, toZnp)
    BY <1>6 DEF In
  <2>3. UNCHANGED <<sm, secured>>
    BY <1>6 DEF Read, gateway, world
  <2> QED
    BY <1>1, <2>1, <2>2, <2>3, AsideShut
<1>7. ASSUME NEW frames, Read(frames), NEW s, NEW a, NEW b, Enter(s, a, b), Admits(s)
      PROVE  Shown
  <2>1. UNCHANGED secured
    BY <1>7 DEF Read, world
  <2> QED
    BY <1>1, <1>7, <2>1, EnterShut DEF Shown
<1>8. CASE ReadSysFrame
  <2>1. Read({"nv_srsp", "reset_ind"})
    BY <1>8 DEF ReadSysFrame
  <2>2. CASE sysCb # "core_init" /\ Enter(Target(EventOf[sysCb]), scanTimer, identifyTimer)
    <3> DEFINE s == Target(EventOf[sysCb])
    <3>1. EventOf[sysCb] \in {"SECURITY_DISABLED", "SECURITY_ENABLED"}
      BY <1>1, <2>2 DEF TypeOK, EventOf
    <3>2. \/ s = sm
          \/ s = "SEND_SCAN"
          \/ sm = "ENABLE_SECURITY" /\ s = "SHUTDOWN"
      BY <3>1, Targets DEF Target
    <3>3. In("nv_srsp", fromZnp)
      <4>1. fromZnp # <<>> /\ Head(fromZnp) \in {"nv_srsp", "reset_ind"}
        BY <2>1 DEF Read
      <4>2. In(Head(fromZnp), fromZnp)
        BY <1>1, <4>1, InTail DEF TypeOK
      <4> QED
        BY <4>1, <4>2 DEF Shut
    <3>4. Admits(s)
      BY <3>2, <3>3 DEF Admits, Shut
    <3> QED
      BY <1>7, <2>1, <2>2, <3>4
  <2> QED
    BY <1>6, <1>8, <2>1, <2>2 DEF ReadSysFrame
<1>9. CASE ReadAfSrsp
  <2>1. Read({"af_srsp"})
    BY <1>9 DEF ReadAfSrsp
  <2>2. CASE apsCb # "none" /\ Enter(Target(EventOf[apsCb]), scanTimer, identifyTimer)
    <3>1. EventOf[apsCb] \in {"SCAN_SENT", "IDENTIFY_REQUEST_SENT", "FACTORY_RESET_SENT"}
      BY <1>1, <2>2 DEF TypeOK, EventOf
    <3>2. Admits(Target(EventOf[apsCb]))
      BY <3>1, Targets DEF Target, Admits
    <3> QED
      BY <1>7, <2>1, <2>2, <3>2
  <2> QED
    BY <1>6, <1>9, <2>1, <2>2 DEF ReadAfSrsp
<1>10. CASE ReadScanResponse
  <2>1. Admits(Target("SCAN_RESPONSE_RECEIVED"))
    BY Targets DEF Target, Admits
  <2> QED
    BY <1>7, <1>10, <2>1 DEF ReadScanResponse
<1>11. CASE SendOther
  <2>1. Write("zcl") /\ UNCHANGED <<sm, secured, fromZnp>>
    BY <1>11 DEF SendOther, world
  <2>2. \A x \in NvWrites : In(x, toZnp)' => In(x, toZnp)
    <3>1. CASE toZnp' = Append(toZnp, "zcl")
      <4>1. "zcl" \in Requests /\ \A x \in NvWrites : x # "zcl"
        BY DEF Requests, NvWrites
      <4>2. \A x \in NvWrites : In(x, Append(toZnp, "zcl")) => In(x, toZnp)
        BY <1>1, <4>1, InAppend DEF TypeOK
      <4> QED
        BY <3>1, <4>2 DEF In
    <3>2. CASE UNCHANGED toZnp
      BY <3>2 DEF In
    <3> QED
      BY <2>1, <3>1, <3>2 DEF Write
  <2>3. \A x : In(x, fromZnp)' => In(x, fromZnp)
    BY <2>1 DEF In
  <2> QED
    BY <1>1, <2>1, <2>2, <2>3, AsideShut
<1> QED
  BY <1>2, <1>4, <1>5, <1>8, <1>9, <1>10, <1>11 DEF Gateway

\* What the dongle takes off the link and what it puts there.
LEMMA DongleIn ==
    ASSUME TypeOK, NEW frame \in Frames, fromZnp' = Append(fromZnp, frame)
    PROVE  \A x : In(x, fromZnp)' => In(x, fromZnp) \/ frame = x
<1>1. \A x : In(x, Append(fromZnp, frame)) => In(x, fromZnp) \/ frame = x
  BY InAppend DEF TypeOK
<1> QED
  BY <1>1 DEF In

LEMMA LinkIn ==
    ASSUME TypeOK, toZnp # <<>>, toZnp' = Tail(toZnp)
    PROVE  In(Head(toZnp), toZnp) /\ \A x : In(x, toZnp)' => In(x, toZnp)
<1>1. In(Head(toZnp), toZnp) /\ \A x : In(x, Tail(toZnp)) => In(x, toZnp)
  BY InTail DEF TypeOK
<1> QED
  BY <1>1 DEF In

LEMMA WorldShown ==
    ASSUME Faults \subseteq {"lost_write"}, IInv, Shut, World
    PROVE  Shown
<1>1. TypeOK /\ UNCHANGED sm
  BY DEF IInv, World, ZnpNvWrite, ZnpTransmit, RemoteAnswer, DongleReset, gateway
<1>2. CASE ZnpNvWrite
  <2>1. In(Head(toZnp), toZnp) /\ \A x : In(x, toZnp)' => In(x, toZnp)
    BY <1>1, <1>2, LinkIn DEF ZnpNvWrite
  <2>2. \A x : In(x, fromZnp)' => In(x, fromZnp) \/ x = "nv_srsp"
    BY <1>1, <1>2, DongleIn DEF ZnpNvWrite, Frames
  <2>3. secured' = (Head(toZnp) = "enable") /\ Head(toZnp) \in {"disable", "enable"}
    BY <1>2 DEF ZnpNvWrite, NvWrites
  <2>4. /\ In("disable", toZnp)' => In("disable", toZnp)
        /\ In("reset_ind", fromZnp)' => In("reset_ind", fromZnp)
    BY <2>1, <2>2
  <2>5. CASE Head(toZnp) = "disable"
    <3>1. sm \notin {"none", "FACTORY_RESET", "ENABLE_SECURITY"}
      BY <2>1, <2>5 DEF Shut
    <3>2. Shut'
      BY <1>1, <2>4, <3>1 DEF Shut
    <3>3. [Window!Next]_(Window!vars)
      <4>1. CASE secured
        BY <1>1, <2>3, <2>5, <3>1, <4>1 DEF Window!Next, Window!Open
      <4>2. CASE ~secured
        BY <1>1, <2>3, <2>5, <4>2 DEF Window!vars
      <4> QED
        BY <4>1, <4>2
    <3> QED
      BY <3>2, <3>3 DEF Shown
  <2>6. CASE Head(toZnp) = "enable"
    <3>1. sm # "FACTORY_RESET" /\ secured'
      BY <2>1, <2>3, <2>6 DEF Shut
    <3>2. Shut'
      BY <1>1, <2>4, <3>1 DEF Shut
    <3>3. [Window!Next]_(Window!vars)
      <4>1. CASE secured
        BY <1>1, <2>3, <2>6, <4>1 DEF Window!vars, TypeOK
      <4>2. CASE ~secured
        BY <1>1, <3>1, <4>2 DEF Window!Next, Window!Close, Shut
      <4> QED
        BY <4>1, <4>2
    <3> QED
      BY <3>2, <3>3 DEF Shown
  <2> QED
    BY <2>3, <2>5, <2>6
<1>3. CASE ZnpTransmit
  <2>1. \A x : In(x, toZnp)' => In(x, toZnp)
    BY <1>1, <1>3, LinkIn DEF ZnpTransmit
  <2>2. \A x : In(x, fromZnp)' => In(x, fromZnp) \/ x = "af_srsp"
    BY <1>1, <1>3, DongleIn DEF ZnpTransmit, Frames
  <2>3. UNCHANGED <<sm, secured>>
    BY <1>1, <1>3 DEF ZnpTransmit
  <2> QED
    BY <1>1, <2>1, <2>2, <2>3, AsideShut
<1>4. CASE RemoteAnswer
  <2>1. \A x : In(x, fromZnp)' => In(x, fromZnp) \/ x = "scan_response"
    BY <1>1, <1>4, DongleIn DEF RemoteAnswer, Frames
  <2>2. UNCHANGED <<sm, secured, toZnp>>
    BY <1>1, <1>4 DEF RemoteAnswer
  <2>3. \A x : In(x, toZnp)' => In(x, toZnp)
    BY <2>2 DEF In
  <2> QED
    BY <1>1, <2>1, <2>2, <2>3, AsideShut
<1>5. CASE DongleReset
  BY <1>5 DEF DongleReset
<1> QED
  BY <1>2, <1>3, <1>4, <1>5 DEF World

\* The network never works without security but for a procedure under way,
\* and none ends before security is on again: as long as the dongle obeys,
\* does not restart and answers before the timers fire.  Writes may be lost
\* and the other users of the slot may do as they like.
THEOREM WindowRefinement ==
    ASSUME Faults \subseteq {"lost_write"}
    PROVE  Spec => WindowSpec
<1>1. Init => Shut /\ Window!Init
  <2>1. \A x : ~In(x, <<>>)
    BY EmptySeq DEF In
  <2> QED
    BY <2>1 DEF Init, Shut, Window!Init
<1>2. IInv /\ Shut /\ [Next]_vars => Shown
  <2> SUFFICES ASSUME IInv, Shut, [Next]_vars PROVE Shown
    OBVIOUS
  <2>1. CASE UNCHANGED vars
    <3>1. UNCHANGED <<sm, secured, toZnp, fromZnp>> /\ TypeOK
      BY <2>1 DEF vars, gateway, world, IInv
    <3>2. (\A x : In(x, toZnp)' => In(x, toZnp)) /\ (\A x : In(x, fromZnp)' => In(x, fromZnp))
      BY <3>1 DEF In
    <3> QED
      BY <3>1, <3>2, AsideShut
  <2> QED
    BY <2>1, GatewayShown, WorldShown DEF Next
<1>3. Shown => Shut' /\ [Window!Next]_(Window!vars)
  BY DEF Shown
<1> QED
  BY <1>1, <1>2, <1>3, Invariance, PTL DEF Spec, WindowSpec, Window!Spec
=============================================================================
