------------------------- MODULE GatewayInitProofs --------------------------
(***************************************************************************)
(* Machine-checked theorems about GatewayInit, for any number of starts,   *)
(* any bound of the link and any set of faults: type correctness; the      *)
(* lists in step with the dongle as long as nothing interferes; what the   *)
(* end of the lists means; that only a configured dongle is started.       *)
(***************************************************************************)
EXTENDS GatewayInit, SequenceTheorems, TLAPS

Answers == Requests \cup {"startup_srsp"}

\* What a step of either list is: a request, or a list that is one.
LEMMA ListEntries ==
    \A l \in {"reset", "restart"} :
      /\ Len(Lists[l]) \in Nat
      /\ \A k \in 1..Len(Lists[l]) :
           Lists[l][k] \in Requests \cup {"zll", "zha", "zdp"}
  BY SMTT(30) DEF Lists, Requests, Settings, AfRequests, ZdoRequests

\* The step after the list of ZDP is one of the core's own.
LEMMA ZdpSkipped ==
    \A l \in {"reset", "restart"} : \A k \in 1..Len(Lists[l]) :
      Lists[l][k] = "zdp" => k + 1 <= Len(Lists[l]) /\ Lists[l][k + 1] = "startup"
<1>1. /\ Len(Lists["reset"]) = 16 /\ Lists["reset"][14] = "startup"
      /\ \A k \in 1..16 : Lists["reset"][k] = "zdp" => k = 13
  BY DEF Lists
<1>2. /\ Len(Lists["restart"]) = 11 /\ Lists["restart"][8] = "startup"
      /\ \A k \in 1..11 : Lists["restart"][k] = "zdp" => k = 7
  BY DEF Lists
<1> TAKE l \in {"reset", "restart"}
<1>3. CASE l = "reset"
  <2> SUFFICES ASSUME NEW k \in 1..16, Lists["reset"][k] = "zdp"
               PROVE  k + 1 <= 16 /\ Lists["reset"][k + 1] = "startup"
    BY <1>1, <1>3
  <2>1. k = 13
    BY <1>1
  <2> QED
    BY <1>1, <2>1
<1>4. CASE l = "restart"
  <2> SUFFICES ASSUME NEW k \in 1..11, Lists["restart"][k] = "zdp"
               PROVE  k + 1 <= 11 /\ Lists["restart"][k + 1] = "startup"
    BY <1>2, <1>4
  <2>1. k = 7
    BY <1>2
  <2> QED
    BY <1>2, <2>1
<1> QED
  BY <1>3, <1>4

LEMMA ProfileEntries ==
    /\ DOMAIN Profiles = {"zll", "zha"}
    /\ \A p \in {"zll", "zha"} :
         /\ Len(Profiles[p]) \in Nat \ {0}
         /\ \A k \in 1..Len(Profiles[p]) :
              Profiles[p][k] \in AfRequests /\ Profiles[p][k] \notin ZdoRequests
    /\ Len(Profiles["zll"]) = 3 /\ Len(Profiles["zha"]) = 1
  BY DEF Profiles, ZllList, ZhaList, AfRequests, ZdoRequests

\* No request is named like a list.
LEMMA RequestsAreNoLists == "zll" \notin Requests /\ "zha" \notin Requests /\ "zdp" \notin Requests
  BY DEF Requests, Settings, AfRequests, ZdoRequests

LEMMA LayersTyped == \A r : LayerOf(r) \in Layers
  BY DEF LayerOf, Layers

-----------------------------------------------------------------------------
(* Types *)

Positions == [core : 0..Len(CoreList), zll : 0..3, zha : 0..1]

\* Whatever is lost, a request that is sent leaves the types as they are.
LEMMA SendTyped ==
    ASSUME TypeOK, NEW owner \in Owners, NEW p \in Positions, NEW r \in Requests,
           Send(owner, p, r)
    PROVE  /\ initialized' \in BOOLEAN
           /\ pos' \in Positions
           /\ slot' \in [Layers -> Owners]
           /\ toZnp' \in Seq(Requests)
           /\ disturbed' \subseteq {"lost", "command", "reset"}
<1>1. toZnp' \in Seq(Requests)
  <2>1. toZnp \in Seq(Requests)
    BY DEF TypeOK
  <2>2. Append(toZnp, r) \in Seq(Requests)
    BY <2>1, AppendProperties
  <2> QED
    BY <2>1, <2>2 DEF Send, Write
<1>2. disturbed' \subseteq {"lost", "command", "reset"}
  BY DEF Send, Write, TypeOK
<1>3. slot' \in [Layers -> Owners]
  BY LayersTyped DEF Send, TypeOK
<1> QED
  BY <1>1, <1>2, <1>3 DEF Send, TypeOK

\* The next step of the core's list exists, or the list is through.
LEMMA NextStepTyped ==
    ASSUME TypeOK
    PROVE  /\ NextStep \in Nat \ {0}
           /\ NextStep <= Len(CoreList) =>
                /\ NextStep \in 1..Len(CoreList)
                /\ CoreList[NextStep] \in Requests \cup {"zll", "zha"}
<1>1. /\ list \in {"reset", "restart"} /\ pos.core \in 0..Len(CoreList)
      /\ Len(CoreList) \in Nat
  BY ListEntries DEF TypeOK, CoreList
<1>2. CASE pos.core < Len(CoreList) /\ CoreList[pos.core + 1] = "zdp"
  <2>1. NextStep = pos.core + 2 /\ pos.core + 1 \in 1..Len(CoreList)
    BY <1>1, <1>2 DEF NextStep
  <2>2. (pos.core + 1) + 1 = pos.core + 2
    BY <1>1
  <2>3. CoreList[pos.core + 2] = "startup"
    BY <1>1, <1>2, <2>1, <2>2, ZdpSkipped DEF CoreList
  <2>4. "startup" \in Requests
    BY DEF Requests, ZdoRequests
  <2> QED
    BY <1>1, <2>1, <2>3, <2>4
<1>3. CASE ~(pos.core < Len(CoreList) /\ CoreList[pos.core + 1] = "zdp")
  <2>1. NextStep = pos.core + 1
    BY <1>3 DEF NextStep
  <2>2. NextStep <= Len(CoreList) => NextStep \in 1..Len(CoreList) /\ CoreList[NextStep] # "zdp"
    BY <1>1, <1>3, <2>1
  <2> QED
    BY <1>1, <2>1, <2>2, ListEntries DEF CoreList
<1> QED
  BY <1>2, <1>3

\* A callback leaves the types as they are.
LEMMA CallTyped ==
    ASSUME TypeOK, NEW c \in Owners, Call(c)
    PROVE  /\ initialized' \in BOOLEAN
           /\ pos' \in Positions
           /\ slot' \in [Layers -> Owners]
           /\ toZnp' \in Seq(Requests)
           /\ disturbed' \subseteq {"lost", "command", "reset"}
<1>1. pos \in Positions
  BY DEF TypeOK, Positions
<1>2. CASE c = "none"
  BY <1>1, <1>2, ProfileEntries DEF Call, ContinueCore, TypeOK
<1>3. CASE c \in DOMAIN Profiles /\ ~Through(c)
  <2> DEFINE p == [pos EXCEPT ![c] = @ + 1]
  <2>1. c \in {"zll", "zha"} /\ pos[c] \in Nat /\ pos[c] + 1 \in 1..Len(Profiles[c])
    BY <1>1, <1>3, ProfileEntries DEF Through, Positions
  <2>2. p \in Positions
    BY <1>1, <2>1, ProfileEntries DEF Positions
  <2>3. Profiles[c][pos[c] + 1] \in Requests
    BY <2>1, ProfileEntries DEF Requests
  <2>4. Send(c, p, Profiles[c][pos[c] + 1])
    BY <1>3, <2>1 DEF Call
  <2> QED
    BY <2>2, <2>3, <2>4, SendTyped
<1>4. CASE ContinueCore
  <2>1. CASE NextStep > Len(CoreList)
    <3>1. initialized' = TRUE /\ UNCHANGED <<pos, slot, toZnp, disturbed>>
      BY <1>4, <2>1, NextStepTyped, ListEntries DEF ContinueCore, TypeOK, CoreList
    <3> QED
      BY <1>1, <3>1 DEF TypeOK
  <2>2. CASE NextStep <= Len(CoreList) /\ CoreList[NextStep] \in DOMAIN Profiles
    <3> DEFINE q == CoreList[NextStep]
               p == [pos EXCEPT !.core = NextStep, ![q] = 1]
    <3>1. q \in {"zll", "zha"} /\ NextStep \in 1..Len(CoreList)
      BY <2>2, NextStepTyped, ProfileEntries
    <3>2. p \in Positions
      <4> DEFINE p1 == [pos EXCEPT !.core = NextStep]
      <4>1. p1 \in Positions
        BY <1>1, <3>1 DEF Positions
      <4>2. p = [p1 EXCEPT ![q] = 1]
        BY <1>1, <3>1 DEF Positions
      <4> HIDE DEF p1, q
      <4>3. [p1 EXCEPT ![q] = 1] \in Positions
        BY <3>1, <4>1 DEF Positions
      <4> QED
        BY <4>2, <4>3 DEF q
    <3>3. Profiles[q][1] \in Requests
      BY <3>1, ProfileEntries DEF Requests
    <3>4. Send(q, p, Profiles[q][1])
      BY <1>4, <2>2, NextStepTyped, ListEntries DEF ContinueCore, TypeOK, CoreList
    <3>5. q \in Owners
      BY <3>1 DEF Owners
    <3> QED
      BY <3>2, <3>3, <3>4, <3>5, SendTyped
  <2>3. CASE NextStep <= Len(CoreList) /\ CoreList[NextStep] \notin DOMAIN Profiles
    <3> DEFINE p == [pos EXCEPT !.core = NextStep]
    <3>1. CoreList[NextStep] \in Requests /\ NextStep \in 1..Len(CoreList)
      BY <2>3, NextStepTyped, ProfileEntries
    <3>2. p \in Positions
      BY <1>1, <3>1 DEF Positions
    <3>3. Send("core", p, CoreList[NextStep])
      BY <1>4, <2>3, NextStepTyped, ListEntries DEF ContinueCore, TypeOK, CoreList
    <3> QED
      BY <3>1, <3>2, <3>3, SendTyped DEF Owners
  <2>4. Len(CoreList) \in Nat /\ NextStep \in Nat
    BY NextStepTyped, ListEntries DEF TypeOK, CoreList
  <2> QED
    BY <2>1, <2>2, <2>3, <2>4
<1> QED
  BY <1>2, <1>3, <1>4 DEF Call, Owners

\* A restart of the dongle, or a request, leaves its memory well typed.
LEMMA DongleTyped ==
    ASSUME TypeOK, NEW r, Restarted \/ Serve(r)
    PROVE  /\ nv' \in [clear : BOOLEAN, key : 0..boots, settings : SUBSET Settings]
           /\ znp' \in [endpoints : SUBSET AfRequests, started : BOOLEAN]
<1>1. 0 \in 0..boots
  BY GatewayInitAssumption DEF TypeOK
<1>2. CASE Restarted
  BY <1>1, <1>2 DEF Restarted, TypeOK
<1>3. CASE Serve(r)
  <2>1. CASE r = "clear" /\ nv' = [nv EXCEPT !.clear = TRUE] /\ UNCHANGED znp
    BY <2>1 DEF TypeOK
  <2>2. CASE r = "nwk_key" /\ nv' = [nv EXCEPT !.key = key] /\ UNCHANGED znp
    BY <2>2 DEF TypeOK
  <2>3. CASE r \in Settings /\ nv' = [nv EXCEPT !.settings = @ \cup {r}] /\ UNCHANGED znp
    <3>1. nv.settings \cup {r} \in SUBSET Settings
      BY <2>3 DEF TypeOK
    <3> QED
      BY <2>3, <3>1 DEF TypeOK
  <2>4. CASE r \in AfRequests /\ znp' = [znp EXCEPT !.endpoints = @ \cup {r}] /\ UNCHANGED nv
    <3>1. znp.endpoints \cup {r} \in SUBSET AfRequests
      BY <2>4 DEF TypeOK
    <3> QED
      BY <2>4, <3>1 DEF TypeOK
  <2>5. CASE r = "startup" /\ znp' = [znp EXCEPT !.started = TRUE] /\ UNCHANGED nv
    BY <2>5 DEF TypeOK
  <2>6. CASE UNCHANGED dongle
    BY <2>6 DEF TypeOK, dongle
  <2> QED
    BY <1>2, <1>3, <2>1, <2>2, <2>3, <2>4, <2>5, <2>6 DEF Serve, Effect
<1> QED
  BY <1>2, <1>3

LEMMA ReadTyped ==
    ASSUME TypeOK, Take
    PROVE  /\ fromZnp' \in Seq(Answers)
           /\ fromZnp \in Seq(Answers) /\ Head(fromZnp) \in Answers
  BY HeadTailProperties DEF TypeOK, Take, Answers

LEMMA NextTyped == ASSUME TypeOK, [Next]_vars PROVE TypeOK'
<1>1. ASSUME NEW reset \in BOOLEAN, Boot(reset) PROVE TypeOK'
  <2>1. list' \in {"reset", "restart"} /\ Len(Lists[list']) \in Nat \ {0}
        /\ Lists[list'][1] \in Requests
    <3>1. list' \in {"reset", "restart"}
      BY <1>1 DEF Boot
    <3>2. /\ Len(Lists["reset"]) = 16 /\ Lists["reset"][1] = "clear"
          /\ Len(Lists["restart"]) = 11 /\ Lists["restart"][1] = "reset"
      BY DEF Lists
    <3> QED
      BY <3>1, <3>2 DEF Requests
  <2>2. boots' \in 0..MaxBoots /\ boots' = boots + 1 /\ boots \in Nat
    BY <1>1, GatewayInitAssumption DEF Boot, TypeOK
  <2>3. key' \in 0..boots' /\ keyFile' \in {0, key'}
    <3>1. PICK k \in KeysAfter(list') : key' = k.key /\ keyFile' = k.file
      BY <1>1 DEF Boot
    <3>2. k.key \in {0, keyFile, boots + 1} /\ k.file \in {0, k.key}
      BY DEF KeysAfter
    <3>3. keyFile \in 0..boots
      BY <2>2 DEF TypeOK
    <3> QED
      BY <2>2, <3>1, <3>2, <3>3
  <2>4. pos' \in [core : 0..Len(CoreList'), zll : 0..3, zha : 0..1]
    BY <1>1, <2>1 DEF Boot, CoreList
  <2>5. slot' \in [Layers -> Owners]
    BY <1>1 DEF Boot, Owners
  <2>6. toZnp' \in Seq(Requests) /\ fromZnp' \in Seq(Answers)
    <3>1. <<Lists[list'][1]>> \in Seq(Requests)
      BY <2>1, IsASeq
    <3>2. <<>> \in Seq(Requests) /\ <<>> \in Seq(Answers)
      BY EmptySeq
    <3> QED
      BY <1>1, <3>1, <3>2 DEF Boot
  <2>7. nv' \in [clear : BOOLEAN, key : 0..boots', settings : SUBSET Settings]
        /\ znp' \in [endpoints : SUBSET AfRequests, started : BOOLEAN]
    BY <1>1, <2>2 DEF Boot, TypeOK, dongle
  <2>8. disturbed' \subseteq {"lost", "command", "reset"}
    BY <1>1 DEF Boot, TypeOK
  <2>9. up' \in BOOLEAN /\ initialized' \in BOOLEAN /\ refused' \subseteq Refusable
    BY <1>1 DEF Boot, TypeOK
  <2> QED
    BY <2>1, <2>2, <2>3, <2>4, <2>5, <2>6, <2>7, <2>8, <2>9 DEF TypeOK, Answers
<1>2. CASE Read
  <2>1. slot[LayerOf(Head(fromZnp))] \in Owners
    BY LayersTyped DEF TypeOK
  <2>2. Call(slot[LayerOf(Head(fromZnp))])
    BY <1>2 DEF Read
  <2>3. /\ initialized' \in BOOLEAN
        /\ pos' \in Positions
        /\ slot' \in [Layers -> Owners]
        /\ toZnp' \in Seq(Requests)
        /\ disturbed' \subseteq {"lost", "command", "reset"}
    BY <2>1, <2>2, CallTyped
  <2>4. fromZnp' \in Seq(Answers)
    BY <1>2, ReadTyped DEF Read
  <2> QED
    BY <1>2, <2>3, <2>4 DEF Read, Take, TypeOK, Positions, Answers, dongle, CoreList
<1>3. CASE ReadUnknown
  <2>1. fromZnp' \in Seq(Answers)
    BY <1>3, ReadTyped DEF ReadUnknown
  <2> QED
    BY <1>3, <2>1 DEF ReadUnknown, Take, TypeOK, Answers, dongle, CoreList
<1>4. CASE OpenNetwork
  <2>1. toZnp' \in Seq(Requests)
    <3>1. toZnp \in Seq(Requests) /\ "permit_join" \in Requests
      BY DEF TypeOK, Requests, ZdoRequests
    <3> QED
      BY <1>4, <3>1, AppendProperties DEF OpenNetwork
  <2>2. slot' \in [Layers -> Owners]
    BY <1>4 DEF OpenNetwork, TypeOK, Owners
  <2>3. disturbed' \subseteq {"lost", "command", "reset"}
    BY <1>4 DEF OpenNetwork, TypeOK
  <2> QED
    BY <1>4, <2>1, <2>2, <2>3 DEF OpenNetwork, TypeOK, dongle, CoreList
<1>5. CASE Stop
  BY <1>5 DEF Stop, TypeOK, dongle, CoreList
<1>6. CASE ZnpProcess
  <2>1. toZnp' \in Seq(Requests) /\ Head(toZnp) \in Requests
    BY <1>6, HeadTailProperties DEF ZnpProcess, TypeOK
  <2>2. fromZnp' \in Seq(Answers)
    <3>1. <<"startup_srsp", "startup">> \in Seq(Answers) /\ <<Head(toZnp)>> \in Seq(Answers)
      BY <2>1, IsASeq DEF Answers, Requests, ZdoRequests
    <3>2. fromZnp \in Seq(Answers)
      BY DEF TypeOK, Answers
    <3> QED
      BY <1>6, <3>1, <3>2, ConcatProperties DEF ZnpProcess
  <2>3. /\ nv' \in [clear : BOOLEAN, key : 0..boots, settings : SUBSET Settings]
        /\ znp' \in [endpoints : SUBSET AfRequests, started : BOOLEAN]
    BY <1>6, DongleTyped DEF ZnpProcess
  <2>4. refused' \subseteq Refusable
    BY <1>6 DEF ZnpProcess, Serve, TypeOK
  <2> QED
    BY <1>6, <2>1, <2>2, <2>3, <2>4 DEF ZnpProcess, TypeOK, Answers, gateway, CoreList
<1>7. CASE DongleReset
  <2>1. toZnp' \in Seq(Requests)
    <3>1. PICK n \in 0..Len(toZnp) : toZnp' = SubSeq(toZnp, n + 1, Len(toZnp))
      BY <1>7 DEF DongleReset
    <3>2. toZnp \in Seq(Requests) /\ Len(toZnp) \in Nat
      BY LenProperties DEF TypeOK
    <3>3. \A i \in (n + 1)..Len(toZnp) : toZnp[i] \in Requests
      BY <3>2, ElementOfSeq
    <3> QED
      BY <3>1, <3>2, <3>3, SubSeqProperties
  <2>2. fromZnp' \in Seq(Answers)
    BY <1>7, AppendProperties DEF DongleReset, TypeOK, Answers, Requests
  <2>3. /\ nv' \in [clear : BOOLEAN, key : 0..boots, settings : SUBSET Settings]
        /\ znp' \in [endpoints : SUBSET AfRequests, started : BOOLEAN]
    BY <1>7, DongleTyped DEF DongleReset
  <2>4. disturbed' \subseteq {"lost", "command", "reset"}
    BY <1>7 DEF DongleReset, TypeOK
  <2> QED
    BY <1>7, <2>1, <2>2, <2>3, <2>4 DEF DongleReset, TypeOK, Answers, gateway, CoreList
<1>8. CASE UNCHANGED vars
  BY <1>8 DEF vars, gateway, dongle, TypeOK, CoreList
<1> QED
  BY <1>1, <1>2, <1>3, <1>4, <1>5, <1>6, <1>7, <1>8 DEF Next, Gateway, Dongle

LEMMA InitTyped == Init => TypeOK
<1> SUFFICES ASSUME Init PROVE TypeOK
  OBVIOUS
<1>1. 0 \in 0..MaxBoots /\ 0 \in 0..0 /\ 0 \in 0..Len(Lists["reset"])
  BY GatewayInitAssumption DEF Lists
<1>2. <<>> \in Seq(Requests) /\ <<>> \in Seq(Requests \cup {"startup_srsp"})
  BY EmptySeq
<1>3. pos \in [core : 0..Len(CoreList), zll : 0..3, zha : 0..1]
  BY <1>1 DEF Init, CoreList
<1>4. slot \in [Layers -> Owners]
  BY DEF Init, Owners
<1>5. /\ nv \in [clear : BOOLEAN, key : 0..boots, settings : SUBSET Settings]
      /\ znp \in [endpoints : SUBSET AfRequests, started : BOOLEAN]
  BY <1>1 DEF Init
<1> QED
  BY <1>1, <1>2, <1>3, <1>4, <1>5 DEF Init, TypeOK

\* Every variable keeps its type: no list runs past its end, and no slot holds
\* another callback than that of a list, whatever is lost or interferes.
THEOREM TypeCorrectness == Spec => []TypeOK
  BY InitTyped, NextTyped, PTL DEF Spec

-----------------------------------------------------------------------------
(* The lists in step.  LockStep alone says nothing of where the lists are, and *)
(* so not what comes next; Undisturbed adds it.                              *)

Placed ==
    /\ pos.core \in 1..Len(CoreList) /\ CoreList[pos.core] # "zdp"
    /\ Owner \in {"zll", "zha"} => pos[Owner] \in 1..Len(Profiles[Owner])

Undisturbed == up /\ ~initialized /\ disturbed = {} => Placed

Lock == TypeOK /\ Undisturbed /\ LockStep

\* What the lists wait for is a request; only the core waits for the start.
LEMMA AwaitedTyped ==
    ASSUME TypeOK, Placed
    PROVE  /\ Owner \in {"core", "zll", "zha"} /\ Awaited \in Requests
           /\ Owner \in {"zll", "zha"} => Owner = CoreList[pos.core]
<1>1. list \in {"reset", "restart"}
  BY DEF TypeOK
<1>2. CoreList[pos.core] \in Requests \cup {"zll", "zha"}
  BY <1>1, ListEntries DEF Placed, CoreList
<1>3. CASE CoreList[pos.core] \in {"zll", "zha"}
  <2>1. Owner = CoreList[pos.core]
    BY <1>3, ProfileEntries DEF Owner
  <2>2. Awaited = Profiles[Owner][pos[Owner]]
    BY <1>3, <2>1 DEF Awaited
  <2>3. Profiles[Owner][pos[Owner]] \in AfRequests
    BY <1>3, <2>1, ProfileEntries DEF Placed
  <2> QED
    BY <1>3, <2>1, <2>2, <2>3 DEF Requests
<1>4. CASE CoreList[pos.core] \notin {"zll", "zha"}
  BY <1>2, <1>4, ProfileEntries DEF Owner, Awaited
<1> QED
  BY <1>3, <1>4

\* A request sent on a quiet link by the list whose turn it is: the lists are in
\* step, or the request was lost.
LEMMA SendInStep ==
    ASSUME TypeOK, NEW owner \in {"core", "zll", "zha"}, NEW p \in Positions,
           NEW r \in Requests, Send(owner, p, r),
           toZnp = <<>>, fromZnp' = <<>>, UNCHANGED list, disturbed' = {},
           p.core \in 1..Len(CoreList), CoreList[p.core] # "zdp",
           owner = IF CoreList[p.core] \in {"zll", "zha"} THEN CoreList[p.core] ELSE "core",
           owner = "core" => r = CoreList[p.core],
           owner # "core" => p[owner] \in 1..Len(Profiles[owner])
                               /\ r = Profiles[owner][p[owner]]
    PROVE  Undisturbed' /\ LockStep'
<1>1. pos' = p /\ CoreList' = CoreList
  BY DEF Send, CoreList
<1>2. Owner' = owner
  BY <1>1, ProfileEntries DEF Owner
<1>3. Awaited' = r
  BY <1>1, <1>2 DEF Awaited
<1>4. slot'[LayerOf(r)] = owner
  BY LayersTyped DEF Send, TypeOK
<1>5. toZnp' = <<r>>
  BY DEF Send, Write
<1>6. Placed'
  BY <1>1, <1>2 DEF Placed
<1>7. LockStep'
  BY <1>2, <1>3, <1>4, <1>5 DEF LockStep, Link, LayerOf
<1> QED
  BY <1>6, <1>7 DEF Undisturbed

\* The callback of the list whose turn it is takes the lists one step further.
LEMMA CallInStep ==
    ASSUME TypeOK, Placed, Call(Owner),
           toZnp = <<>>, fromZnp' = <<>>, UNCHANGED list, ~initialized', disturbed' = {}
    PROVE  Undisturbed' /\ LockStep'
<1>1. /\ pos \in Positions /\ Owner \in {"core", "zll", "zha"}
      /\ Owner \in {"zll", "zha"} => Owner = CoreList[pos.core]
      /\ Len(CoreList) \in Nat
  BY AwaitedTyped, ListEntries DEF TypeOK, Positions, CoreList
<1>2. CASE Owner \in {"zll", "zha"} /\ ~Through(Owner)
  <2> DEFINE p == [pos EXCEPT ![Owner] = @ + 1]
  <2>1. pos[Owner] \in Nat /\ pos[Owner] + 1 \in 1..Len(Profiles[Owner])
    BY <1>1, <1>2, ProfileEntries DEF Through, Positions
  <2>2. Send(Owner, p, Profiles[Owner][pos[Owner] + 1])
    BY <1>2, <2>1, ProfileEntries DEF Call
  <2>3. p \in Positions /\ p.core = pos.core /\ p[Owner] = pos[Owner] + 1
    BY <1>1, <1>2, <2>1, ProfileEntries DEF Positions
  <2>4. Profiles[Owner][pos[Owner] + 1] \in Requests
    BY <1>2, <2>1, ProfileEntries DEF Requests
  <2>5. Owner = IF CoreList[p.core] \in {"zll", "zha"} THEN CoreList[p.core] ELSE "core"
    BY <1>1, <1>2, <2>3
  <2>6. p.core \in 1..Len(CoreList) /\ CoreList[p.core] # "zdp"
    BY <2>3 DEF Placed
  <2> HIDE DEF p
  <2> QED
    BY <1>1, <1>2, <2>1, <2>2, <2>3, <2>4, <2>5, <2>6, SendInStep
<1>3. CASE ContinueCore
  <2>1. NextStep <= Len(CoreList)
    <3>1. NextStep \in Nat
      BY NextStepTyped
    <3> QED
      BY <1>1, <1>3, <3>1 DEF ContinueCore
  <2>2. /\ NextStep \in 1..Len(CoreList)
        /\ CoreList[NextStep] \in Requests \cup {"zll", "zha"}
    BY <2>1, NextStepTyped
  <2>3. CASE CoreList[NextStep] \in {"zll", "zha"}
    <3> DEFINE q == CoreList[NextStep]
               p == [pos EXCEPT !.core = NextStep, ![q] = 1]
    <3>1. Send(q, p, Profiles[q][1])
      BY <1>3, <2>1, <2>2, <2>3, ProfileEntries DEF ContinueCore
    <3>2. p \in Positions /\ p.core = NextStep /\ p[q] = 1
      <4> DEFINE p1 == [pos EXCEPT !.core = NextStep]
      <4>1. p1 \in Positions /\ p1.core = NextStep
        BY <1>1, <2>2 DEF Positions
      <4>2. p = [p1 EXCEPT ![q] = 1]
        BY <1>1, <2>3 DEF Positions
      <4> HIDE DEF p1, q
      <4>3. /\ [p1 EXCEPT ![q] = 1] \in Positions /\ [p1 EXCEPT ![q] = 1].core = NextStep
            /\ [p1 EXCEPT ![q] = 1][q] = 1
        BY <2>3, <4>1 DEF Positions, q
      <4> QED
        BY <4>2, <4>3 DEF q
    <3>3. Profiles[q][1] \in Requests /\ 1 \in 1..Len(Profiles[q])
      BY <2>3, ProfileEntries DEF Requests
    <3>4. q # "zdp" /\ q # "core"
      BY <2>3
    <3> HIDE DEF p
    <3> QED
      BY <2>2, <2>3, <3>1, <3>2, <3>3, <3>4, SendInStep
  <2>4. CASE CoreList[NextStep] \notin {"zll", "zha"}
    <3> DEFINE p == [pos EXCEPT !.core = NextStep]
    <3>1. Send("core", p, CoreList[NextStep])
      BY <1>3, <2>1, <2>2, <2>4, ProfileEntries DEF ContinueCore
    <3>2. p \in Positions /\ p.core = NextStep
      BY <1>1, <2>2 DEF Positions
    <3>3. CoreList[NextStep] \in Requests /\ CoreList[NextStep] # "zdp"
      BY <2>2, <2>4, RequestsAreNoLists
    <3> HIDE DEF p
    <3> QED
      BY <2>2, <2>4, <3>1, <3>2, <3>3, SendInStep
  <2> QED
    BY <2>3, <2>4
<1> QED
  BY <1>1, <1>2, <1>3, ProfileEntries DEF Call

\* Reading a frame neither starts the lists nor takes an interference back.
LEMMA ReadBefore ==
    ASSUME TypeOK, Read, ~initialized', disturbed' = {}
    PROVE  up /\ ~initialized /\ disturbed = {}
<1> DEFINE c == slot[LayerOf(Head(fromZnp))]
<1>1. up /\ Call(c)
  BY DEF Read, Take
<1> HIDE DEF c
<1>2. \A owner, p, r : Send(owner, p, r) => UNCHANGED initialized /\ disturbed \subseteq disturbed'
  BY DEF Send, Write
<1>3. (UNCHANGED initialized \/ initialized' = TRUE) /\ disturbed \subseteq disturbed'
  BY <1>1, <1>2 DEF Call, ContinueCore
<1>4. initialized \in BOOLEAN
  BY DEF TypeOK
<1> QED
  BY <1>1, <1>3, <1>4

LEMMA NextInStep == ASSUME Lock, TypeOK', [Next]_vars PROVE Lock'
<1> SUFFICES ASSUME up', ~initialized', disturbed' = {} PROVE Undisturbed' /\ LockStep'
  BY DEF Lock, Undisturbed, LockStep
<1>1. TypeOK
  BY DEF Lock
<1>2. ASSUME NEW reset \in BOOLEAN, Boot(reset) PROVE Undisturbed' /\ LockStep'
  <2>1. /\ list' \in {"reset", "restart"} /\ Len(Lists[list']) \in Nat \ {0}
        /\ Lists[list'][1] \in {"clear", "reset"}
    BY <1>2 DEF Boot, Lists
  <2>2. pos'.core = 1 /\ CoreList'[1] \in {"clear", "reset"} /\ 1 \in 1..Len(CoreList')
    BY <1>2, <2>1 DEF Boot, CoreList
  <2>3. Owner' = "core" /\ Awaited' = CoreList'[1]
    BY <2>2, ProfileEntries DEF Owner, Awaited
  <2>4. LayerOf(Awaited') = "SYS"
    BY <2>2, <2>3 DEF LayerOf, AfRequests, ZdoRequests
  <2>5. slot'["SYS"] = "core"
    BY <1>2 DEF Boot, Layers
  <2>6. toZnp' = <<Awaited'>> /\ fromZnp' = <<>>
    BY <1>2, <2>3 DEF Boot, CoreList
  <2>7. Placed'
    BY <2>2, <2>3 DEF Placed
  <2>8. LockStep'
    BY <2>3, <2>4, <2>5, <2>6 DEF LockStep, Link, LayerOf
  <2> QED
    BY <2>7, <2>8 DEF Undisturbed
<1> DEFINE Before == up /\ ~initialized /\ disturbed = {}
<1>3. CASE Read
  <2>1. Before
    BY <1>1, <1>3, ReadBefore
  <2>2. Placed /\ LockStep
    BY <2>1 DEF Lock, Undisturbed
  <2>3. Awaited \in Requests /\ "startup_srsp" \notin Requests
    BY <1>1, <2>2, AwaitedTyped
       DEF Requests, Settings, AfRequests, ZdoRequests
  <2>4. toZnp = <<>> /\ fromZnp = <<Awaited>>
    BY <1>3, <2>1, <2>2, <2>3 DEF LockStep, Link, Read, Take
  <2>5. Call(Owner) /\ fromZnp' = <<>> /\ UNCHANGED list
    BY <1>3, <2>1, <2>2, <2>4 DEF LockStep, Read, Take
  <2> QED
    BY <1>1, <2>2, <2>4, <2>5, CallInStep
<1>4. ASSUME Before, UNCHANGED <<list, pos, slot>>, LockStep => LockStep'
      PROVE  Undisturbed' /\ LockStep'
  <2>1. Placed'
    BY <1>4 DEF Lock, Undisturbed, Placed, Owner, CoreList
  <2> QED
    BY <1>4, <2>1 DEF Lock, Undisturbed
<1>5. CASE ReadUnknown
  <2>1. Before /\ UNCHANGED <<list, pos, slot, toZnp>>
    BY <1>5 DEF ReadUnknown, Take
  <2>2. ASSUME LockStep PROVE LockStep'
    <3>1. "startup_srsp" \notin Requests /\ Awaited \in Requests
      BY <1>1, <2>1, AwaitedTyped
         DEF Lock, Undisturbed, Requests, Settings, AfRequests, ZdoRequests
    <3>2. /\ slot[LayerOf(Awaited)] = Owner
          /\ toZnp = <<>> /\ fromZnp = <<"startup_srsp", "startup">> /\ Awaited = "startup"
      BY <1>5, <2>1, <2>2, <3>1 DEF LockStep, Link, ReadUnknown, Take
    <3>3. fromZnp' = <<"startup">> /\ toZnp' = <<>>
      BY <1>5, <2>1, <3>2 DEF ReadUnknown, Take
    <3>4. Awaited' = Awaited /\ Owner' = Owner
      BY <2>1 DEF Awaited, Owner, CoreList
    <3> QED
      BY <2>1, <3>2, <3>3, <3>4 DEF LockStep, Link, LayerOf
  <2> QED
    BY <1>4, <2>1, <2>2
<1>6. CASE OpenNetwork
  BY <1>6 DEF OpenNetwork
<1>7. CASE Stop
  BY <1>7 DEF Stop
<1>8. CASE ZnpProcess
  <2>1. Before /\ UNCHANGED <<list, pos, slot>>
    BY <1>8 DEF ZnpProcess, gateway
  <2>2. ASSUME LockStep PROVE LockStep'
    <3>1. /\ slot[LayerOf(Awaited)] = Owner
          /\ toZnp = <<Awaited>> /\ fromZnp = <<>>
      BY <1>8, <2>1, <2>2 DEF LockStep, Link, ZnpProcess
    <3>2. toZnp' = <<>>
      BY <1>8, <3>1 DEF ZnpProcess
    <3>3. fromZnp' = IF Awaited = "startup" THEN <<"startup_srsp", "startup">> ELSE <<Awaited>>
      BY <1>8, <3>1 DEF ZnpProcess
    <3>4. Awaited' = Awaited /\ Owner' = Owner
      BY <2>1 DEF Awaited, Owner, CoreList
    <3> QED
      BY <2>1, <3>1, <3>2, <3>3, <3>4 DEF LockStep, Link, LayerOf
  <2> QED
    BY <1>4, <2>1, <2>2
<1>9. CASE DongleReset
  BY <1>9 DEF DongleReset, gateway
<1>10. CASE UNCHANGED vars
  BY <1>10 DEF vars, gateway, dongle, Lock, Undisturbed, Placed, LockStep, Link, Awaited,
               Owner, CoreList, LayerOf
<1> QED
  BY <1>2, <1>3, <1>5, <1>6, <1>7, <1>8, <1>9, <1>10 DEF Next, Gateway, Dongle

\* Until something interferes one request is under way, the one of the present
\* step of the list whose callback is in its slot: the lists never run ahead of
\* the dongle, over any number of starts.
THEOREM LockStepCorrectness == Spec => []LockStep
<1>1. Init => Lock
  BY InitTyped DEF Init, Lock, Undisturbed, LockStep
<1>2. Lock /\ [Next]_vars => Lock'
  BY NextTyped, NextInStep DEF Lock
<1>3. Lock => LockStep
  BY DEF Lock
<1> QED
  BY <1>1, <1>2, <1>3, PTL DEF Spec

-----------------------------------------------------------------------------
(* What the end of the lists means: every request gone past has its effect *)

\* The requests whose effects the dongle must have in the end, unless it has
\* refused them.
Needed == AfRequests \cup {"startup", "security"}

Has(r) ==
    /\ r \in AfRequests => r \in znp.endpoints \cup refused
    /\ r = "startup" => znp.started
    /\ r = "security" => "security" \in nv.settings \cup refused

\* Is request r one of step s of the core, be it a list?
Within(r, s) ==
    \/ s = r
    \/ s \in {"zll", "zha"} /\ \E j \in 1..Len(Profiles[s]) : Profiles[s][j] = r

\* The lists have gone past request r.
Behind(r) ==
    \/ \E k \in 1..(pos.core - 1) : Within(r, CoreList[k])
    \/ Owner \in {"zll", "zha"} /\ \E j \in 1..(pos[Owner] - 1) : Profiles[Owner][j] = r

Answered(r) == r = Awaited /\ toZnp = <<>>

Achieved ==
    up /\ ~initialized /\ disturbed = {} =>
      \A r \in Needed : Behind(r) \/ Answered(r) => Has(r)

-----------------------------------------------------------------------------
(* The lists *)

\* Nothing needed comes before a restart of the dongle, which would undo it.
LEMMA ResetsFirst ==
    \A l \in {"reset", "restart"} : \A k \in 1..Len(Lists[l]) :
      Lists[l][k] = "reset" =>
        \A i \in 1..(k - 1) : Lists[l][i] \notin Needed \cup {"zll", "zha"}
<1>1. \A k \in 1..Len(Lists["reset"]) : Lists["reset"][k] = "reset" => k \in {2, 4}
  BY DEF Lists
<1>2. \A i \in 1..3 : Lists["reset"][i] \in {"clear", "reset", "nwk_key"}
  BY DEF Lists
<1>3. \A k \in 1..Len(Lists["restart"]) : Lists["restart"][k] = "reset" => k = 1
  BY DEF Lists
<1>4. \A x \in {"clear", "reset", "nwk_key"} : x \notin Needed \cup {"zll", "zha"}
  BY DEF Needed, AfRequests
<1> TAKE l \in {"reset", "restart"}
<1>5. CASE l = "reset"
  <2> SUFFICES ASSUME NEW k \in 1..Len(Lists["reset"]), Lists["reset"][k] = "reset",
                      NEW i \in 1..(k - 1)
               PROVE  Lists["reset"][i] \notin Needed \cup {"zll", "zha"}
    BY <1>5
  <2>1. k \in {2, 4}
    BY <1>1
  <2>2. i \in 1..3
    BY <2>1
  <2> QED
    BY <1>2, <1>4, <2>2
<1>6. CASE l = "restart"
  <2> SUFFICES ASSUME NEW k \in 1..Len(Lists["restart"]), Lists["restart"][k] = "reset",
                      NEW i \in 1..(k - 1)
               PROVE  FALSE
    BY <1>6
  <2> QED
    BY <1>3
<1> QED
  BY <1>5, <1>6

\* Both lists have everything needed before their last step.
LEMMA ListsComplete ==
    \A l \in {"reset", "restart"} :
      /\ Len(Lists[l]) \in Nat \ {0}
      /\ \A r \in Needed : \E k \in 1..(Len(Lists[l]) - 1) : Within(r, Lists[l][k])
<1>1. \A r \in Needed : r \in {"startup", "security", "register_zha"}
                          \/ r \in {"register_zll", "inter_pan_endpoint", "inter_pan_channel"}
  BY DEF Needed, AfRequests
<1>2. /\ Profiles["zll"][1] = "register_zll" /\ Profiles["zll"][2] = "inter_pan_endpoint"
      /\ Profiles["zll"][3] = "inter_pan_channel" /\ Profiles["zha"][1] = "register_zha"
      /\ Len(Profiles["zll"]) = 3 /\ Len(Profiles["zha"]) = 1
  BY DEF Profiles, ZllList, ZhaList
<1>3. /\ Within("register_zll", "zll") /\ Within("inter_pan_endpoint", "zll")
      /\ Within("inter_pan_channel", "zll") /\ Within("register_zha", "zha")
      /\ \A r : Within(r, r)
  BY <1>2 DEF Within
<1> DEFINE Steps == {"zll", "zha", "startup", "security"}
<1>8. \A r \in Needed : \E s \in Steps : Within(r, s)
  BY <1>1, <1>3
<1> HIDE DEF Steps
<1>4. /\ Len(Lists["reset"]) = 16
      /\ Lists["reset"][11] = "zll"
      /\ Lists["reset"][12] = "zha" /\ Lists["reset"][14] = "startup"
      /\ Lists["reset"][15] = "security"
  BY DEF Lists
<1>5. /\ Len(Lists["restart"]) = 11
      /\ Lists["restart"][5] = "zll"
      /\ Lists["restart"][6] = "zha" /\ Lists["restart"][8] = "startup"
      /\ Lists["restart"][9] = "security"
  BY DEF Lists
<1> TAKE l \in {"reset", "restart"}
<1>6. CASE l = "reset"
  <2>1. \A s \in Steps : \E k \in 1..15 : Lists["reset"][k] = s
    <3>1. /\ \E k \in 1..15 : Lists["reset"][k] = "zll"
          /\ \E k \in 1..15 : Lists["reset"][k] = "zha"
          /\ \E k \in 1..15 : Lists["reset"][k] = "startup"
          /\ \E k \in 1..15 : Lists["reset"][k] = "security"
      <4>1. 11 \in 1..15 /\ 12 \in 1..15 /\ 14 \in 1..15 /\ 15 \in 1..15
        OBVIOUS
      <4> QED
        BY <1>4, <4>1, Zenon
    <3>2. \A s \in Steps : s = "zll" \/ s = "zha" \/ s = "startup" \/ s = "security"
      BY DEF Steps
    <3> QED
      BY <3>1, <3>2
  <2>2. \A r \in Needed : \E k \in 1..15 : Within(r, Lists["reset"][k])
    BY <1>8, <2>1
  <2>3. Len(Lists["reset"]) - 1 = 15
    BY <1>4
  <2>4. Len(Lists["reset"]) \in Nat \ {0}
    BY <1>4
  <2>5. \A r \in Needed : \E k \in 1..(Len(Lists["reset"]) - 1) : Within(r, Lists["reset"][k])
    BY <2>2, <2>3, Zenon
  <2> QED
    BY <1>6, <2>4, <2>5, Zenon
<1>7. CASE l = "restart"
  <2>1. \A s \in Steps : \E k \in 1..10 : Lists["restart"][k] = s
    <3>1. /\ \E k \in 1..10 : Lists["restart"][k] = "zll"
          /\ \E k \in 1..10 : Lists["restart"][k] = "zha"
          /\ \E k \in 1..10 : Lists["restart"][k] = "startup"
          /\ \E k \in 1..10 : Lists["restart"][k] = "security"
      <4>1. 5 \in 1..10 /\ 6 \in 1..10 /\ 8 \in 1..10 /\ 9 \in 1..10
        OBVIOUS
      <4> QED
        BY <1>5, <4>1, Zenon
    <3>2. \A s \in Steps : s = "zll" \/ s = "zha" \/ s = "startup" \/ s = "security"
      BY DEF Steps
    <3> QED
      BY <3>1, <3>2
  <2>2. \A r \in Needed : \E k \in 1..10 : Within(r, Lists["restart"][k])
    BY <1>8, <2>1
  <2>3. Len(Lists["restart"]) - 1 = 10
    BY <1>5
  <2>4. Len(Lists["restart"]) \in Nat \ {0}
    BY <1>5
  <2>5. \A r \in Needed : \E k \in 1..(Len(Lists["restart"]) - 1) : Within(r, Lists["restart"][k])
    BY <2>2, <2>3, Zenon
  <2> QED
    BY <1>7, <2>4, <2>5, Zenon
<1> QED
  BY <1>6, <1>7

-----------------------------------------------------------------------------
(* The dongle *)

\* A request takes effect, or is refused.
LEMMA ServeHas ==
    ASSUME TypeOK, NEW r \in Needed, Serve(r) PROVE Has(r)'
<1>1. r # "reset" /\ r # "clear" /\ r # "nwk_key"
      /\ r \notin {"ext_addr", "ping", "subscribe", "route", "announce", "permit_join"}
  BY DEF Needed, AfRequests
<1>2. CASE r \in refused'
  <2>1. r # "startup"
    BY <1>2 DEF Serve, Refusable, Settings, AfRequests
  <2> QED
    BY <1>2, <2>1 DEF Has
<1>3. CASE r \notin refused'
  <2>1. Effect(r)
    BY <1>3 DEF Serve
  <2>2. CASE r \in AfRequests
    <3>1. r # "startup" /\ r # "security" /\ r \notin Settings
      BY <2>2 DEF AfRequests, Settings
    <3> QED
      BY <1>1, <2>1, <2>2, <3>1 DEF Effect, Has, TypeOK
  <2>3. CASE r = "startup"
    <3>1. r \notin AfRequests /\ r \notin Settings /\ r # "security"
      BY <2>3 DEF Settings, AfRequests
    <3> QED
      BY <1>1, <2>1, <2>3, <3>1 DEF Effect, Has, TypeOK
  <2>4. CASE r = "security"
    <3>1. r \notin AfRequests /\ r # "startup"
      BY <2>4 DEF AfRequests
    <3> QED
      BY <1>1, <2>1, <2>4, <3>1 DEF Effect, Has, TypeOK
  <2> QED
    BY <2>2, <2>3, <2>4 DEF Needed
<1> QED
  BY <1>2, <1>3

\* What has taken effect stays, and what was refused is either taken or still
\* refused, but for a restart of the dongle.
LEMMA ServeKeeps ==
    ASSUME TypeOK, NEW r \in Needed, Has(r), NEW a, Serve(a), a # "reset", a # r
    PROVE  Has(r)'
<1>1. znp.endpoints \subseteq znp'.endpoints /\ (znp.started => znp'.started)
  <2>1. \/ UNCHANGED znp
        \/ znp' = [znp EXCEPT !.endpoints = @ \cup {a}]
        \/ znp' = [znp EXCEPT !.started = TRUE]
    BY DEF Serve, Effect, dongle
  <2> QED
    BY <2>1 DEF TypeOK
<1>2. nv.settings \subseteq nv'.settings
  <2>1. \/ UNCHANGED nv
        \/ nv' = [nv EXCEPT !.clear = TRUE]
        \/ nv' = [nv EXCEPT !.key = key]
        \/ nv' = [nv EXCEPT !.settings = @ \cup {a}]
    BY DEF Serve, Effect, dongle
  <2> QED
    BY <2>1 DEF TypeOK
<1>3. r \in refused => r \in refused'
  BY DEF Serve
<1> QED
  BY <1>1, <1>2, <1>3 DEF Has

-----------------------------------------------------------------------------
(* A step of the lists *)

\* What is behind the lists once the answer has come was behind them before, or
\* is what they waited for.
LEMMA BehindNext ==
    ASSUME TypeOK, Placed, Call(Owner), UNCHANGED list, ~initialized',
           NEW r \in Needed, Behind(r)'
    PROVE  Behind(r) \/ r = Awaited
<1>1. /\ pos \in Positions /\ Owner \in {"core", "zll", "zha"}
      /\ Owner \in {"zll", "zha"} => Owner = CoreList[pos.core]
      /\ Len(CoreList) \in Nat /\ CoreList' = CoreList
  BY AwaitedTyped, ListEntries DEF TypeOK, Positions, CoreList
<1>2. r # "zdp" /\ r # "zll" /\ r # "zha"
  BY DEF Needed, AfRequests
<1>3. CASE Owner \in {"zll", "zha"} /\ ~Through(Owner)
  <2>1. /\ pos[Owner] \in Nat /\ pos[Owner] >= 1
        /\ Owner = CoreList[pos.core]
    BY <1>1, <1>3, ProfileEntries DEF Positions, Placed
  <2>2. pos' = [pos EXCEPT ![Owner] = @ + 1]
    BY <1>3, ProfileEntries DEF Call, Send
  <2>3. pos'.core = pos.core /\ pos'[Owner] = pos[Owner] + 1
    BY <1>1, <1>3, <2>2 DEF Positions
  <2>4. Owner' = Owner
    BY <1>1, <2>3 DEF Owner
  <2>5. CASE \E k \in 1..(pos.core - 1) : Within(r, CoreList[k])
    BY <2>5 DEF Behind
  <2>6. CASE \E j \in 1..pos[Owner] : Profiles[Owner][j] = r
    <3>1. PICK j \in 1..pos[Owner] : Profiles[Owner][j] = r
      BY <2>6
    <3>2. CASE j \in 1..(pos[Owner] - 1)
      BY <1>3, <3>1, <3>2 DEF Behind
    <3>3. CASE j = pos[Owner]
      <4>1. Awaited = Profiles[Owner][pos[Owner]]
        BY <1>3 DEF Awaited
      <4> QED
        BY <3>1, <3>3, <4>1
    <3> QED
      BY <2>1, <3>1, <3>2, <3>3
  <2>7. (pos[Owner] + 1) - 1 = pos[Owner]
    BY <2>1
  <2> QED
    BY <1>1, <2>3, <2>4, <2>5, <2>6, <2>7 DEF Behind, Within
<1>4. CASE ContinueCore /\ (Owner = "core" \/ Through(Owner))
  <2>1. /\ NextStep \in 1..Len(CoreList) /\ pos'.core = NextStep
    <3>1. NextStep \in Nat \ {0} /\ NextStep <= Len(CoreList)
      BY <1>1, <1>4, NextStepTyped DEF ContinueCore
    <3>2. [pos EXCEPT !.core = NextStep].core = NextStep
      BY <1>1 DEF Positions
    <3>3. ASSUME NEW q \in {"zll", "zha"}
          PROVE  [pos EXCEPT !.core = NextStep, ![q] = 1].core = NextStep
      <4> DEFINE p1 == [pos EXCEPT !.core = NextStep]
      <4>1. [pos EXCEPT !.core = NextStep, ![q] = 1] = [p1 EXCEPT ![q] = 1]
        BY <1>1 DEF Positions
      <4>2. DOMAIN p1 = {"core", "zll", "zha"} /\ p1.core = NextStep
        BY <1>1 DEF Positions
      <4> HIDE DEF p1
      <4>3. [p1 EXCEPT ![q] = 1].core = NextStep
        BY <4>2
      <4> QED
        BY <4>1, <4>3
    <3>4. \/ pos' = [pos EXCEPT !.core = NextStep]
          \/ CoreList[NextStep] \in {"zll", "zha"}
               /\ pos' = [pos EXCEPT !.core = NextStep, ![CoreList[NextStep]] = 1]
      BY <1>1, <1>4, <3>1, ProfileEntries DEF ContinueCore, Send
    <3>5. NextStep \in 1..Len(CoreList)
      BY <1>1, <3>1
    <3>6. pos'.core = NextStep
      BY <3>2, <3>3, <3>4, Zenon
    <3> QED
      BY <3>5, <3>6
  <2>2. \A j : ~(Owner' \in {"zll", "zha"} /\ j \in 1..(pos'[Owner'] - 1))
    <3>1. Owner' = IF CoreList[NextStep] \in {"zll", "zha"} THEN CoreList[NextStep] ELSE "core"
      BY <1>1, <2>1, ProfileEntries DEF Owner
    <3>2. CASE CoreList[NextStep] \in {"zll", "zha"}
      <4> DEFINE q == CoreList[NextStep]
      <4>1. pos' = [pos EXCEPT !.core = NextStep, ![q] = 1]
        BY <1>1, <1>4, <2>1, <3>2, ProfileEntries DEF ContinueCore, Send
      <4> HIDE DEF q
      <4>2. q \in {"zll", "zha"}
        BY <3>2 DEF q
      <4>3. pos'[q] = 1
        <5> DEFINE p1 == [pos EXCEPT !.core = NextStep]
        <5>1. pos' = [p1 EXCEPT ![q] = 1]
          BY <1>1, <4>1, <4>2 DEF Positions
        <5>2. DOMAIN p1 = {"core", "zll", "zha"}
          BY <1>1 DEF Positions
        <5> HIDE DEF p1
        <5> QED
          BY <4>2, <5>1, <5>2
      <4> QED
        BY <3>1, <4>2, <4>3 DEF q
    <3> QED
      BY <3>1, <3>2
  <2>3. PICK k \in 1..(NextStep - 1) : Within(r, CoreList[k])
    BY <1>1, <2>1, <2>2 DEF Behind, Within
  <2>4. pos.core \in Nat /\ NextStep \in Nat
    BY <1>1, <2>1 DEF Positions, Placed
  <2>5. CASE k \in 1..(pos.core - 1)
    BY <2>3, <2>5 DEF Behind
  <2>6. CASE k = pos.core
    <3>1. CASE CoreList[pos.core] = r
      <4>1. Owner = "core"
        BY <1>2, <3>1, ProfileEntries DEF Owner
      <4> QED
        BY <3>1, <4>1 DEF Awaited
    <3>2. CASE CoreList[pos.core] # r
      <4>1. CoreList[pos.core] \in {"zll", "zha"}
        BY <2>3, <2>6, <3>2 DEF Within
      <4>2. Owner = CoreList[pos.core]
        BY <4>1, ProfileEntries DEF Owner
      <4>3. PICK j \in 1..Len(Profiles[Owner]) : Profiles[Owner][j] = r
        BY <2>3, <2>6, <3>2, <4>2 DEF Within
      <4>4. pos[Owner] \in 1..Len(Profiles[Owner]) /\ Len(Profiles[Owner]) \in Nat
        BY <4>1, <4>2, ProfileEntries DEF Placed
      <4>5. pos[Owner] = Len(Profiles[Owner])
        <5>1. Through(Owner)
          BY <1>4, <4>1, <4>2
        <5> QED
          BY <4>4, <5>1 DEF Through
      <4>6. CASE j = pos[Owner]
        <5>1. Awaited = Profiles[Owner][pos[Owner]]
          BY <4>1, <4>2 DEF Awaited
        <5> QED
          BY <4>3, <4>6, <5>1
      <4>7. CASE j # pos[Owner]
        <5>1. j \in 1..(pos[Owner] - 1)
          BY <4>3, <4>4, <4>5, <4>7
        <5> QED
          BY <4>1, <4>2, <4>3, <5>1 DEF Behind
      <4> QED
        BY <4>6, <4>7
    <3> QED
      BY <3>1, <3>2
  <2>7. CASE k = pos.core + 1 /\ NextStep = pos.core + 2
    <3>1. CoreList[pos.core + 1] = "zdp"
      BY <2>4, <2>7 DEF NextStep
    <3> QED
      BY <1>2, <2>3, <2>7, <3>1 DEF Within
  <2>8. NextStep \in {pos.core + 1, pos.core + 2}
    BY DEF NextStep
  <2> QED
    BY <2>3, <2>4, <2>5, <2>6, <2>7, <2>8
<1> QED
  BY <1>1, <1>3, <1>4, ProfileEntries DEF Call

-----------------------------------------------------------------------------
(* The invariant *)

\* Steps that leave the lists and the dongle alone.
LEMMA QuietKeeps ==
    ASSUME Achieved, UNCHANGED <<list, pos, dongle, refused>>, toZnp' = <<>> => toZnp = <<>>,
           up' /\ ~initialized' /\ disturbed' = {} => up /\ ~initialized /\ disturbed = {}
    PROVE  Achieved'
<1>1. Owner' = Owner /\ Awaited' = Awaited /\ CoreList' = CoreList
  BY DEF Awaited, Owner, CoreList
<1> SUFFICES ASSUME up, ~initialized, disturbed = {},
                    NEW r \in Needed, Behind(r)' \/ Answered(r)'
             PROVE  Has(r)'
  BY DEF Achieved
<1>2. Behind(r) \/ Answered(r)
  BY <1>1 DEF Behind, Within, Answered
<1>3. Has(r)
  BY <1>2 DEF Achieved
<1> QED
  BY <1>3 DEF Has, dongle

\* A restart the core asks for finds nothing done that would be undone.
LEMMA NothingBehindReset ==
    ASSUME TypeOK, Placed, Awaited = "reset", NEW r \in Needed
    PROVE  ~Behind(r) /\ r # "reset"
<1>1. r # "reset"
  BY DEF Needed, AfRequests
<1>2. list \in {"reset", "restart"}
  BY DEF TypeOK
<1>3. Owner = "core"
  <2>1. ASSUME Owner \in {"zll", "zha"} PROVE FALSE
    <3>1. Awaited = Profiles[Owner][pos[Owner]]
      BY <2>1 DEF Awaited
    <3>2. Awaited \in AfRequests
      BY <2>1, <3>1, ProfileEntries DEF Placed
    <3> QED
      BY <3>2 DEF AfRequests
  <2> QED
    BY <2>1, AwaitedTyped
<1>4. CoreList[pos.core] = "reset" /\ pos.core \in 1..Len(CoreList)
  BY <1>3 DEF Awaited, Placed
<1>5. \A i \in 1..(pos.core - 1) : CoreList[i] \notin Needed \cup {"zll", "zha"}
  BY <1>2, <1>4, ResetsFirst DEF CoreList
<1> QED
  BY <1>1, <1>3, <1>5 DEF Behind, Within

LEMMA NextAchieves == ASSUME Lock, Lock', Achieved, [Next]_vars PROVE Achieved'
<1> DEFINE Before == up /\ ~initialized /\ disturbed = {}
<1> SUFFICES ASSUME up', ~initialized', disturbed' = {} PROVE Achieved'
  BY DEF Achieved
<1>1. TypeOK
  BY DEF Lock
<1>2. ASSUME NEW reset \in BOOLEAN, Boot(reset) PROVE Achieved'
  <2>1. list' \in {"reset", "restart"} /\ Lists[list'][1] \in {"clear", "reset"}
    BY <1>2 DEF Boot, Lists
  <2>2. pos' = [core |-> 1, zll |-> 0, zha |-> 0] /\ CoreList'[1] \in {"clear", "reset"}
        /\ toZnp' # <<>>
    <3>1. pos' = [core |-> 1, zll |-> 0, zha |-> 0]
      BY <1>2 DEF Boot
    <3>2. CoreList'[1] \in {"clear", "reset"}
      BY <2>1 DEF CoreList
    <3>3. toZnp' = <<Lists[list'][1]>>
      BY <1>2, Zenon DEF Boot
    <3>4. <<Lists[list'][1]>> # <<>>
      OBVIOUS
    <3> QED
      BY <3>1, <3>2, <3>3, <3>4, Zenon
  <2>3. Owner' = "core"
    BY <2>2, ProfileEntries DEF Owner
  <2>4. \A r : ~Behind(r)' /\ ~Answered(r)'
    BY <2>2, <2>3 DEF Behind, Answered
  <2> QED
    BY <2>4 DEF Achieved
<1>3. CASE Read
  <2>1. Before
    BY <1>1, <1>3, ReadBefore
  <2>2. Placed /\ LockStep
    BY <2>1 DEF Lock, Undisturbed
  <2>3. Awaited \in Requests /\ "startup_srsp" \notin Requests
    BY <1>1, <2>2, AwaitedTyped
       DEF Requests, Settings, AfRequests, ZdoRequests
  <2>4. toZnp = <<>> /\ fromZnp = <<Awaited>>
    BY <1>3, <2>1, <2>2, <2>3 DEF LockStep, Link, Read, Take
  <2>5. Call(Owner) /\ fromZnp' = <<>> /\ UNCHANGED <<list, dongle, refused>>
    BY <1>3, <2>1, <2>2, <2>4 DEF LockStep, Read, Take
  <2>6. toZnp' # <<>>
    BY <2>5 DEF Lock, LockStep, Link
  <2> SUFFICES ASSUME NEW r \in Needed, Behind(r)' PROVE Has(r)'
    BY <2>6 DEF Achieved, Answered
  <2>7. Behind(r) \/ Answered(r)
    BY <1>1, <2>2, <2>4, <2>5, BehindNext DEF Answered
  <2>8. Has(r)
    BY <2>1, <2>7 DEF Achieved
  <2> QED
    BY <2>5, <2>8 DEF Has, dongle
<1>4. CASE ReadUnknown
  BY <1>4, QuietKeeps DEF ReadUnknown, Take
<1>5. CASE OpenNetwork
  BY <1>5 DEF OpenNetwork
<1>6. CASE Stop
  BY <1>6 DEF Stop
<1>7. CASE ZnpProcess
  <2>1. Before /\ UNCHANGED <<list, pos>>
    BY <1>7 DEF ZnpProcess, gateway
  <2>2. Placed /\ LockStep
    BY <2>1 DEF Lock, Undisturbed
  <2>3. toZnp = <<Awaited>>
    BY <1>7, <2>1, <2>2 DEF LockStep, Link, ZnpProcess
  <2>4. Serve(Awaited)
    BY <1>7, <2>3 DEF ZnpProcess
  <2>5. Awaited' = Awaited /\ \A r : Behind(r)' <=> Behind(r)
    BY <2>1 DEF Awaited, Owner, CoreList, Behind, Within
  <2> SUFFICES ASSUME NEW r \in Needed, Behind(r) \/ r = Awaited PROVE Has(r)'
    BY <2>5 DEF Achieved, Answered
  <2>6. CASE r = Awaited
    BY <1>1, <2>4, <2>6, ServeHas
  <2>7. CASE r # Awaited
    <3>1. Awaited # "reset"
      BY <1>1, <2>2, <2>7, NothingBehindReset
    <3>2. Has(r)
      BY <2>1, <2>7 DEF Achieved
    <3> QED
      BY <1>1, <2>4, <2>7, <3>1, <3>2, ServeKeeps
  <2> QED
    BY <2>6, <2>7
<1>8. CASE DongleReset
  BY <1>8 DEF DongleReset, gateway
<1>9. CASE UNCHANGED vars
  BY <1>9, QuietKeeps DEF vars, gateway, dongle
<1> QED
  BY <1>2, <1>3, <1>4, <1>5, <1>6, <1>7, <1>8, <1>9 DEF Next, Gateway, Dongle

\* The step that ends the lists ends them with all that is needed behind.
LEMMA EndIsReady ==
    ASSUME Lock, Achieved, [Next]_vars, ~initialized, initialized', disturbed = {}
    PROVE  Ready
<1>1. TypeOK
  BY DEF Lock
<1>2. CASE Read
  <2>1. up /\ ~initialized /\ disturbed = {}
    BY <1>2 DEF Read, Take
  <2>2. Placed /\ LockStep
    BY <2>1 DEF Lock, Undisturbed
  <2>3. Awaited \in Requests /\ "startup_srsp" \notin Requests
    BY <1>1, <2>2, AwaitedTyped
       DEF Requests, Settings, AfRequests, ZdoRequests
  <2>4. toZnp = <<>> /\ fromZnp = <<Awaited>> /\ Call(Owner)
    BY <1>2, <2>1, <2>2, <2>3 DEF LockStep, Link, Read, Take
  <2>5. ContinueCore /\ NextStep > Len(CoreList)
    BY <2>4 DEF Call, ContinueCore, Send
  <2>6. /\ list \in {"reset", "restart"} /\ pos.core \in 1..Len(CoreList)
        /\ Len(CoreList) \in Nat \ {0}
    BY <1>1, <2>2, ListsComplete DEF TypeOK, Placed, CoreList
  <2>7. pos.core = Len(CoreList)
    BY <2>5, <2>6, ZdpSkipped DEF NextStep, CoreList
  <2>8. \A r \in Needed : Behind(r)
    BY <2>6, <2>7, ListsComplete DEF Behind, CoreList
  <2>9. \A r \in Needed : Has(r)
    BY <2>1, <2>8 DEF Achieved
  <2>10. AfRequests \subseteq znp.endpoints \cup refused
    BY <2>9 DEF Needed, Has
  <2>11. znp.started /\ "security" \in nv.settings \cup refused
    BY <2>9 DEF Needed, Has
  <2> QED
    BY <2>10, <2>11 DEF Ready
<1>3. CASE ~Read
  BY <1>3 DEF Next, Gateway, Dongle, vars, gateway, Boot, ReadUnknown, OpenNetwork, Stop,
              ZnpProcess, DongleReset
<1> QED
  BY <1>2, <1>3

\* When the core calls the gateway initialized, and nothing has interfered, the
\* dongle is a coordinator, every endpoint is registered and the network has its
\* security on, but for the registrations and the write the dongle itself has
\* refused, over any number of starts.
THEOREM ReadyCorrectness == Spec => InitializedMeansReady
<1>1. Init => Lock /\ Achieved
  BY InitTyped DEF Init, Lock, Undisturbed, LockStep, Achieved
<1>2. Lock /\ Achieved /\ [Next]_vars => (Lock /\ Achieved)'
  BY NextTyped, NextInStep, NextAchieves DEF Lock
<1>3. Lock /\ Achieved /\ [Next]_vars
        => [~initialized /\ initialized' /\ disturbed = {} => Ready]_vars
  BY EndIsReady
<1> QED
  BY <1>1, <1>2, <1>3, PTL DEF Spec, InitializedMeansReady

-----------------------------------------------------------------------------
(* The network is started on a configured dongle, when no start is cut     *)
(* short.  Requests may be lost and commands come early here, so LockStep  *)
(* does not help.  What does: the long list configures the dongle by MT    *)
(* SYS alone, before a callback stands in any other slot, with one request *)
(* under way at most; and a dongle that is configured stays so.            *)

Settling == list = "reset" /\ pos.core \in 1..9
Settled  == list = "restart" \/ pos.core >= 10

\* The frames of the lists in a queue: the command that opens the network is not
\* one of theirs.
Mine(q) == {i \in DOMAIN q : q[i] # "permit_join"}

\* A queue has at most one, and it is r.
Sole(q, r) == \A i \in Mine(q) : q[i] = r /\ \A j \in Mine(q) : i = j

\* What a step of the long list leaves in the memory of the dongle.
Done(k) ==
    /\ k = 2 => ~nv.clear
    /\ k = 3 => nv.key = key \/ "nwk_key" \in refused
    /\ k \in {6, 7, 8} => Lists["reset"][k] \in nv.settings \cup refused

SettlingInStep ==
    /\ slot["SYS"] = "core"
    /\ \A layer \in {"AF", "UTIL", "ZDO"} : slot[layer] = "none"
    /\ Sole(toZnp, CoreList[pos.core]) /\ Sole(fromZnp, CoreList[pos.core])
    /\ Mine(toZnp) = {} \/ Mine(fromZnp) = {}
    /\ \A k \in 1..9 : k < pos.core \/ (k = pos.core /\ Mine(fromZnp) # {}) => Done(k)

SettledStays == Configured /\ ~nv.clear /\ \A i \in DOMAIN toZnp : toZnp[i] # "clear"

\* Only a start makes the list begin, and only its end lets the gateway stop.
Unbroken ==
    /\ pos.core = 0 => ~up /\ keyFile = 0 /\ toZnp = <<>> /\ list = "reset"
    /\ Settling => up /\ ~initialized

Configuring ==
    /\ Unbroken
    /\ "reset" \notin disturbed /\ Settling => SettlingInStep
    /\ "reset" \notin disturbed /\ Settled => SettledStays

LEMMA LongList ==
    /\ Len(Lists["reset"]) = 16
    /\ Lists["reset"][1] = "clear" /\ Lists["reset"][2] = "reset" /\ Lists["reset"][3] = "nwk_key"
    /\ Lists["reset"][4] = "reset" /\ Lists["reset"][5] = "ext_addr"
    /\ Lists["reset"][6] = "coord_flag" /\ Lists["reset"][7] = "pan_id"
    /\ Lists["reset"][8] = "channel" /\ Lists["reset"][9] = "ping"
    /\ Lists["reset"][10] = "subscribe"
  BY DEF Lists

LEMMA ClearOnlyFirst ==
    /\ \A k \in 2..Len(Lists["reset"]) : Lists["reset"][k] # "clear"
    /\ \A k \in 1..Len(Lists["restart"]) : Lists["restart"][k] # "clear"
  BY DEF Lists

LEMMA LongListLayers ==
    \A k \in 1..9 : /\ LayerOf(Lists["reset"][k]) = "SYS"
                    /\ Lists["reset"][k] \notin {"permit_join", "startup", "startup_srsp", "zll", "zha",
                                                 "zdp", "subscribe"}
<1>1. \A k \in 1..9 : Lists["reset"][k] \in {"clear", "reset", "nwk_key", "ext_addr", "coord_flag",
                                             "pan_id", "channel", "ping"}
  BY LongList
<1>2. \A r \in {"clear", "reset", "nwk_key", "ext_addr", "coord_flag", "pan_id", "channel", "ping"} :
        /\ LayerOf(r) = "SYS"
        /\ r \notin {"permit_join", "startup", "startup_srsp", "zll", "zha", "zdp", "subscribe"}
  BY DEF LayerOf, AfRequests, ZdoRequests
<1> QED
  BY <1>1, <1>2

\* What a callback can do to the lists and to the queue of requests.
LEMMA CallMoves ==
    ASSUME TypeOK, NEW c \in Owners, Call(c)
    PROVE  /\ pos'.core = pos.core \/ (pos'.core = NextStep /\ NextStep <= Len(CoreList))
           /\ UNCHANGED initialized \/ NextStep > Len(CoreList)
           /\ disturbed \subseteq disturbed' /\ ("reset" \in disturbed' => "reset" \in disturbed)
           /\ \/ UNCHANGED toZnp
              \/ \E r : /\ toZnp' = Append(toZnp, r)
                        /\ r \in AfRequests \/ (NextStep <= Len(CoreList) /\ r = CoreList[NextStep])
<1>1. pos \in Positions
  BY DEF TypeOK, Positions
<1>2. ASSUME NEW owner, NEW p, NEW r, Send(owner, p, r)
      PROVE  /\ pos' = p /\ UNCHANGED initialized
             /\ disturbed \subseteq disturbed' /\ ("reset" \in disturbed' => "reset" \in disturbed)
             /\ UNCHANGED toZnp \/ toZnp' = Append(toZnp, r)
  BY <1>2 DEF Send, Write
<1>3. CASE c = "none"
  BY <1>3, ProfileEntries DEF Call, ContinueCore
<1>4. CASE c \in DOMAIN Profiles /\ ~Through(c)
  <2> DEFINE r == Profiles[c][pos[c] + 1]
             p == [pos EXCEPT ![c] = @ + 1]
  <2>1. c \in {"zll", "zha"} /\ Send(c, p, r)
    BY <1>4, ProfileEntries DEF Call
  <2>2. pos[c] \in Nat /\ pos[c] + 1 \in 1..Len(Profiles[c])
    BY <1>1, <1>4, <2>1, ProfileEntries DEF Through, Positions
  <2>3. r \in AfRequests
    BY <2>1, <2>2, ProfileEntries
  <2>4. p.core = pos.core
    BY <1>1, <2>1 DEF Positions
  <2> HIDE DEF r, p
  <2> QED
    BY <1>2, <2>1, <2>3, <2>4
<1>5. CASE ContinueCore
  <2>1. NextStep \in Nat \ {0} /\ Len(CoreList) \in Nat
    BY NextStepTyped, ListEntries DEF TypeOK, CoreList
  <2>2. CASE NextStep > Len(CoreList)
    BY <1>5, <2>1, <2>2 DEF ContinueCore
  <2>3. CASE NextStep <= Len(CoreList) /\ CoreList[NextStep] \in DOMAIN Profiles
    <3> DEFINE q == CoreList[NextStep]
               p == [pos EXCEPT !.core = NextStep, ![q] = 1]
    <3>1. q \in {"zll", "zha"} /\ NextStep \in 1..Len(CoreList)
      BY <2>3, NextStepTyped, ProfileEntries
    <3>2. Send(q, p, Profiles[q][1])
      BY <1>5, <2>1, <2>3 DEF ContinueCore
    <3>3. p.core = NextStep
      <4> DEFINE p1 == [pos EXCEPT !.core = NextStep]
      <4>1. p = [p1 EXCEPT ![q] = 1]
        BY <1>1, <3>1 DEF Positions
      <4>2. DOMAIN p1 = {"core", "zll", "zha"} /\ p1.core = NextStep
        BY <1>1 DEF Positions
      <4> HIDE DEF p1, q
      <4>3. [p1 EXCEPT ![q] = 1].core = NextStep
        BY <3>1, <4>2
      <4> QED
        BY <4>1, <4>3 DEF q
    <3>4. Profiles[q][1] \in AfRequests
      BY <3>1, ProfileEntries
    <3> HIDE DEF q, p
    <3> QED
      BY <1>2, <2>3, <3>2, <3>3, <3>4
  <2>4. CASE NextStep <= Len(CoreList) /\ CoreList[NextStep] \notin DOMAIN Profiles
    <3> DEFINE p == [pos EXCEPT !.core = NextStep]
    <3>1. Send("core", p, CoreList[NextStep]) /\ p.core = NextStep
      BY <1>1, <1>5, <2>1, <2>4 DEF ContinueCore, Positions
    <3> HIDE DEF p
    <3> QED
      BY <1>2, <2>4, <3>1
  <2> QED
    BY <2>1, <2>2, <2>3, <2>4
<1> QED
  BY <1>3, <1>4, <1>5 DEF Call, Owners

\* The step after one of the first nine is the next, and one of the core's own.
LEMMA NextSettling ==
    ASSUME TypeOK, Settling
    PROVE  /\ NextStep = pos.core + 1 /\ NextStep \in 2..10 /\ Len(CoreList) = 16
           /\ CoreList[NextStep] \notin {"zll", "zha", "clear"}
           /\ NextStep \in 1..9 => LayerOf(CoreList[NextStep]) = "SYS"
           /\ NextStep = 10 => CoreList[NextStep] = "subscribe"
<1>1. CoreList = Lists["reset"] /\ pos.core \in 1..9
  BY DEF Settling, CoreList
<1>2. pos.core + 1 \in 2..10 /\ Len(CoreList) = 16
  BY <1>1, LongList
<1>3. /\ pos.core + 1 \in 1..9 => /\ LayerOf(CoreList[pos.core + 1]) = "SYS"
                                  /\ CoreList[pos.core + 1] \notin {"zll", "zha", "zdp"}
      /\ pos.core + 1 = 10 => CoreList[pos.core + 1] = "subscribe"
  BY <1>1, LongListLayers, LongList
<1>4. CoreList[pos.core + 1] \notin {"zll", "zha", "zdp"}
  BY <1>2, <1>3
<1>5. NextStep = pos.core + 1
  BY <1>4 DEF NextStep
<1>6. CoreList[NextStep] # "clear"
  BY <1>1, <1>2, <1>5, ClearOnlyFirst, LongList
<1> QED
  BY <1>2, <1>3, <1>4, <1>5, <1>6

\* Where the list stands.
LEMMA Phases ==
    ASSUME TypeOK
    PROVE  /\ pos.core \in Nat /\ list \in {"reset", "restart"}
           /\ pos.core # 0 /\ ~Settled => Settling
           /\ Settling => pos.core # 0 /\ ~Settled
           /\ Settled => /\ NextStep \in Nat
                         /\ NextStep > pos.core
                         /\ NextStep <= Len(CoreList) => CoreList[NextStep] # "clear"
<1>1. pos.core \in 0..Len(CoreList) /\ list \in {"reset", "restart"} /\ Len(CoreList) \in Nat
  BY ListEntries DEF TypeOK, CoreList
<1>2. NextStep \in Nat \ {0} /\ NextStep > pos.core
  BY <1>1, NextStepTyped DEF NextStep
<1>3. CASE list = "restart"
  <2>1. Settled /\ ~Settling 
    BY <1>1, <1>2, <1>3 DEF Settled, Settling
  <2>2. NextStep <= Len(CoreList) => CoreList[NextStep] # "clear"
    BY <1>1, <1>2, <1>3, ClearOnlyFirst DEF CoreList
  <2> QED
    BY <1>1, <1>2, <1>3, <2>1, <2>2 DEF Settling
<1>4. CASE list = "reset"
  <2>1. NextStep > pos.core /\ pos.core >= 10 /\ NextStep <= Len(CoreList)
          => CoreList[NextStep] # "clear"
    BY <1>1, <1>2, <1>4, ClearOnlyFirst DEF CoreList
  <2>2. Settled <=> pos.core >= 10
    BY <1>4 DEF Settled
  <2>3. Settling <=> pos.core \in 1..9
    BY <1>4 DEF Settling
  <2>4. pos.core \in Nat
    BY <1>1
  <2> QED
    BY <1>1, <1>2, <2>1, <2>2, <2>3, <2>4
<1> QED
  BY <1>1, <1>3, <1>4

LEMMA UnbrokenNext ==
    ASSUME "crash" \notin Faults, TypeOK, Unbroken, [Next]_vars
    PROVE  Unbroken'
<1>1. ASSUME NEW reset \in BOOLEAN, Boot(reset) PROVE Unbroken'
  BY <1>1 DEF Boot, Unbroken, Settling
<1>2. CASE Read
  <2> DEFINE c == slot[LayerOf(Head(fromZnp))]
  <2>1. c \in Owners
    BY LayersTyped DEF TypeOK
  <2>2. Call(c) /\ up /\ UNCHANGED <<up, list, keyFile>>
    BY <1>2 DEF Read, Take
  <2> HIDE DEF c
  <2>3. pos.core # 0 /\ (Settling \/ Settled)
    <3>1. pos.core # 0
      BY <2>2 DEF Unbroken
    <3> QED
      BY <3>1, Phases
  <2>4. CASE Settling
    <3>1. NextStep \in 2..10 /\ NextStep <= Len(CoreList)
      <4>1. NextStep \in 2..10 /\ Len(CoreList) = 16
        BY <2>4, NextSettling
      <4> QED
        BY <4>1
    <3>2. UNCHANGED initialized /\ pos'.core # 0
      <4>1. /\ pos'.core = pos.core \/ pos'.core = NextStep
            /\ UNCHANGED initialized \/ NextStep > Len(CoreList)
        BY <2>1, <2>2, CallMoves
      <4>2. Len(CoreList) \in Nat
        BY ListEntries DEF TypeOK, CoreList
      <4> QED
        BY <2>3, <3>1, <4>1, <4>2
    <3> QED
      BY <2>2, <2>4, <3>2 DEF Unbroken
  <2>5. CASE Settled
    <3>1. pos'.core \in Nat /\ pos'.core >= pos.core
      <4>1. pos'.core = pos.core \/ pos'.core = NextStep
        BY <2>1, <2>2, CallMoves
      <4>2. NextStep \in Nat /\ NextStep > pos.core /\ pos.core \in Nat
        BY <2>5, Phases
      <4> QED
        BY <4>1, <4>2
    <3>2. list = "restart" \/ pos.core >= 10
      BY <2>5 DEF Settled
    <3>3. pos.core \in Nat /\ pos'.core # 0
      BY <2>3, <3>1, Phases
    <3>4. Settled'
      BY <2>2, <3>1, <3>2, <3>3 DEF Settled
    <3> QED
      BY <2>2, <3>3, <3>4 DEF Unbroken, Settling, Settled
  <2> QED
    BY <2>3, <2>4, <2>5
<1>3. CASE ReadUnknown
  BY <1>3 DEF ReadUnknown, Take, Unbroken, Settling
<1>4. CASE OpenNetwork
  BY <1>4 DEF OpenNetwork, Unbroken, Settling
<1>5. CASE Stop
  BY <1>5 DEF Stop, Unbroken, Settling
<1>6. CASE ZnpProcess
  BY <1>6 DEF ZnpProcess, gateway, Unbroken, Settling
<1>7. CASE DongleReset
  <2>1. toZnp = <<>> => toZnp' = <<>>
    <3> SUFFICES ASSUME toZnp = <<>> PROVE toZnp' = <<>>
      OBVIOUS
    <3>1. PICK n \in 0..Len(toZnp) : toZnp' = SubSeq(toZnp, n + 1, Len(toZnp))
      BY <1>7 DEF DongleReset
    <3>2. n = 0 /\ Len(toZnp) = 0
      BY <3>1
    <3> QED
      BY <3>1, <3>2, SubSeqEmpty
  <2> QED
    BY <1>7, <2>1 DEF DongleReset, gateway, Unbroken, Settling
<1>8. CASE UNCHANGED vars
  BY <1>8 DEF vars, gateway, Unbroken, Settling
<1> QED
  BY <1>1, <1>2, <1>3, <1>4, <1>5, <1>6, <1>7, <1>8 DEF Next, Gateway, Dongle

\* What is put into a queue, and what is taken from it.
LEMMA SoleAppend ==
    ASSUME NEW S, NEW q \in Seq(S), NEW r
    PROVE  /\ r = "permit_join" => /\ Mine(Append(q, r)) = Mine(q)
                                   /\ \A x : Sole(q, x) => Sole(Append(q, r), x)
           /\ r # "permit_join" /\ Mine(q) = {} =>
                Sole(Append(q, r), r) /\ Mine(Append(q, r)) # {}
<1> DEFINE n == Len(q)
           a == Append(q, r)
<1>1. /\ n \in Nat /\ DOMAIN q = 1..n /\ DOMAIN a = 1..(n + 1)
      /\ \A i \in 1..n : a[i] = q[i]
      /\ a[n + 1] = r
  BY AppendProperties, LenProperties
<1> HIDE DEF n, a
<1>2. CASE r = "permit_join"
  <2>1. Mine(a) = Mine(q)
    BY <1>1, <1>2 DEF Mine
  <2>2. \A i \in Mine(q) : a[i] = q[i]
    BY <1>1 DEF Mine
  <2> QED
    BY <1>2, <2>1, <2>2 DEF Sole, a
<1>3. CASE r # "permit_join" /\ Mine(q) = {}
  <2>1. Mine(a) = {n + 1}
    BY <1>1, <1>3 DEF Mine
  <2> QED
    BY <1>1, <1>3, <2>1 DEF Sole, a
<1> QED
  BY <1>2, <1>3 DEF a

LEMMA SoleTail ==
    ASSUME NEW S, NEW q \in Seq(S), q # <<>>, NEW x, Sole(q, x)
    PROVE  /\ Sole(Tail(q), x)
           /\ Mine(Tail(q)) # {} => Mine(q) # {} /\ Head(q) = "permit_join"
           /\ Head(q) = "permit_join" /\ Mine(q) # {} => Mine(Tail(q)) # {}
           /\ Head(q) # "permit_join" => Head(q) = x /\ Mine(q) # {}
<1> DEFINE n == Len(q)
           t == Tail(q)
<1>1. /\ n \in Nat \ {0} /\ DOMAIN q = 1..n /\ DOMAIN t = 1..(n - 1)
      /\ \A i \in 1..(n - 1) : t[i] = q[i + 1]
      /\ Head(q) = q[1]
  BY HeadTailProperties, LenProperties, EmptySeq
<1> HIDE DEF n, t
<1>2. \A i : i \in Mine(t) => i + 1 \in Mine(q) /\ t[i] = q[i + 1] /\ i \in 1..(n - 1)
  BY <1>1 DEF Mine
<1>3. Sole(t, x)
  <2> SUFFICES ASSUME NEW i \in Mine(t), NEW j \in Mine(t) PROVE t[i] = x /\ i = j
    BY DEF Sole
  <2>1. i + 1 = j + 1
    BY <1>2 DEF Sole
  <2> QED
    BY <1>2, <2>1 DEF Sole
<1>4. Head(q) # "permit_join" => 1 \in Mine(q)
  BY <1>1 DEF Mine
<1>5. ASSUME NEW i \in Mine(t) PROVE Head(q) = "permit_join"
  <2> SUFFICES ASSUME 1 \in Mine(q) PROVE FALSE
    BY <1>4
  <2>1. i + 1 = 1
    BY <1>2 DEF Sole
  <2> QED
    BY <1>2, <2>1
<1>6. ASSUME Head(q) = "permit_join", NEW i \in Mine(q) PROVE i - 1 \in Mine(t)
  <2>1. i \in 1..n /\ q[i] # "permit_join" /\ i # 1
    BY <1>1, <1>6 DEF Mine
  <2>2. i - 1 \in 1..(n - 1) /\ (i - 1) + 1 = i
    BY <1>1, <2>1
  <2> QED
    BY <1>1, <2>1, <2>2 DEF Mine
<1> QED
  BY <1>1, <1>2, <1>3, <1>4, <1>5, <1>6 DEF Sole, t

\* What the dongle does with one of the first nine steps.
LEMMA ServeDone ==
    ASSUME TypeOK, Settling, \A k \in 1..9 : k < pos.core => Done(k),
           Serve(CoreList[pos.core]), UNCHANGED key
    PROVE  \A k \in 1..9 : k <= pos.core => Done(k)'
<1> DEFINE r == CoreList[pos.core]
<1>1. pos.core \in 1..9 /\ r = Lists["reset"][pos.core]
  BY DEF Settling, CoreList
<1>2. nv \in [clear : BOOLEAN, key : 0..boots, settings : SUBSET Settings]
  BY DEF TypeOK
<1>3. pos.core > 2 => ~nv.clear
  BY <1>1 DEF Done
<1>4. CASE pos.core = 1
  BY <1>4 DEF Done
<1>5. CASE pos.core = 2
  <2>1. r = "reset" /\ r \notin Settings \cup AfRequests
    BY <1>1, <1>5, LongList DEF Settings, AfRequests
  <2>2. Restarted
    BY <2>1 DEF Serve, Refusable, Effect
  <2>3. ~nv'.clear
    BY <1>2, <2>2 DEF Restarted
  <2> QED
    BY <1>5, <2>3 DEF Done
<1>6. CASE pos.core >= 3
  <2>1. ~nv.clear
    BY <1>1, <1>3, <1>6
  <2>2. /\ r # "clear"
        /\ pos.core = 3 => r = "nwk_key"
        /\ r = "nwk_key" => pos.core = 3
        /\ pos.core \in {6, 7, 8} => r \in Settings /\ r \notin AfRequests
    BY <1>1, <1>6, LongList DEF Settings, AfRequests
  <2>3. nv' \in {nv, [nv EXCEPT !.key = key], [nv EXCEPT !.settings = @ \cup {r}]}
    BY <1>2, <2>1, <2>2 DEF Serve, Effect, Restarted, dongle
  <2>4. ~nv'.clear /\ nv.settings \subseteq nv'.settings /\ (nv.key = key => nv'.key = key)
    BY <1>2, <2>1, <2>3
  <2>5. \A x : x # r /\ x \in refused => x \in refused'
    BY DEF Serve
  <2>6. pos.core = 3 => nv'.key = key \/ "nwk_key" \in refused'
    <3> SUFFICES ASSUME pos.core = 3, "nwk_key" \notin refused' PROVE nv'.key = key
      OBVIOUS
    <3>1. r = "nwk_key" /\ r \notin Settings \cup AfRequests
      BY <2>2 DEF Settings, AfRequests
    <3>2. nv' = [nv EXCEPT !.key = key]
      BY <3>1 DEF Serve, Effect
    <3> QED
      BY <1>2, <3>2
  <2>7. pos.core \in {6, 7, 8} => r \in nv'.settings \cup refused'
    <3> SUFFICES ASSUME pos.core \in {6, 7, 8}, r \notin refused' PROVE r \in nv'.settings
      OBVIOUS
    <3>1. r \in Settings /\ r \notin AfRequests
      BY <2>2
    <3>2. r \notin {"reset", "clear", "nwk_key", "startup", "ext_addr", "ping", "subscribe",
                    "route", "announce", "permit_join"}
      BY <3>1 DEF Settings
    <3>3. nv' = [nv EXCEPT !.settings = @ \cup {r}]
      BY <3>1, <3>2 DEF Serve, Effect
    <3> QED
      BY <1>2, <3>3
  <2>8. \A k \in {6, 7, 8} : k # pos.core => Lists["reset"][k] # r
    BY <1>1, <1>6, LongList
  <2> HIDE DEF r
  <2> SUFFICES ASSUME NEW k \in 1..9, k <= pos.core PROVE Done(k)'
    OBVIOUS
  <2>9. CASE k < pos.core
    <3>1. Done(k) /\ k # pos.core
      BY <1>1, <2>9
    <3>2. CASE k = 3
      BY <2>2, <2>4, <2>5, <3>1, <3>2 DEF Done
    <3>3. CASE k \in {6, 7, 8}
      BY <2>4, <2>5, <2>8, <3>1, <3>3 DEF Done
    <3>4. CASE k \notin {3, 6, 7, 8}
      BY <2>4, <3>4 DEF Done
    <3> QED
      BY <3>2, <3>3, <3>4
  <2>10. CASE k = pos.core
    BY <1>1, <2>4, <2>6, <2>7, <2>10 DEF Done
  <2> QED
    BY <1>1, <2>9, <2>10
<1> QED
  BY <1>1, <1>4, <1>5, <1>6

\* A step of the long list, up to the last of those that configure the dongle.
LEMMA SettlingNext ==
    ASSUME "crash" \notin Faults, TypeOK, Unbroken, Settling, SettlingInStep, [Next]_vars,
           "reset" \notin disturbed'
    PROVE  /\ Settling' => SettlingInStep'
           /\ Settled' => SettledStays'
<1> DEFINE here == CoreList[pos.core]
<1>1. /\ pos.core \in 1..9 /\ here = Lists["reset"][pos.core] /\ list = "reset"
      /\ LayerOf(here) = "SYS"
      /\ here \notin {"permit_join", "startup", "startup_srsp"}
      /\ ~Settled
  BY LongListLayers DEF Settling, Settled, CoreList
<1>2. up /\ ~initialized
  BY DEF Unbroken
<1>3. /\ toZnp \in Seq(Requests) /\ fromZnp \in Seq(Answers)
      /\ Sole(toZnp, here) /\ Sole(fromZnp, here)
  BY DEF TypeOK, Answers, SettlingInStep
\* Where the list does not move, nor the memory of the dongle.
<1>4. ASSUME UNCHANGED <<list, pos, key, nv, refused>>,
             slot'["SYS"] = slot["SYS"],
             \A layer \in {"AF", "UTIL", "ZDO"} : slot'[layer] \in {"none", slot[layer]},
             Sole(toZnp', here), Sole(fromZnp', here),
             Mine(toZnp') # {} => Mine(toZnp) # {},
             Mine(fromZnp') # {} => Mine(fromZnp) # {}
      PROVE  ~Settled' /\ SettlingInStep'
  <2>1. \A k \in 1..9 : Done(k)' <=> Done(k)
    BY <1>4 DEF Done
  <2>2. ~Settled' /\ CoreList' = CoreList
    BY <1>1, <1>4 DEF Settled, CoreList
  <2> QED
    BY <1>4, <2>1, <2>2 DEF SettlingInStep
<1>5. CASE Read
  <2> DEFINE h == Head(fromZnp)
  <2>1. /\ fromZnp # <<>> /\ fromZnp' = Tail(fromZnp)
        /\ UNCHANGED <<list, key, nv, refused>> /\ Call(slot[LayerOf(h)])
    BY <1>5 DEF Read, Take, dongle
  <2>2. /\ Sole(fromZnp', here)
        /\ Mine(fromZnp') # {} => Mine(fromZnp) # {} /\ h = "permit_join"
        /\ h # "permit_join" => h = here /\ Mine(fromZnp) # {}
    BY <1>3, <2>1, SoleTail
  <2>3. CASE h = "permit_join"
    <3>1. LayerOf(h) = "ZDO"
      BY <2>3 DEF LayerOf, AfRequests, ZdoRequests
    <3>2. slot[LayerOf(h)] = "none"
      BY <3>1 DEF SettlingInStep
    <3>3. UNCHANGED <<pos, slot, toZnp>>
      BY <2>1, <3>2, ProfileEntries DEF Call
    <3> QED
      BY <1>3, <1>4, <2>1, <2>2, <3>3
  <2>4. CASE h # "permit_join"
    <3>1. h = here /\ Mine(fromZnp') = {} /\ Mine(toZnp) = {} /\ Mine(fromZnp) # {}
      BY <2>2, <2>4 DEF SettlingInStep
    <3>2. /\ NextStep = pos.core + 1 /\ NextStep \in 2..10 /\ Len(CoreList) = 16
          /\ CoreList[NextStep] \notin {"zll", "zha", "clear"}
          /\ NextStep \in 1..9 => LayerOf(CoreList[NextStep]) = "SYS"
          /\ NextStep = 10 => CoreList[NextStep] = "subscribe"
      BY NextSettling
    <3>3. Send("core", [pos EXCEPT !.core = NextStep], CoreList[NextStep])
      <4>1. slot[LayerOf(h)] = "core"
        BY <1>1, <3>1 DEF SettlingInStep
      <4>2. ContinueCore
        BY <2>1, <4>1, ProfileEntries DEF Call
      <4> QED
        BY <3>2, <4>2, ProfileEntries DEF ContinueCore
    <3>4. pos'.core = NextStep /\ CoreList' = CoreList
      BY <2>1, <3>3 DEF Send, TypeOK, CoreList
    <3>5. \A k \in 1..9 : k < pos'.core => Done(k)'
      <4> SUFFICES ASSUME NEW k \in 1..9, k < pos'.core PROVE Done(k)'
        OBVIOUS
      <4>1. k < pos.core \/ k = pos.core
        BY <1>1, <3>2, <3>4
      <4>2. Done(k)
        BY <3>1, <4>1 DEF SettlingInStep
      <4> QED
        BY <2>1, <4>2 DEF Done
    <3>6. toZnp' = toZnp \/ toZnp' = Append(toZnp, CoreList[NextStep])
      BY <3>3 DEF Send, Write
    <3>7. CASE NextStep \in 1..9
      <4>1. /\ CoreList[NextStep] # "permit_join"
            /\ LayerOf(CoreList[NextStep]) = "SYS"
        BY <1>1, <3>2, <3>7, LongListLayers DEF CoreList
      <4>2. slot' = [slot EXCEPT !["SYS"] = "core"]
        BY <3>3, <4>1 DEF Send
      <4>3. slot'["SYS"] = "core" /\ \A layer \in {"AF", "UTIL", "ZDO"} : slot'[layer] = "none"
        BY <4>2 DEF SettlingInStep, TypeOK, Layers
      <4>4. Sole(toZnp', CoreList[NextStep])
        <5>1. CASE toZnp' = toZnp
          BY <3>1, <5>1 DEF Sole
        <5>2. CASE toZnp' = Append(toZnp, CoreList[NextStep])
          BY <1>3, <3>1, <4>1, <5>2, SoleAppend
        <5> QED
          BY <3>6, <5>1, <5>2
      <4>5. Sole(fromZnp', CoreList[NextStep])
        BY <3>1 DEF Sole
      <4>6. ~Settled'
        BY <1>1, <2>1, <3>4, <3>7 DEF Settled
      <4>7. SettlingInStep'
        BY <3>1, <3>4, <3>5, <4>3, <4>4, <4>5, <3>7 DEF SettlingInStep
      <4> QED
        BY <4>6, <4>7
    <3>8. CASE NextStep = 10
      <4>1. ~Settling'
        BY <3>4, <3>8 DEF Settling
      <4>2. Done(2)' /\ Done(3)' /\ Done(6)' /\ Done(7)' /\ Done(8)'
        BY <3>4, <3>5, <3>8
      <4>3. Configured' /\ ~nv'.clear
        <5>1. \A k \in {6, 7, 8} : Lists["reset"][k] \in nv'.settings \cup refused'
          BY <4>2 DEF Done
        <5>2. ~nv'.clear /\ (nv'.key = key' \/ "nwk_key" \in refused')
          BY <4>2 DEF Done
        <5> QED
          BY <5>1, <5>2, LongList DEF Configured
      <4>4. \A i \in DOMAIN toZnp' : toZnp'[i] # "clear"
        <5>1. \A i \in DOMAIN toZnp : toZnp[i] = "permit_join"
          BY <3>1 DEF Mine
        <5>2. ASSUME toZnp' = Append(toZnp, "subscribe"), NEW i \in DOMAIN toZnp'
              PROVE  toZnp'[i] # "clear"
          BY <1>3, <5>1, <5>2, AppendProperties, LenProperties
        <5> QED
          BY <3>2, <3>6, <3>8, <5>1, <5>2
      <4> QED
        BY <4>1, <4>3, <4>4 DEF SettledStays
    <3> QED
      BY <3>2, <3>7, <3>8
  <2> QED
    BY <2>3, <2>4
<1>6. CASE ReadUnknown
  <2>1. fromZnp # <<>> /\ Head(fromZnp) = "startup_srsp"
    BY <1>6 DEF ReadUnknown, Take
  <2>2. Head(fromZnp) = here
    BY <1>3, <2>1, SoleTail
  <2> QED
    BY <1>1, <2>1, <2>2
<1>7. CASE OpenNetwork
  <2>1. /\ toZnp' = Append(toZnp, "permit_join") \/ UNCHANGED toZnp
        /\ slot' = [slot EXCEPT !["ZDO"] = "none"]
        /\ UNCHANGED <<list, pos, key, nv, refused, fromZnp>>
    BY <1>7 DEF OpenNetwork, dongle
  <2>2. Sole(toZnp', here) /\ Mine(toZnp') = Mine(toZnp)
    BY <1>3, <2>1, SoleAppend
  <2>3. /\ slot'["SYS"] = slot["SYS"]
        /\ \A layer \in {"AF", "UTIL", "ZDO"} : slot'[layer] \in {"none", slot[layer]}
    BY <2>1 DEF TypeOK, Layers
  <2> QED
    BY <1>3, <1>4, <2>1, <2>2, <2>3
<1>8. CASE ZnpProcess
  <2> DEFINE h == Head(toZnp)
  <2>1. /\ toZnp # <<>> /\ toZnp' = Tail(toZnp) /\ Serve(h)
        /\ UNCHANGED <<list, pos, slot, key>>
    BY <1>8 DEF ZnpProcess, gateway
  <2>2. /\ Sole(toZnp', here)
        /\ Mine(toZnp') # {} => Mine(toZnp) # {} /\ h = "permit_join"
        /\ h # "permit_join" => h = here /\ Mine(toZnp) # {}
    BY <1>3, <2>1, SoleTail
  <2>3. fromZnp' = Append(fromZnp, h)
    <3>1. h # "startup"
      BY <1>1, <2>2
    <3>2. fromZnp' = fromZnp \o <<h>>
      BY <1>8, <3>1 DEF ZnpProcess
    <3> QED
      BY <1>3, <3>2, AppendIsConcat
  <2>4. CASE h = "permit_join"
    <3>1. UNCHANGED nv
      BY <2>1, <2>4 DEF Serve, Effect, Settings, AfRequests, dongle
    <3>2. "permit_join" \notin Refusable
      BY DEF Refusable, Settings, AfRequests
    <3>3. UNCHANGED refused
      <4>1. refused' = refused \ {"permit_join"}
        BY <2>1, <2>4, <3>2 DEF Serve
      <4>2. "permit_join" \notin refused
        BY <3>2 DEF TypeOK
      <4> HIDE DEF h
      <4> QED
        BY <4>1, <4>2
    <3>4. Sole(fromZnp', here) /\ Mine(fromZnp') = Mine(fromZnp)
      BY <1>3, <2>3, <2>4, SoleAppend
    <3> QED
      BY <1>4, <2>1, <2>2, <3>1, <3>3, <3>4
  <2>5. CASE h # "permit_join"
    <3>1. h = here /\ Mine(toZnp') = {} /\ Mine(fromZnp) = {}
      BY <2>2, <2>5 DEF SettlingInStep
    <3>2. Sole(fromZnp', here)
      BY <1>1, <1>3, <2>3, <3>1, SoleAppend
    <3>3. \A k \in 1..9 : k < pos.core => Done(k)
      BY DEF SettlingInStep
    <3>4. \A k \in 1..9 : k <= pos.core => Done(k)'
      BY <2>1, <3>1, <3>3, ServeDone
    <3>5. ~Settled' /\ CoreList' = CoreList
      BY <1>1, <2>1 DEF Settled, CoreList
    <3>6. \A k \in 1..9 : k < pos'.core \/ k = pos'.core => Done(k)'
      BY <1>1, <2>1, <3>4
    <3> QED
      BY <2>1, <2>2, <3>1, <3>2, <3>5, <3>6 DEF SettlingInStep
  <2> QED
    BY <2>4, <2>5
<1>9. CASE DongleReset
  BY <1>2, <1>9 DEF DongleReset
<1>10. CASE UNCHANGED vars
  BY <1>3, <1>4, <1>10 DEF vars, gateway, dongle
<1> QED
  BY <1>2, <1>5, <1>6, <1>7, <1>8, <1>9, <1>10 DEF Next, Gateway, Dongle, Boot, Stop

\* A start: with the long list nothing is behind, without it the dongle was
\* configured before.
LEMMA BootConfiguring ==
    ASSUME TypeOK, Configuring, NEW reset \in BOOLEAN, Boot(reset), "reset" \notin disturbed'
    PROVE  /\ Settling' => SettlingInStep'
           /\ Settled' => SettledStays'
<1>1. /\ ~up /\ UNCHANGED refused /\ pos' = [core |-> 1, zll |-> 0, zha |-> 0] /\ fromZnp' = <<>> /\ UNCHANGED nv
      /\ slot' = [layer \in Layers |-> IF layer = "SYS" THEN "core" ELSE "none"]
      /\ toZnp' = <<>> \/ toZnp' = <<Lists[list'][1]>>
  BY DEF Boot, dongle
<1>2. CASE reset \/ keyFile = 0
  <2>1. list' = "reset" /\ CoreList'[1] = "clear"
    BY <1>2, LongList DEF Boot, CoreList
  <2>2. toZnp' = <<>> \/ toZnp' = <<"clear">>
    BY <1>1, <2>1, LongList
  <2>3. Sole(toZnp', "clear") /\ Sole(fromZnp', "clear") /\ Mine(fromZnp') = {}
    <3>1. Mine(<<>>) = {} /\ Sole(<<>>, "clear") /\ Sole(<<"clear">>, "clear")
      BY DEF Mine, Sole
    <3> QED
      BY <1>1, <2>2, <3>1
  <2>4. ~Settled'
    BY <1>1, <2>1 DEF Settled
  <2>5. SettlingInStep'
    BY <1>1, <2>1, <2>3 DEF SettlingInStep, Layers
  <2> QED
    BY <2>4, <2>5
<1>3. CASE ~reset /\ keyFile # 0
  <2>1. list' = "restart" /\ key' = key
    BY <1>3 DEF Boot, KeysAfter, TypeOK
  <2>2. "reset" \notin disturbed
    BY <2>1 DEF Boot
  <2>3. Settled
    BY <1>1, <1>3, Phases DEF Configuring, Unbroken
  <2>4. Configured' /\ ~nv'.clear
    BY <1>1, <2>1, <2>2, <2>3 DEF Configuring, SettledStays, Configured
  <2>5. \A i \in DOMAIN toZnp' : toZnp'[i] # "clear"
    BY <1>1, <2>1 DEF Lists
  <2>6. ~Settling'
    BY <2>1 DEF Settling
  <2> QED
    BY <2>4, <2>5, <2>6 DEF SettledStays
<1> QED
  BY <1>2, <1>3

\* Losing the first requests adds none.
LEMMA DroppedAreGone ==
    ASSUME NEW S, NEW q \in Seq(S), NEW n \in 0..Len(q)
    PROVE  \A i \in DOMAIN SubSeq(q, n + 1, Len(q)) :
             \E j \in DOMAIN q : SubSeq(q, n + 1, Len(q))[i] = q[j]
<1> DEFINE m == Len(q)
           t == SubSeq(q, n + 1, m)
<1>1. m \in Nat /\ DOMAIN q = 1..m /\ n \in 0..m /\ \A i \in (n + 1)..m : q[i] \in S
  BY LenProperties, ElementOfSeq
<1>2. /\ t \in Seq(S)
      /\ Len(t) = IF n + 1 <= m THEN m - (n + 1) + 1 ELSE 0
      /\ \A i \in 1..(m - (n + 1) + 1) : t[i] = q[(n + 1) + i - 1]
  <2> HIDE DEF m
  <2> QED
    BY <1>1, SubSeqProperties
<1>3. DOMAIN t = 1..Len(t)
  BY <1>2, LenProperties
<1> HIDE DEF m, t
<1> SUFFICES ASSUME NEW i \in DOMAIN t PROVE \E j \in DOMAIN q : t[i] = q[j]
  BY DEF m, t
<1>4. i \in 1..(m - (n + 1) + 1) /\ (n + 1) + i - 1 \in 1..m
  BY <1>1, <1>2, <1>3
<1> QED
  BY <1>1, <1>2, <1>4

\* A dongle that is configured stays so: the one request that could undo it is
\* not sent again.
LEMMA SettledNext ==
    ASSUME "crash" \notin Faults, TypeOK, Unbroken, Settled, SettledStays, [Next]_vars,
           ~\E reset \in BOOLEAN : Boot(reset), "reset" \notin disturbed'
    PROVE  ~Settling' /\ SettledStays'
<1>1. toZnp \in Seq(Requests) /\ \A i \in DOMAIN toZnp : toZnp[i] # "clear"
  BY DEF TypeOK, SettledStays
<1>2. nv \in [clear : BOOLEAN, key : 0..boots, settings : SUBSET Settings]
  BY DEF TypeOK
<1>3. ~Settling
  BY Phases
<1>4. ASSUME UNCHANGED <<list, pos, key, nv, refused>>, \A i \in DOMAIN toZnp' : toZnp'[i] # "clear"
      PROVE  ~Settling' /\ SettledStays'
  BY <1>3, <1>4 DEF SettledStays, Configured, Settling
\* Every way the queue grows or shrinks.
<1>5. ASSUME NEW r, r # "clear", toZnp' = Append(toZnp, r)
      PROVE  \A i \in DOMAIN toZnp' : toZnp'[i] # "clear"
  BY <1>1, <1>5, AppendProperties, LenProperties
<1>6. ASSUME NEW n \in 0..Len(toZnp), toZnp' = SubSeq(toZnp, n + 1, Len(toZnp))
      PROVE  \A i \in DOMAIN toZnp' : toZnp'[i] # "clear"
  BY <1>1, <1>6, DroppedAreGone
<1>7. CASE Read
  <2> DEFINE c == slot[LayerOf(Head(fromZnp))]
  <2>1. c \in Owners
    BY LayersTyped DEF TypeOK
  <2>2. Call(c) /\ UNCHANGED <<list, key, nv, refused>>
    BY <1>7 DEF Read, Take, dongle
  <2> HIDE DEF c
  <2>3. pos'.core \in Nat /\ pos'.core >= pos.core
    <3>1. pos'.core = pos.core \/ pos'.core = NextStep
      BY <2>1, <2>2, CallMoves
    <3>2. NextStep \in Nat /\ NextStep > pos.core /\ pos.core \in Nat
      BY Phases
    <3> QED
      BY <3>1, <3>2
  <2>4. ~Settling'
    BY <1>3, <2>2, <2>3, Phases DEF Settling, Settled
  <2>5. \/ toZnp' = toZnp
        \/ \E r : toZnp' = Append(toZnp, r) /\ r # "clear"
    <3>1. "clear" \notin AfRequests
      BY DEF AfRequests
    <3> QED
      BY <2>1, <2>2, <3>1, CallMoves, Phases
  <2>6. \A i \in DOMAIN toZnp' : toZnp'[i] # "clear"
    BY <1>1, <1>5, <2>5
  <2> QED
    BY <2>2, <2>4, <2>6 DEF SettledStays, Configured
<1>8. CASE ReadUnknown
  BY <1>1, <1>4, <1>8 DEF ReadUnknown, Take, dongle
<1>9. CASE OpenNetwork
  BY <1>1, <1>4, <1>5, <1>9 DEF OpenNetwork, dongle
<1>10. CASE Stop
  BY <1>1, <1>4, <1>10 DEF Stop, dongle
<1>11. CASE ZnpProcess
  <2> DEFINE h == Head(toZnp)
  <2>1. /\ toZnp # <<>> /\ toZnp' = Tail(toZnp) /\ Serve(h)
        /\ UNCHANGED <<list, pos, key>>
    BY <1>11 DEF ZnpProcess, gateway
  <2>2. /\ h = toZnp[1] /\ 1 \in DOMAIN toZnp
        /\ \A i \in DOMAIN toZnp' : i + 1 \in DOMAIN toZnp /\ toZnp'[i] = toZnp[i + 1]
    BY <1>1, <2>1, HeadTailProperties, LenProperties, EmptySeq
  <2>3. h # "clear" /\ \A i \in DOMAIN toZnp' : toZnp'[i] # "clear"
    BY <1>1, <2>2
  <2> HIDE DEF h
  <2>4. nv' \in {nv, [nv EXCEPT !.key = key], [nv EXCEPT !.settings = @ \cup {h}]}
    BY <1>2, <2>1, <2>3 DEF Serve, Effect, Restarted, SettledStays, dongle
  <2>5. ~nv'.clear /\ nv.settings \subseteq nv'.settings /\ (nv.key = key => nv'.key = key)
    BY <1>2, <2>4 DEF SettledStays
  <2>6. \A x : x \in refused /\ x # h => x \in refused'
    BY <2>1 DEF Serve
  <2>7. h = "nwk_key" => nv'.key = key \/ "nwk_key" \in refused'
    <3>1. "nwk_key" \notin Settings \cup AfRequests
      BY DEF Settings, AfRequests
    <3> QED
      BY <1>2, <2>1, <3>1 DEF Serve, Effect
  <2>8. h \in {"coord_flag", "pan_id", "channel"} => h \in nv'.settings \cup refused'
    <3>1. \A x \in {"coord_flag", "pan_id", "channel"} :
            /\ x \in Settings /\ x \notin AfRequests
            /\ x \notin {"reset", "clear", "nwk_key", "startup", "ext_addr", "ping", "subscribe",
                         "route", "announce", "permit_join"}
      BY DEF Settings, AfRequests
    <3> QED
      BY <1>2, <2>1, <3>1 DEF Serve, Effect
  <2>9. Configured'
    BY <2>1, <2>5, <2>6, <2>7, <2>8 DEF SettledStays, Configured
  <2> QED
    BY <1>3, <2>1, <2>3, <2>5, <2>9 DEF SettledStays, Settling
<1>12. CASE DongleReset
  <2>1. UNCHANGED <<list, pos, key, nv, refused>>
    BY <1>12 DEF DongleReset, Restarted, gateway, SettledStays
  <2> QED
    BY <1>4, <1>6, <1>12, <2>1 DEF DongleReset
<1>13. CASE UNCHANGED vars
  BY <1>1, <1>4, <1>13 DEF vars, gateway, dongle
<1> QED
  BY <1>7, <1>8, <1>9, <1>10, <1>11, <1>12, <1>13 DEF Next, Gateway, Dongle

LEMMA ConfiguringNext ==
    ASSUME "crash" \notin Faults, TypeOK, Configuring, [Next]_vars
    PROVE  Configuring'
<1>1. Unbroken'
  BY UnbrokenNext DEF Configuring
<1> SUFFICES ASSUME "reset" \notin disturbed'
             PROVE  (Settling' => SettlingInStep') /\ (Settled' => SettledStays')
  BY <1>1 DEF Configuring
<1>2. CASE \E reset \in BOOLEAN : Boot(reset)
  BY <1>2, BootConfiguring
<1>3. CASE ~\E reset \in BOOLEAN : Boot(reset)
  <2>1. "reset" \notin disturbed
    <3>1. ASSUME Read PROVE "reset" \in disturbed => "reset" \in disturbed'
      <4>1. slot[LayerOf(Head(fromZnp))] \in Owners
        BY LayersTyped DEF TypeOK
      <4> QED
        BY <3>1, <4>1, CallMoves DEF Read
    <3> QED
      BY <1>3, <3>1 DEF Next, Gateway, Dongle, ReadUnknown, OpenNetwork, Stop, ZnpProcess,
                        DongleReset, vars
  <2>2. CASE pos.core = 0
    <3>1. pos'.core = 0
      BY <1>3, <2>2 DEF Configuring, Unbroken, Next, Gateway, Dongle, Read, ReadUnknown, Take,
                        OpenNetwork, Stop, ZnpProcess, DongleReset, gateway, vars
    <3>2. list' = "reset"
      BY <1>1, <3>1 DEF Unbroken
    <3> QED
      BY <3>1, <3>2 DEF Settling, Settled
  <2>3. CASE Settling
    BY <2>1, <2>3, SettlingNext DEF Configuring
  <2>4. CASE Settled
    BY <1>3, <2>1, <2>4, SettledNext DEF Configuring
  <2> QED
    BY <2>2, <2>3, <2>4, Phases
<1> QED
  BY <1>2, <1>3

\* If no start is cut short, and the dongle has not restarted by itself, the
\* network is only ever started on a dongle that holds the network key of the
\* host and the role, the PAN and the channels of a coordinator, each of them
\* unless the dongle refused to store it: whatever requests are lost and
\* whichever commands come early, over any number of starts.
THEOREM StartsConfiguredCorrectness ==
    ASSUME "crash" \notin Faults
    PROVE  Spec => []StartsConfigured
<1>1. Init => TypeOK /\ Configuring
  BY InitTyped DEF Init, Configuring, Unbroken, Settling, Settled
<1>2. TypeOK /\ Configuring /\ [Next]_vars => (TypeOK /\ Configuring)'
  BY NextTyped, ConfiguringNext
<1>3. TypeOK /\ Configuring => StartsConfigured
  <2> SUFFICES ASSUME TypeOK, Configuring, toZnp # <<>>, Head(toZnp) = "startup",
                      "reset" \notin disturbed
               PROVE  Configured
    BY DEF StartsConfigured
  <2>1. pos.core # 0
    BY DEF Configuring, Unbroken
  <2>2. CASE Settling
    <3>1. "startup" = CoreList[pos.core]
      BY <2>2, SoleTail DEF Configuring, SettlingInStep, TypeOK
    <3> QED
      BY <2>2, <3>1, LongListLayers DEF Settling, CoreList
  <2>3. CASE Settled
    BY <2>3 DEF Configuring, SettledStays
  <2> QED
    BY <2>1, <2>2, <2>3, Phases
<1> QED
  BY <1>1, <1>2, <1>3, PTL DEF Spec
=============================================================================
