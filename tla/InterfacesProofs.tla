-------------------------- MODULE InterfacesProofs ---------------------------
(***************************************************************************)
(* Machine-checked theorems about Interfaces, for every set of clients,    *)
(* every number of commands and events, and every set of faults: answers   *)
(* and events go where they should, and each server implements ClientSlot. *)
(***************************************************************************)
EXTENDS Interfaces, SequenceTheorems, FiniteSetTheorems, TLAPS

-----------------------------------------------------------------------------
(* The inductive invariant *)

\* Does c belong to server i: is it "the" client of i, or waiting to become it?
Belongs(c, i) == handle[i] = c \/ c \in Waiting(i)

\* A connection that is read is the one of the handle.
ReadingIsHeld == \A i \in Servers : \A c \in reading[i] : handle[i] = c

\* No connection belongs to both servers, and one not yet made to none.
OnePlace == \A c \in Clients : \A i, j \in Servers : Belongs(c, i) /\ Belongs(c, j) => i = j
NewBelongsNowhere == \A c \in Clients : \A i \in Servers : place[c] = "new" => ~Belongs(c, i)

\* Only a server that runs reads, in a gateway that runs.
ServersRun == \A i \in Servers :
    /\ server[i] # "off" => up
    /\ reading[i] # {} => server[i] # "off"

\* Between two runs there is a socket file only if the last one was killed.
FileTells == ~up /\ sockFile => ended = "killed"

Places == ReadingIsHeld /\ OnePlace /\ NewBelongsNowhere /\ ServersRun
Inv    == /\ TypeOK /\ Places
          /\ FileTells /\ IpcComesBack
          /\ AnswersGoHome /\ EventsHeard

-----------------------------------------------------------------------------
(* Queues of connections *)

Elements(s) == {s[k] : k \in DOMAIN s}

LEMMA ElementsOfTail ==
    ASSUME NEW S, NEW s \in Seq(S), s # <<>>
    PROVE  /\ Head(s) \in S /\ Tail(s) \in Seq(S)
           /\ Head(s) \in Elements(s)
           /\ Elements(Tail(s)) \subseteq Elements(s)
<1>1. Len(s) \in Nat \ {0} /\ DOMAIN s = 1..Len(s)
  BY EmptySeq, LenProperties
<1>2. /\ Head(s) \in S /\ Tail(s) \in Seq(S)
      /\ Len(Tail(s)) = Len(s) - 1
      /\ \A k \in 1..Len(Tail(s)) : Tail(s)[k] = s[k + 1]
  BY HeadTailProperties
<1>3. DOMAIN Tail(s) = 1..Len(s) - 1
  BY <1>2, LenProperties
<1>4. Head(s) = s[1]
  OBVIOUS
<1>5. \A k \in 1..Len(s) - 1 : k + 1 \in 1..Len(s)
  BY <1>1
<1> QED
  BY <1>1, <1>2, <1>3, <1>4, <1>5 DEF Elements

LEMMA ElementsOfAppend ==
    ASSUME NEW S, NEW s \in Seq(S), NEW e \in S
    PROVE  Append(s, e) \in Seq(S) /\ Elements(Append(s, e)) = Elements(s) \cup {e}
<1>1. Len(s) \in Nat /\ DOMAIN s = 1..Len(s)
  BY LenProperties
<1>2. /\ Append(s, e) \in Seq(S)
      /\ Len(Append(s, e)) = Len(s) + 1
      /\ \A k \in 1..Len(s) : Append(s, e)[k] = s[k]
      /\ Append(s, e)[Len(s) + 1] = e
  BY AppendProperties
<1>3. DOMAIN Append(s, e) = 1..Len(s) + 1
  BY <1>2, LenProperties
<1>4. 1..Len(s) + 1 = (1..Len(s)) \cup {Len(s) + 1}
  BY <1>1
<1> QED
  BY <1>1, <1>2, <1>3, <1>4 DEF Elements

LEMMA WaitingIsElements == \A i : Waiting(i) = Elements(waiting[i])
  BY DEF Waiting, Elements

-----------------------------------------------------------------------------
(* Types *)

LEMMA TypeInit == Init => TypeOK
<1> SUFFICES ASSUME Init PROVE TypeOK
  OBVIOUS
<1>1. waiting \in [Servers -> Seq(Clients)]
  BY EmptySeq DEF Init
<1>2. /\ sent \in 0..MaxCommands /\ waits \subseteq 1..sent /\ events \in 0..MaxEvents
      /\ pending \in [Clients -> SUBSET (1..MaxCommands)]
  BY InterfacesAssumption DEF Init
<1>3. crowded \in [Servers -> BOOLEAN]
  BY DEF Init
<1>4. /\ server \in [Servers -> {"off", "listening", "stuck"}]
      /\ handle \in [Servers -> Clients \cup {None}]
      /\ reading \in [Servers -> SUBSET Clients]
      /\ place \in [Clients -> Servers \cup {"new", "gone"}]
  BY DEF Init
<1> QED
  BY <1>1, <1>2, <1>3, <1>4 DEF Init, TypeOK

LEMMA TypeDown ==
    ASSUME TypeOK, Down, ended' \in {"orderly", "killed"}, sockFile' \in BOOLEAN
    PROVE  TypeOK'
<1>1. <<>> \in Seq(Clients)
  BY EmptySeq
<1> QED
  BY <1>1 DEF TypeOK, Down, talk, bulletin

LEMMA TypeServe ==
    ASSUME TypeOK, NEW i \in Servers, Serve(i)
    PROVE  TypeOK'
<1>1. CASE NewConnection(i)
  <2>1. waiting[i] \in Seq(Clients) /\ waiting[i] # <<>>
    BY <1>1 DEF NewConnection, TypeOK
  <2>2. Head(waiting[i]) \in Clients /\ Tail(waiting[i]) \in Seq(Clients)
    BY <2>1, ElementsOfTail
  <2>3. CASE Refuse(i)
    BY <1>1, <2>3 DEF TypeOK, Refuse, NewConnection, gateway, talk, bulletin
  <2>4. CASE Accept(i, Head(waiting[i]))
    BY <1>1, <2>2, <2>4 DEF TypeOK, Accept, NewConnection, gateway, talk, bulletin
  <2>5. CASE AcceptFails(i, Head(waiting[i]))
    BY <1>1, <2>2, <2>5 DEF TypeOK, AcceptFails, NewConnection, gateway, talk, bulletin
  <2> QED
    BY <1>1, <2>3, <2>4, <2>5 DEF NewConnection
<1>2. CASE ReadData(i)
  <2>1. PICK c, taken : /\ c \in reading[i]
                         /\ pending' = [pending EXCEPT ![c] = @ \ taken]
                         /\ ProcessData(i, c, taken)
    BY <1>2 DEF ReadData
  <2>2. c \in Clients
    BY <2>1 DEF TypeOK
  <2>3. misled' \subseteq Clients /\ waits' \subseteq 1..sent
    <3>1. handle[i] \in Clients \cup {None} /\ misled \subseteq Clients /\ waits \subseteq 1..sent
      BY DEF TypeOK
    <3> QED
      BY <2>1, <2>2, <3>1 DEF ProcessData, Answer
  <2>4. pending' \in [Clients -> SUBSET (1..MaxCommands)]
    BY <2>1, <2>2 DEF TypeOK
  <2> QED
    BY <1>2, <2>3, <2>4 DEF TypeOK, ReadData, gateway, sockets, bulletin
<1>3. CASE ReadEnd(i)
  BY <1>3 DEF TypeOK, ReadEnd, gateway, talk, bulletin
<1> QED
  BY <1>1, <1>2, <1>3 DEF Serve

LEMMA TypeClient ==
    ASSUME TypeOK, NEW c \in Clients,
           \/ \E i \in Servers : Connect(c, i)
           \/ \E command \in BOOLEAN : Ask(c, command)
           \/ Leave(c)
    PROVE  TypeOK'
<1>1. ASSUME NEW i \in Servers, Connect(c, i) PROVE TypeOK'
  <2>1. Append(waiting[i], c) \in Seq(Clients)
    BY ElementsOfAppend DEF TypeOK
  <2> QED
    BY <1>1, <2>1 DEF TypeOK, Connect, gateway, talk, bulletin
<1>2. ASSUME NEW command \in BOOLEAN, Ask(c, command) PROVE TypeOK'
  <2>1. sent + 1 \in 1..MaxCommands /\ 1..sent \subseteq 1..sent + 1
    BY <1>2, InterfacesAssumption DEF Ask, TypeOK
  <2>2. pending' \in [Clients -> SUBSET (1..MaxCommands)]
    BY <1>2, <2>1 DEF Ask, TypeOK
  <2>3. sent' \in 0..MaxCommands /\ waits' \subseteq 1..sent'
    BY <1>2, <2>1 DEF Ask, TypeOK
  <2> QED
    BY <1>2, <2>2, <2>3 DEF TypeOK, Ask, gateway, sockets, bulletin
<1>3. CASE Leave(c)
  BY <1>3 DEF TypeOK, Leave, gateway, talk, bulletin
<1> QED
  BY <1>1, <1>2, <1>3

LEMMA TypeNext == TypeOK /\ [Next]_vars => TypeOK'
<1> SUFFICES ASSUME TypeOK, [Next]_vars PROVE TypeOK'
  OBVIOUS
<1>1. CASE Start
  BY <1>1, InterfacesAssumption DEF TypeOK, Start, IpcInit, TcpInit, talk, Servers
<1>2. CASE Stop
  BY <1>2, TypeDown DEF Stop
<1>3. CASE Crash
  BY <1>3, TypeDown DEF Crash, TypeOK
<1>4. ASSUME NEW i \in Servers, Serve(i) PROVE TypeOK'
  BY <1>4, TypeServe
<1>5. CASE SendEvent
  BY <1>5, InterfacesAssumption DEF TypeOK, SendEvent, Deaf, gateway, sockets, talk, Servers
<1>6. CASE Client
  BY <1>6, TypeClient DEF Client
<1>7. CASE UNCHANGED vars
  BY <1>7 DEF TypeOK, vars, gateway, sockets, talk, bulletin
<1> QED
  BY <1>1, <1>2, <1>3, <1>4, <1>5, <1>6, <1>7 DEF Next, Lifecycle

\* Every variable of the interfaces keeps its type, whatever clients do.
THEOREM TypeCorrectness == Spec => []TypeOK
  BY TypeInit, TypeNext, PTL DEF Spec

-----------------------------------------------------------------------------
(* Who belongs where *)

LEMMA PlacesInit == Init => Places
<1> SUFFICES ASSUME Init PROVE Places
  OBVIOUS
<1>1. \A i \in Servers : reading[i] = {} /\ waiting[i] = <<>> /\ handle[i] = None /\ server[i] = "off"
  BY DEF Init
<1>2. \A i \in Servers : Waiting(i) = {}
  BY <1>1 DEF Waiting
<1>3. \A c \in Clients : c # None
  BY InterfacesAssumption
<1> QED
  BY <1>1, <1>2, <1>3
     DEF Places, ReadingIsHeld, OnePlace, NewBelongsNowhere, ServersRun, Belongs

LEMMA PlacesDown == Down => Places'
<1> SUFFICES ASSUME Down PROVE Places'
  OBVIOUS
<1>1. \A i \in Servers : reading'[i] = {} /\ waiting'[i] = <<>> /\ handle'[i] = None /\ server'[i] = "off"
  BY DEF Down
<1>2. \A i \in Servers : Waiting(i)' = {}
  BY <1>1 DEF Waiting
<1>3. \A c \in Clients : c # None
  BY InterfacesAssumption
<1> QED
  BY <1>1, <1>2, <1>3
     DEF Places, ReadingIsHeld, OnePlace, NewBelongsNowhere, ServersRun, Belongs

\* A step after which nobody belongs anywhere new.
LEMMA PlacesShrink ==
    ASSUME Places, up' = up, NEW i \in Servers,
           server' = server \/ (server[i] = "listening" /\ server' = [server EXCEPT ![i] = "stuck"]),
           server \in [Servers -> {"off", "listening", "stuck"}],
           \A c \in Clients : \A j \in Servers : Belongs(c, j)' => Belongs(c, j),
           \A c \in Clients : place'[c] = "new" => place[c] = "new",
           ReadingIsHeld',
           \A j \in Servers : reading'[j] # {} => reading[j] # {} \/ server[j] = "listening"
    PROVE  Places'
<1>1. OnePlace' /\ NewBelongsNowhere'
  BY DEF Places, OnePlace, NewBelongsNowhere
<1>2. ServersRun'
  BY DEF Places, ServersRun
<1> QED
  BY <1>1, <1>2 DEF Places

LEMMA PlacesServe ==
    ASSUME TypeOK, Places, NEW i \in Servers, Serve(i)
    PROVE  Places'
<1> USE DEF gateway, sockets, talk, bulletin
<1>1. CASE NewConnection(i)
  <2> DEFINE c == Head(waiting[i])
  <2>1. waiting[i] \in Seq(Clients) /\ waiting[i] # <<>>
    BY <1>1 DEF NewConnection, TypeOK
  <2>2. c \in Clients /\ c \in Waiting(i) /\ Elements(Tail(waiting[i])) \subseteq Waiting(i)
    BY <2>1, ElementsOfTail, WaitingIsElements
  <2>3. CASE Refuse(i)
    <3>1. \A d \in Clients : \A j \in Servers : Belongs(d, j)' = Belongs(d, j)
      BY <2>3 DEF Refuse, Belongs, Waiting
    <3>2. ReadingIsHeld'
      BY <2>3 DEF Refuse, Places, ReadingIsHeld
    <3> QED
      BY <1>1, <2>3, <3>1, <3>2, PlacesShrink DEF Refuse, NewConnection, TypeOK
  <2>4. CASE handle[i] = None /\ Accept(i, c)
    <3>1. \A j \in Servers : Waiting(j)' \subseteq Waiting(j)
      <4>1. waiting'[i] = Tail(waiting[i]) /\ \A j \in Servers \ {i} : waiting'[j] = waiting[j]
        BY <2>4 DEF Accept, TypeOK
      <4> QED
        BY ZenonT(30), <2>2, <4>1 DEF Waiting, Elements
    <3>2. handle'[i] = c /\ \A j \in Servers \ {i} : handle'[j] = handle[j]
      BY <2>4 DEF Accept, TypeOK
    <3>3. \A d \in Clients : \A j \in Servers : Belongs(d, j)' => Belongs(d, j)
      BY <2>2, <3>1, <3>2 DEF Belongs
    <3>4. reading[i] = {}
      BY <2>4, InterfacesAssumption DEF Places, ReadingIsHeld, TypeOK
    <3>5. ReadingIsHeld'
      BY <2>4, <3>2, <3>4 DEF Accept, Places, ReadingIsHeld, TypeOK
    <3>6. \A j \in Servers : reading'[j] # {} => reading[j] # {} \/ server[j] = "listening"
      BY <1>1, <2>4 DEF Accept, NewConnection, TypeOK
    <3> QED
      BY <1>1, <2>4, <3>3, <3>5, <3>6, PlacesShrink DEF Accept, NewConnection, TypeOK
  <2>5. CASE AcceptFails(i, c)
    <3>1. \A j \in Servers : Waiting(j)' \subseteq Waiting(j)
      <4>1. waiting'[i] = Tail(waiting[i]) /\ \A j \in Servers \ {i} : waiting'[j] = waiting[j]
        BY <2>5 DEF AcceptFails, TypeOK
      <4> QED
        BY ZenonT(30), <2>2, <4>1 DEF Waiting, Elements
    <3>2. \A d \in Clients : \A j \in Servers : Belongs(d, j)' => Belongs(d, j)
      BY <2>5, <3>1 DEF Belongs, AcceptFails
    <3>3. ReadingIsHeld'
      BY <2>5 DEF AcceptFails, Places, ReadingIsHeld
    <3>4. \A d \in Clients : place'[d] = "new" => place[d] = "new"
      BY <2>5 DEF AcceptFails, TypeOK
    <3> QED
      BY <1>1, <2>5, <3>2, <3>3, <3>4, PlacesShrink DEF AcceptFails, NewConnection, TypeOK
  <2> QED
    BY <1>1, <2>3, <2>4, <2>5 DEF NewConnection
<1>2. CASE ReadData(i)
  BY <1>2 DEF ReadData, Places, ReadingIsHeld, OnePlace, NewBelongsNowhere, ServersRun, Belongs, Waiting
<1>3. CASE ReadEnd(i)
  <2>1. PICK c \in reading[i] :
          /\ reading' = [reading EXCEPT ![i] = @ \ {c}]
          /\ handle' = IF i = "TCP" THEN [handle EXCEPT ![i] = None] ELSE handle
    BY <1>3 DEF ReadEnd
  <2>2. reading[i] = {c} /\ reading'[i] = {} /\ \A j \in Servers \ {i} : reading'[j] = reading[j]
    BY <2>1 DEF Places, ReadingIsHeld, TypeOK
  <2>3. \A j \in Servers \ {i} : handle'[j] = handle[j]
    BY <2>1 DEF TypeOK
  <2>4. handle'[i] = None \/ handle'[i] = handle[i]
    BY <2>1 DEF TypeOK
  <2>5. \A d \in Clients : \A j \in Servers : Belongs(d, j)' => Belongs(d, j)
    <3>1. \A j \in Servers : Waiting(j)' = Waiting(j)
      BY <1>3 DEF ReadEnd, Waiting
    <3> QED
      BY <2>3, <2>4, <3>1, InterfacesAssumption DEF Belongs
  <2>6. ReadingIsHeld'
    BY <2>2, <2>3 DEF Places, ReadingIsHeld
  <2> QED
    BY <1>3, <2>2, <2>5, <2>6, PlacesShrink DEF ReadEnd, TypeOK
<1> QED
  BY <1>1, <1>2, <1>3 DEF Serve

LEMMA PlacesConnect ==
    ASSUME TypeOK, Places, NEW c \in Clients, NEW i \in Servers, Connect(c, i)
    PROVE  Places'
<1> USE DEF gateway, sockets, talk, bulletin
<1>1. Waiting(i)' = Waiting(i) \cup {c} /\ \A j \in Servers \ {i} : Waiting(j)' = Waiting(j)
  <2>1. waiting'[i] = Append(waiting[i], c) /\ \A j \in Servers \ {i} : waiting'[j] = waiting[j]
    BY DEF Connect, TypeOK
  <2>2. Elements(Append(waiting[i], c)) = Elements(waiting[i]) \cup {c}
    BY ElementsOfAppend DEF TypeOK
  <2> QED
    BY <2>1, <2>2 DEF Waiting, Elements
<1>2. \A j \in Servers : ~Belongs(c, j)
  BY DEF Connect, Places, NewBelongsNowhere
<1>3. \A d \in Clients : \A j \in Servers : Belongs(d, j)' <=> Belongs(d, j) \/ (d = c /\ j = i)
  BY <1>1 DEF Belongs, Connect
<1>4. \A d \in Clients : place'[d] = "new" => place[d] = "new" /\ d # c
  BY DEF Connect, TypeOK, Servers
<1>5. OnePlace' /\ NewBelongsNowhere'
  BY <1>2, <1>3, <1>4 DEF Places, OnePlace, NewBelongsNowhere
<1>6. ReadingIsHeld' /\ ServersRun'
  BY DEF Connect, Places, ReadingIsHeld, ServersRun
<1> QED
  BY <1>5, <1>6 DEF Places

LEMMA PlacesNext == TypeOK /\ Places /\ [Next]_vars => Places'
<1> SUFFICES ASSUME TypeOK, Places, [Next]_vars PROVE Places'
  OBVIOUS
<1> USE DEF gateway, sockets, talk, bulletin
<1>1. CASE Start
  <2>1. \A i \in Servers : server[i] = "off" /\ reading[i] = {}
    BY <1>1 DEF Start, Places, ServersRun
  <2> QED
    BY <1>1, <2>1 DEF Start, Places, ReadingIsHeld, OnePlace, NewBelongsNowhere, ServersRun, Belongs, Waiting
<1>2. CASE Stop \/ Crash
  BY <1>2, PlacesDown DEF Stop, Crash
<1>3. ASSUME NEW i \in Servers, Serve(i) PROVE Places'
  BY <1>3, PlacesServe
<1>4. CASE SendEvent
  BY <1>4 DEF SendEvent, Places, ReadingIsHeld, OnePlace, NewBelongsNowhere, ServersRun, Belongs, Waiting
<1>5. ASSUME NEW c \in Clients, NEW i \in Servers, Connect(c, i) PROVE Places'
  BY <1>5, PlacesConnect
<1>6. ASSUME NEW c \in Clients, (\E command \in BOOLEAN : Ask(c, command)) PROVE Places'
  BY <1>6 DEF Ask, Places, ReadingIsHeld, OnePlace, NewBelongsNowhere, ServersRun, Belongs, Waiting
<1>7. ASSUME NEW c \in Clients, Leave(c) PROVE Places'
  <2>1. \A d \in Clients : place'[d] = "new" => place[d] = "new"
    BY <1>7 DEF Leave, TypeOK
  <2> QED
    BY <1>7, <2>1 DEF Leave, Places, ReadingIsHeld, OnePlace, NewBelongsNowhere, ServersRun, Belongs, Waiting
<1>8. CASE UNCHANGED vars
  BY <1>8 DEF vars, Places, ReadingIsHeld, OnePlace, NewBelongsNowhere, ServersRun, Belongs, Waiting
<1> QED
  BY <1>1, <1>2, <1>3, <1>4, <1>5, <1>6, <1>7, <1>8 DEF Next, Lifecycle, Client

-----------------------------------------------------------------------------
(* Answers, events, and the socket file *)

LEMMA AnswersNext == TypeOK /\ Places /\ AnswersGoHome /\ [Next]_vars => AnswersGoHome'
<1> SUFFICES ASSUME TypeOK, Places, AnswersGoHome, [Next]_vars PROVE AnswersGoHome'
  OBVIOUS
<1>1. ASSUME NEW i \in Servers, ReadData(i) PROVE AnswersGoHome'
  <2>1. PICK c \in reading[i] : \E taken : ProcessData(i, c, taken)
    BY <1>1 DEF ReadData
  <2>2. handle[i] = c
    BY <2>1 DEF Places, ReadingIsHeld
  <2> QED
    BY <2>1, <2>2 DEF ProcessData, Answer, AnswersGoHome
<1>2. CASE UNCHANGED misled
  BY <1>2 DEF AnswersGoHome
<1> QED
  BY <1>1, <1>2 DEF Next, Lifecycle, Serve, Client, Start, Stop, Crash, Down, NewConnection, ReadEnd,
       SendEvent, Connect, Ask, Leave, vars, gateway, sockets, talk, bulletin

LEMMA EventsNext == TypeOK /\ Places /\ EventsHeard /\ [Next]_vars => EventsHeard'
<1> SUFFICES ASSUME TypeOK, Places, EventsHeard, [Next]_vars PROVE EventsHeard'
  OBVIOUS
<1>1. CASE SendEvent
  <2> DEFINE heard == {i \in Servers : server[i] # "off"}
  <2>1. ASSUME NEW c \in reading["IPC"] \cup reading["TCP"]
        PROVE  Cardinality({i \in heard : handle[i] = c}) = 1
    <3>1. PICK i \in Servers : c \in reading[i]
      BY <2>1 DEF Servers
    <3>2. c \in Clients
      BY <3>1 DEF TypeOK
    <3>3. i \in heard /\ handle[i] = c
      BY <3>1 DEF Places, ReadingIsHeld, ServersRun
    <3>4. \A j \in Servers : handle[j] = c => j = i
      BY <3>2, <3>3 DEF Places, OnePlace, Belongs
    <3>5. {j \in heard : handle[j] = c} = {i}
      BY <3>3, <3>4
    <3> QED
      BY <3>5, FS_Singleton
  <2>2. Deaf(heard) = {}
    BY <2>1 DEF Deaf
  <2> QED
    BY <1>1, <2>2 DEF SendEvent, EventsHeard
<1>2. CASE UNCHANGED deaf
  BY <1>2 DEF EventsHeard
<1> QED
  BY <1>1, <1>2 DEF Next, Lifecycle, Serve, Client, Start, Stop, Crash, Down, NewConnection, ReadData, ReadEnd,
       Connect, Ask, Leave, vars, gateway, sockets, talk, bulletin

LEMMA FileNext ==
    TypeOK /\ Places /\ FileTells /\ IpcComesBack /\ [Next]_vars => FileTells' /\ IpcComesBack'
<1> SUFFICES ASSUME TypeOK, Places, FileTells, IpcComesBack, [Next]_vars
             PROVE  FileTells' /\ IpcComesBack'
  OBVIOUS
<1> USE DEF gateway, sockets, talk, bulletin
<1>1. CASE Start
  <2>1. server'["IPC"] \in IpcInit
    BY <1>1 DEF Start
  <2> QED
    BY <1>1, <2>1 DEF Start, IpcInit, FileTells, IpcComesBack
<1>2. CASE Stop \/ Crash
  BY <1>2 DEF Stop, Crash, Down, FileTells, IpcComesBack
<1>3. ASSUME NEW i \in Servers, NewConnection(i) PROVE FileTells' /\ IpcComesBack'
  <2>1. server' = server \/ server' = [server EXCEPT ![i] = "stuck"]
    BY <1>3 DEF NewConnection, Accept, AcceptFails, Refuse
  <2>2. server'["IPC"] = "off" => server["IPC"] = "off"
    BY <2>1 DEF TypeOK, Servers
  <2> QED
    BY <1>3, <2>2 DEF NewConnection, FileTells, IpcComesBack
<1>4. CASE UNCHANGED <<gateway, server>>
  BY <1>4 DEF FileTells, IpcComesBack
<1> QED
  BY <1>1, <1>2, <1>3, <1>4 DEF Next, Lifecycle, Serve, Client, ReadData, ReadEnd,
       SendEvent, Connect, Ask, Leave, vars

\* The inductive invariant.
LEMMA Invariance == Spec => []Inv
<1>1. Init => Inv
  BY TypeInit, PlacesInit DEF Init, Inv, FileTells, IpcComesBack, AnswersGoHome, EventsHeard
<1>2. Inv /\ [Next]_vars => Inv'
  BY TypeNext, PlacesNext, AnswersNext, EventsNext, FileNext DEF Inv
<1> QED
  BY <1>1, <1>2, PTL DEF Spec

\* Every answer goes to the client that asked, whoever comes and goes: a connection
\* that is read is the one of the handle answers are written to.
THEOREM AnswersCorrectness == Spec => []AnswersGoHome
<1>1. Inv => AnswersGoHome
  BY DEF Inv
<1> QED
  BY <1>1, Invariance, PTL

\* Each event reaches every accepted client once.
THEOREM EventsCorrectness == Spec => []EventsHeard
<1>1. Inv => EventsHeard
  BY DEF Inv
<1> QED
  BY <1>1, Invariance, PTL

\* The Unix interface is missing only in a run that follows a kill.
THEOREM FileCorrectness == Spec => []IpcComesBack
<1>1. Inv => IpcComesBack
  BY DEF Inv
<1> QED
  BY <1>1, Invariance, PTL

-----------------------------------------------------------------------------
(* Each server implements ClientSlot *)

\* The steps of ClientSlot, as server i takes them.
Takes(i)    == /\ up /\ reading[i] = {}
               /\ \E c \in Clients : reading'[i] = {c}
               /\ UNCHANGED up
Releases(i) == /\ up /\ reading[i] # {} /\ reading[i] \subseteq Gone
               /\ reading'[i] = {}
               /\ UNCHANGED <<up, Gone>>
Leaves(i)   == Gone \subseteq Gone' /\ UNCHANGED <<up, reading[i]>>
Starts(i)   == ~up /\ up' /\ UNCHANGED <<reading[i], Gone>>
Stops(i)    == ~up' /\ reading'[i] = {}

LEMMA ServeSteps ==
    ASSUME TypeOK, Places, NEW i \in Servers, NEW j \in Servers, Serve(j)
    PROVE  Takes(i) \/ Releases(i) \/ Leaves(i)
<1> USE DEF gateway, sockets, talk, bulletin
<1>1. CASE NewConnection(j)
  <2> DEFINE c == Head(waiting[j])
  <2>1. waiting[j] \in Seq(Clients) /\ waiting[j] # <<>>
    BY <1>1 DEF NewConnection, TypeOK
  <2>2. c \in Clients
    BY <2>1, ElementsOfTail
  <2>3. up
    BY <1>1 DEF NewConnection, Places, ServersRun
  <2>4. CASE Refuse(j)
    BY <1>1, <2>4 DEF Refuse, NewConnection, Leaves, Gone
  <2>5. CASE handle[j] = None /\ Accept(j, c)
    <3>1. reading[j] = {}
      BY <2>5, InterfacesAssumption DEF Places, ReadingIsHeld, TypeOK
    <3>2. CASE i = j
      BY <1>1, <2>2, <2>3, <2>5, <3>1, <3>2 DEF Accept, NewConnection, Takes, TypeOK
    <3>3. CASE i # j
      BY <1>1, <2>5, <3>3 DEF Accept, NewConnection, Leaves, Gone, TypeOK
    <3> QED
      BY <3>2, <3>3
  <2>6. CASE AcceptFails(j, c)
    <3>1. Gone \subseteq Gone'
      BY <2>6 DEF AcceptFails, Gone, TypeOK
    <3> QED
      BY <1>1, <2>6, <3>1 DEF AcceptFails, NewConnection, Leaves
  <2> QED
    BY <1>1, <2>4, <2>5, <2>6 DEF NewConnection
<1>2. CASE ReadData(j)
  BY <1>2 DEF ReadData, Leaves, Gone
<1>3. CASE ReadEnd(j)
  <2>1. PICK c \in reading[j] : place[c] = "gone" /\ reading' = [reading EXCEPT ![j] = @ \ {c}]
    BY <1>3 DEF ReadEnd
  <2>2. reading[j] = {c} /\ c \in Clients
    BY <2>1 DEF Places, ReadingIsHeld, TypeOK
  <2>3. up
    BY <2>2 DEF Places, ServersRun
  <2>4. CASE i = j
    BY <1>3, <2>1, <2>2, <2>3, <2>4 DEF ReadEnd, Releases, Gone, TypeOK
  <2>5. CASE i # j
    BY <1>3, <2>1, <2>5 DEF ReadEnd, Leaves, Gone, TypeOK
  <2> QED
    BY <2>4, <2>5
<1> QED
  BY <1>1, <1>2, <1>3 DEF Serve

LEMMA SlotSteps ==
    ASSUME TypeOK, Places, [Next]_vars, NEW i \in Servers
    PROVE  Takes(i) \/ Releases(i) \/ Leaves(i) \/ Starts(i) \/ Stops(i)
<1> USE DEF gateway, sockets, talk, bulletin
<1>1. CASE Start
  BY <1>1 DEF Start, Starts, Gone
<1>2. CASE Stop \/ Crash
  BY <1>2 DEF Stop, Crash, Down, Stops
<1>3. ASSUME NEW j \in Servers, Serve(j) PROVE Takes(i) \/ Releases(i) \/ Leaves(i)
  BY <1>3, ServeSteps
<1>4. CASE SendEvent
  BY <1>4 DEF SendEvent, Leaves, Gone
<1>5. ASSUME NEW c \in Clients, NEW j \in Servers, Connect(c, j) PROVE Leaves(i)
  <2>1. Gone \subseteq Gone'
    BY <1>5 DEF Connect, Gone, TypeOK, Servers
  <2> QED
    BY <1>5, <2>1 DEF Connect, Leaves
<1>6. ASSUME NEW c \in Clients, (\E command \in BOOLEAN : Ask(c, command)) PROVE Leaves(i)
  BY <1>6 DEF Ask, Leaves, Gone
<1>7. ASSUME NEW c \in Clients, Leave(c) PROVE Leaves(i)
  <2>1. Gone \subseteq Gone'
    BY <1>7 DEF Leave, Gone, TypeOK
  <2> QED
    BY <1>7, <2>1 DEF Leave, Leaves
<1>8. CASE UNCHANGED vars
  BY <1>8 DEF vars, Leaves, Gone
<1> QED
  BY <1>1, <1>2, <1>3, <1>4, <1>5, <1>6, <1>7, <1>8 DEF Next, Lifecycle, Client

LEMMA GoneAreClients == Gone \subseteq Clients /\ Gone' \subseteq Clients
  BY DEF Gone

\* The Unix server listens to one client at a time, until it has gone.
THEOREM IpcRefinement == Spec => IpcSlot
<1>1. Init => OfIpc!Init
  BY GoneAreClients DEF Init, OfIpc!Init, Servers
<1>2. Inv /\ [Next]_vars => [OfIpc!Next]_(OfIpc!vars)
  <2> SUFFICES ASSUME Inv, [Next]_vars PROVE [OfIpc!Next]_(OfIpc!vars)
    OBVIOUS
  <2>1. Takes("IPC") \/ Releases("IPC") \/ Leaves("IPC") \/ Starts("IPC") \/ Stops("IPC")
    BY SlotSteps DEF Inv, Servers
  <2> QED
    BY <2>1, GoneAreClients
       DEF Takes, Releases, Leaves, Starts, Stops, OfIpc!Next, OfIpc!Start, OfIpc!Take,
           OfIpc!Release, OfIpc!Leave, OfIpc!Stop, OfIpc!vars
<1> QED
  BY <1>1, <1>2, Invariance, PTL DEF Spec, IpcSlot, OfIpc!Spec

\* And so does the TCP server.
THEOREM TcpRefinement == Spec => TcpSlot
<1>1. Init => OfTcp!Init
  BY GoneAreClients DEF Init, OfTcp!Init, Servers
<1>2. Inv /\ [Next]_vars => [OfTcp!Next]_(OfTcp!vars)
  <2> SUFFICES ASSUME Inv, [Next]_vars PROVE [OfTcp!Next]_(OfTcp!vars)
    OBVIOUS
  <2>1. Takes("TCP") \/ Releases("TCP") \/ Leaves("TCP") \/ Starts("TCP") \/ Stops("TCP")
    BY SlotSteps DEF Inv, Servers
  <2> QED
    BY <2>1, GoneAreClients
       DEF Takes, Releases, Leaves, Starts, Stops, OfTcp!Next, OfTcp!Start, OfTcp!Take,
           OfTcp!Release, OfTcp!Leave, OfTcp!Stop, OfTcp!vars
<1> QED
  BY <1>1, <1>2, Invariance, PTL DEF Spec, TcpSlot, OfTcp!Spec
=============================================================================
