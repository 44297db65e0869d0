----------------------------- MODULE Interfaces ------------------------------
(***************************************************************************)
(* The interfaces of the gateway to client programs: the Unix socket       *)
(* (src/interfaces/ipc.c) and the TCP socket (tcp.c), each with one handle *)
(* for "the" client, and the dispatcher of events (interfaces.c).  Clients *)
(* come and go, ask and hang up when they like; the gateway stops in order *)
(* or is killed, and its socket file outlives it.                          *)
(*                                                                         *)
(* What libuv does is taken from how the code uses it: a connection is     *)
(* accepted from the kernel, handed to the connection callback, and kept   *)
(* by the listening handle until uv_accept takes it, without which no      *)
(* further connection is looked at.  What a command does to the network is *)
(* the matter of Touchlink, LearnDevice and GatewayInit.                   *)
(***************************************************************************)
EXTENDS Naturals, Sequences, FiniteSets

CONSTANTS
    Clients,      \* the connections made in the end, each by some program
    None,         \* no client
    MaxCommands,  \* bound: messages of all clients
    MaxEvents,    \* bound: events of a run
    Faults

FaultKinds == {"crash",         \* the gateway is killed, or comes to grief
               "port_taken",    \* another program has the port of the TCP server
               "accept_error"}  \* a connection breaks while it is accepted

ASSUME InterfacesAssumption ==
    /\ None \notin Clients
    /\ MaxCommands \in Nat
    /\ MaxEvents \in Nat
    /\ Faults \subseteq FaultKinds

Servers == {"IPC", "TCP"}

VARIABLES
    up,       \* does the gateway run?
    ended,    \* how the last run ended
    sockFile, \* does /tmp/zg_sock exist?
    server,   \* the listening handles: "off", "listening", or "stuck" with a
              \* connection nobody accepted
    waiting,  \* connections made and not accepted
    handle,   \* _client_handle
    reading,  \* the connections libuv reads
    place,    \* where a client is: "new", at a server, or "gone"
    pending,  \* the messages of a client the gateway has not read, by number
    sent,     \* messages sent
    waits,    \* history: commands not answered, of clients still there
    events,   \* events of this run
    misled,   \* history: clients whose answer went elsewhere, or that got another's
    deaf,     \* history: clients that an event reached twice or not at all
    crowded   \* history: has a client come to the server while another was there?

gateway == <<up, ended, sockFile>>
sockets == <<server, waiting, handle, reading, place>>
talk    == <<pending, sent, waits, misled>>
bulletin == <<events, deaf>>
vars    == <<gateway, sockets, talk, bulletin, crowded>>

Here(i)    == {c \in Clients : place[c] = i}
Waiting(i) == {waiting[i][k] : k \in DOMAIN waiting[i]}

-----------------------------------------------------------------------------
(* The process *)

Init ==
    /\ up = FALSE /\ ended = "orderly" /\ sockFile = FALSE
    /\ server = [i \in Servers |-> "off"]
    /\ waiting = [i \in Servers |-> <<>>]
    /\ handle = [i \in Servers |-> None]
    /\ reading = [i \in Servers |-> {}]
    /\ place = [c \in Clients |-> "new"]
    /\ pending = [c \in Clients |-> {}]
    /\ sent = 0 /\ waits = {}
    /\ events = 0
    /\ misled = {} /\ deaf = {}
    /\ crowded = [i \in Servers |-> FALSE]

\* zg_ipc_init: the Unix socket cannot be bound to a file that exists.
IpcInit == IF sockFile THEN {"off"} ELSE {"listening"}

\* zg_tcp_init
TcpInit == {"listening"} \cup IF "port_taken" \in Faults THEN {"off"} ELSE {}

\* zg_interfaces_init: an interface that cannot start is left out.
Start ==
    /\ ~up
    /\ up' = TRUE
    /\ server' \in [IPC : IpcInit, TCP : TcpInit]
    /\ sockFile' = TRUE
    /\ events' = 0
    /\ crowded' = [i \in Servers |-> FALSE]
    /\ UNCHANGED <<ended, waiting, handle, reading, place, talk, deaf>>

\* Whichever way the process ends, its sockets and its handles go.
Down ==
    /\ up' = FALSE
    /\ server' = [i \in Servers |-> "off"]
    /\ waiting' = [i \in Servers |-> <<>>]
    /\ handle' = [i \in Servers |-> None]
    /\ reading' = [i \in Servers |-> {}]
    /\ place' = [c \in Clients |-> IF place[c] = "new" THEN "new" ELSE "gone"]
    /\ pending' = [c \in Clients |-> {}] /\ waits' = {}
    /\ UNCHANGED <<sent, misled, bulletin, crowded>>

Stop_ipc_only_variant ==
    /\ up
    /\ ended' = "orderly"
    /\ sockFile' = (server["IPC"] = "off")
    /\ Down

\* SIGINT: the loop ends and the modules shut down.  zg_ipc_shutdown removes the
\* file, also when it is not the one of this run.
Stop ==
    /\ up
    /\ ended' = "orderly"
    /\ sockFile' = FALSE
    /\ Down

\* Killed: by a signal, that of a write to a client that has gone among them, or
\* by memory used after it was freed (the client handle of TCP before libuv has
\* closed it, the answers of IPC written from the stack, the object of an event
\* that is released twice).
Crash ==
    /\ up
    /\ "crash" \in Faults
    /\ ended' = "killed"
    /\ UNCHANGED sockFile
    /\ Down

-----------------------------------------------------------------------------
(* The servers *)

NewConnection_unguarded_variant(i) ==
    /\ server[i] = "listening"
    /\ waiting[i] # <<>>
    /\ LET c == Head(waiting[i])
       IN  /\ handle' = [handle EXCEPT ![i] = c]
           /\ reading' = [reading EXCEPT ![i] = @ \cup {c}]
           /\ waiting' = [waiting EXCEPT ![i] = Tail(@)]
           /\ UNCHANGED <<gateway, server, place, talk, bulletin, crowded>>

Accept_listener_variant(i, c) ==
    /\ handle' = [handle EXCEPT ![i] = i]
    /\ reading' = [reading EXCEPT ![i] = @ \cup {c}]
    /\ waiting' = [waiting EXCEPT ![i] = Tail(@)]
    /\ UNCHANGED <<server, place>>

Accept(i, c) ==
    /\ handle' = [handle EXCEPT ![i] = c]
    /\ reading' = [reading EXCEPT ![i] = @ \cup {c}]
    /\ waiting' = [waiting EXCEPT ![i] = Tail(@)]
    /\ UNCHANGED <<server, place>>

AcceptFails(i, c) ==
    /\ "accept_error" \in Faults
    /\ waiting' = [waiting EXCEPT ![i] = Tail(@)]
    /\ place' = [place EXCEPT ![c] = "gone"]
    /\ UNCHANGED <<server, handle, reading>>

\* The connection stays with the listening handle.
Refuse(i) ==
    /\ server' = [server EXCEPT ![i] = "stuck"]
    /\ UNCHANGED <<waiting, handle, reading, place>>

\* _new_connection_cb
NewConnection(i) ==
    /\ server[i] = "listening"
    /\ waiting[i] # <<>>
    /\ \/ handle[i] # None /\ Refuse(i)
       \/ handle[i] = None /\ Accept(i, Head(waiting[i]))
       \/ handle[i] = None /\ AcceptFails(i, Head(waiting[i]))
    /\ UNCHANGED <<gateway, talk, bulletin, crowded>>

\* Answers are written to the client handle, if there is one.
Answer(i, c, taken) ==
    /\ misled' = IF handle[i] = c THEN misled ELSE misled \cup ({c, handle[i]} \ {None})
    /\ waits' = IF handle[i] = c THEN waits \ taken ELSE waits

ProcessData_unknown_variant(i, c, taken) == Answer(i, c, taken) \/ UNCHANGED <<waits, misled>>

\* One text is one answer: that of the command, or an error for what cannot be
\* parsed or is not known.  Messages read together are no JSON text, and get one
\* error for all of them.  Only an object without the name of a command, read
\* alone, may get no answer; may, because the text is not terminated and the memory
\* behind it has a part in this.
ProcessData(i, c, taken) ==
    \/ Answer(i, c, taken)
    \/ \E n \in taken : taken = {n} /\ n \notin waits /\ UNCHANGED <<waits, misled>>

\* _new_data_cb with data, be it one message or several, of a client still there
\* or not.
ReadData(i) ==
    /\ \E c \in reading[i] : \E last \in pending[c] :
         LET taken == {n \in pending[c] : n <= last}
         IN  /\ pending' = [pending EXCEPT ![c] = @ \ taken]
             /\ ProcessData(i, c, taken)
    /\ UNCHANGED <<gateway, sockets, sent, bulletin, crowded>>

ReadEnd_kept_variant(i) ==
    /\ \E c \in reading[i] :
         /\ place[c] = "gone" /\ pending[c] = {}
         /\ reading' = [reading EXCEPT ![i] = @ \ {c}]
    /\ UNCHANGED <<gateway, server, waiting, handle, place, talk, bulletin, crowded>>

ReadEnd_early_variant(i) ==
    /\ \E c \in reading[i] :
         /\ pending[c] = {}
         /\ reading' = [reading EXCEPT ![i] = @ \ {c}]
         /\ handle' = IF i = "TCP" THEN [handle EXCEPT ![i] = None] ELSE handle
    /\ UNCHANGED <<gateway, server, waiting, place, talk, bulletin, crowded>>

\* _new_data_cb at the end of a connection: TCP closes its handle, IPC keeps it.
ReadEnd(i) ==
    /\ \E c \in reading[i] :
         /\ place[c] = "gone" /\ pending[c] = {}
         /\ reading' = [reading EXCEPT ![i] = @ \ {c}]
         /\ handle' = IF i = "TCP" THEN [handle EXCEPT ![i] = None] ELSE handle
    /\ UNCHANGED <<gateway, server, waiting, place, talk, bulletin, crowded>>

\* _send_event: each interface of heard writes to its handle.  These clients should
\* hear it, and do not or do twice.
Deaf(heard) == {c \in reading["IPC"] \cup reading["TCP"] : Cardinality({i \in heard : handle[i] = c}) # 1}

SendEvent_first_variant ==
    /\ up
    /\ events < MaxEvents
    /\ events' = events + 1
    /\ deaf' = deaf \cup Deaf(IF handle["IPC"] # None THEN {"IPC"} ELSE {"TCP"})
    /\ UNCHANGED <<gateway, sockets, talk, crowded>>

\* zg_interfaces_send_event: to every interface that started.
SendEvent ==
    /\ up
    /\ events < MaxEvents
    /\ events' = events + 1
    /\ deaf' = deaf \cup Deaf({i \in Servers : server[i] # "off"})
    /\ UNCHANGED <<gateway, sockets, talk, crowded>>

-----------------------------------------------------------------------------
(* The clients *)

Connect(c, i) ==
    /\ place[c] = "new"
    /\ server[i] # "off"
    /\ place' = [place EXCEPT ![c] = i]
    /\ waiting' = [waiting EXCEPT ![i] = Append(@, c)]
    /\ crowded' = [crowded EXCEPT ![i] = @ \/ Here(i) \cup Waiting(i) \cup reading[i] # {}]
    /\ UNCHANGED <<gateway, server, handle, reading, talk, bulletin>>

\* A message with a command in it, be it a known one, or without.
Ask(c, command) ==
    /\ place[c] \in Servers
    /\ sent < MaxCommands
    /\ sent' = sent + 1
    /\ pending' = [pending EXCEPT ![c] = @ \cup {sent + 1}]
    /\ waits' = IF command THEN waits \cup {sent + 1} ELSE waits
    /\ UNCHANGED <<gateway, sockets, misled, bulletin, crowded>>

Leave(c) ==
    /\ place[c] \in Servers
    /\ place' = [place EXCEPT ![c] = "gone"]
    /\ waits' = waits \ pending[c]
    /\ UNCHANGED <<gateway, server, waiting, handle, reading, pending, sent, misled, bulletin, crowded>>

Lifecycle == Start \/ Stop \/ Crash
Serve(i) == NewConnection(i) \/ ReadData(i) \/ ReadEnd(i)
Client  == \E c \in Clients : \/ \E i \in Servers : Connect(c, i)
                              \/ \E command \in BOOLEAN : Ask(c, command)
                              \/ Leave(c)
Next    == Lifecycle \/ (\E i \in Servers : Serve(i)) \/ SendEvent \/ Client

Spec == Init /\ [][Next]_vars

\* The loop does not leave a server alone that has something to do; clients and
\* signals are free.
FairSpec == Spec /\ \A i \in Servers : WF_vars(Serve(i))

-----------------------------------------------------------------------------
(* Properties *)

TypeOK ==
    /\ up \in BOOLEAN /\ ended \in {"orderly", "killed"}
    /\ sockFile \in BOOLEAN
    /\ server \in [Servers -> {"off", "listening", "stuck"}]
    /\ waiting \in [Servers -> Seq(Clients)]
    /\ handle \in [Servers -> Clients \cup {None}]
    /\ reading \in [Servers -> SUBSET Clients]
    /\ place \in [Clients -> Servers \cup {"new", "gone"}]
    /\ pending \in [Clients -> SUBSET (1..MaxCommands)]
    /\ sent \in 0..MaxCommands /\ waits \subseteq 1..sent
    /\ events \in 0..MaxEvents
    /\ misled \subseteq Clients /\ deaf \subseteq Clients
    /\ crowded \in [Servers -> BOOLEAN]

\* Every answer goes to the client that asked, and to no other, although it is
\* written to "the" client handle and not to the connection the command came on:
\* whoever comes and goes meanwhile.
AnswersGoHome == misled = {}

\* Each event reaches once every client accepted before it and not yet ended.
EventsHeard == deaf = {}

\* The Unix interface is missing in a run only if the one before was killed: a
\* file left behind is cleared away by the next end in order.
IpcComesBack == up /\ server["IPC"] = "off" => ended = "killed"

\* Both servers read from one client at a time, until it has gone.
Gone   == {c \in Clients : place[c] = "gone"}
OfIpc  == INSTANCE ClientSlot WITH running <- up, serving <- reading["IPC"], left <- Gone
OfTcp  == INSTANCE ClientSlot WITH running <- up, serving <- reading["TCP"], left <- Gone
IpcSlot == OfIpc!Spec
TcpSlot == OfTcp!Spec

\* Clients that come to the TCP interface one after the other, each when the ones
\* before have gone, are served, all of them.  That is all the code gives: one that
\* comes while another is there is not accepted (tcp.c:237-241), its connection
\* stays with the listening handle, and from then on nobody is served, alone or
\* not, until the next start.  The formula says so by crowded, which only a start
\* clears.
ServedBy(i) == \A c \in Clients :
    up /\ c \in Waiting(i) /\ ~crowded[i] ~> c \in reading[i] \/ place[c] = "gone" \/ crowded[i]
TcpServesNext == ServedBy("TCP")

\* The same of both, as their "only one connection at once" has it.
OneAtOnce == \A i \in Servers : ServedBy(i)

\* A command of a served client is read and answered, to that client, unless it
\* hangs up; several that are read together by one error (ipc.c:147-152,
\* tcp.c:188-194).
QuestionsAreAnswered ==
    \A n \in 1..MaxCommands :
       n \in waits /\ (\E i \in Servers : \E c \in reading[i] : n \in pending[c]) ~> n \notin waits
=============================================================================
