# zigbridge in TLA+

zigbridge is a Zigbee gateway in C: one libuv loop (`src/src/main.c`) between a
radio dongle on a serial line (a Texas Instruments ZNP), the devices of a Zigbee
network behind it, and clients on sockets and standard input.  This directory
models its core logic in TLA+, checks it with TLC and proves part of it with
TLAPS.  Paths below are relative to `src/src/`.

Everything runs in the callbacks of the loop, each to its end, so **an action of
a model is one callback** with all it calls.  What interleaves is the loop with
the dongle, with the remote devices, with timers, with clients, and with the end
of the process.

## Inventory

| Component | State it keeps | Operations | Talks to |
|---|---|---|---|
| Serial link, `rpc/rpc.c` | file descriptor, table of subsystem callbacks | `zg_rpc_write` (write, then flush the output), `zg_rpc_read` (one frame, checksum, dispatch; flush on error) | MT layers |
| MT SYS, AF, ZDO, UTIL, `mt/*.c` | in each, **one** `sync_action_cb`; registered listeners | one function per request (set the slot, write); one handler per SRSP (call the slot) and per AREQ (call the listener; `SYS_RESET_IND` and state 9 call the slot) | RPC below, everybody above |
| APS, `aps.c` | **one** `_current_cb`; table of endpoints | `zg_aps_send_data`, `zg_aps_register_endpoint`, dispatch of incoming messages | MT AF, profiles |
| ZLL touchlink, `profiles/zll.c` | state machine, two timers, `_scan_count` | start, callbacks of each request, scan response, timeouts | APS, MT SYS, interfaces |
| ZHA, ZDP, `profiles/*.c` | initialization list, listeners | commands, reports, queries | APS, MT ZDO, core |
| Learning of devices, `core.c` | `_new_device_sm`, `_current_learning_device_addr` | announcement, active endpoints, simple descriptor | ZDP, database |
| Device database, `devices/device.c` | `_device_list` and its file | add, update, search, save, load, remove | core, interfaces |
| Initialization, `core.c`, `utils/action_list.c` | position in three nested lists, `_initialized` | `zg_core_init`, `_general_init_cb` | MT layers, profiles, keys |
| Network key, `keys.c` | key in memory and in its file | load, generate, store, remove | MT SYS, core |
| State machine engine, `utils/sm.c` | current state | start, send event, destroy | touchlink, learning |
| Interfaces, `interfaces/{interfaces,ipc,tcp}.c` | two listening sockets, in each **one** `_client_handle`; the file of the Unix socket | new connection, data, end of a connection, event to all, init, shutdown | core, ZLL, ZHA, database |
| Standard input, `interfaces/stdin.c` | none | one command per line | core |
| Configuration, logs, `conf.c`, `logs.c` | ini dictionary | getters | all |

### What is hard about it

* **One slot for every user.**  An SRSP names a command, not a request; the layer
  calls whoever registered last.  Slots of MT are never emptied.
* **An unexpected event is not ignored**: `zg_sm_send_event` re-runs the entry
  function of the state the machine is in (`utils/sm.c:100`), so a stray frame
  makes the gateway write, scan or start a timer again.
* **Answers do not say whose they are**: a simple descriptor is stored under the
  device being learnt *now*.
* **No request is repeated and none times out**, except for the scans; yet `write`
  is followed by `tcflush(TCOFLUSH)`, which can discard the frame.
* **Short addresses**, which devices change and reuse, are the keys of lookups.
* **Crashes**: two files, the device list and the key, say what a dongle with a
  memory of its own is supposed to hold; a third, the Unix socket, outlives the
  process that made it.
* **One handle per server**, to which answers and events are written, whoever
  asked; a connection that is refused is not taken off the listening handle.
* **The serial line is polled, and so non-blocking**: the handler of one frame reads
  on while the bytes arrive, and adds the -1 of an empty read to what it has read.

What makes each component correct: the touchlink must order its NV writes and
its inter-PAN frames, end, and give the security back; the learning must end, and
end with what the device really has; the database must give an identifier to one
device for ever; the initialization must run its steps one by one on a dongle that
has done the previous one, and start the network on a configured dongle only; the
servers must listen to one client at a time, answer each command, to who asked, and
serve the next client; the reader of the serial line must pass on the frames that were sent, and
be in step again by itself after what was not.
`PROJECT.json` lists each hazard at its line, with the properties that cover it.

## Modules

| Module | What it models |
|---|---|
| `StateMachine` | `utils/sm.c`: the lookup in a transition table |
| `Touchlink` | `profiles/zll.c` with the slots of APS and MT SYS and the serial link below |
| `SecurityWindow` | abstract: security is off only within a session, which closes what it opened |
| `TouchlinkProofs` | theorems about `Touchlink`: what holds whatever the link loses, the order of its requests, the `SecurityWindow` |
| `DeviceStore` | `devices/device.c`: the database as a value, its searches and updates |
| `LearnDevice` | the learning machine of `core.c` with the ZDP/ZDO callbacks that drive it, the database, its file, the devices and the air |
| `Registry` | abstract: an identifier is one device's, for ever |
| `DeviceStoreProofs` | theorems about the database as a value: what its searches find, what its folds compute |
| `LearnDeviceProofs` | theorems about `LearnDevice` that hold under every fault: types, the database, its file, identifiers |
| `LearnTruthProofs` | theorems about what it tells clients, while no device moves |
| `GatewayInit` | the action lists of `core.c` and the profiles, the four MT slots, the key file, the dongle's two memories |
| `GatewayInitProofs` | theorems about `GatewayInit`: types, the lists in step with the dongle, what their end means, and that only a configured dongle is started |
| `Interfaces` | `interfaces/{interfaces,ipc,tcp}.c`: servers, connections, the client handle, events, the socket file |
| `ClientSlot` | abstract: a server listens to one client until it has gone |
| `InterfacesProofs` | theorems about `Interfaces` |
| `Rpc` | the reader of `rpc/rpc.c`, byte by byte, and the line in front of it |
| `FrameChannel` | abstract: frames in order, once, but for damage, until the line is quiet |
| `RpcProofs` | theorems about `Rpc`: types, the check byte, that the line is a `FrameChannel` |
| `SequenceLemmas` | induction, concatenation and `FlattenSeq`, for the other proofs |
| `MCTouchlink`, `MCLearnDevice`, `MCGatewayInit`, `MCInterfaces`, `MCRpc` | instances for TLC |

The modules are not composed into one: each takes what the others promise.
`Touchlink` and `GatewayInit` take from `Rpc` that the line is a queue of frames, of
which a write may be lost; `Interfaces` takes commands for opaque; `LearnDevice`
begins where the lists of `GatewayInit` have ended.

Definitions named `..._variant` are slips a programmer could make (a dropped
guard, a missing reset, a swapped order).  Nothing uses them; each shows, put in the
place of the definition it varies, that a property can fail.

Variables called *history* below have no counterpart in the code: they record what
has happened (a loss, an answer that went astray), so that an invariant can speak of
it, and no guard of the gateway reads them.

### Touchlink

`sm`, `scanCount`, `scanTimer`, `identifyTimer` are the statics of `zll.c`;
`sysCb` and `apsCb` the slots of `mt_sys.c:77` and of `aps.c`; `toZnp` and `fromZnp`
the two directions of the serial line; `secured` is NV item 0x64.  `Enter` is an
entry function: it writes the request of the state and takes the slot it answers
to.  `ReadSysFrame`, `ReadAfSrsp`, `ReadScanResponse` read a frame,
`ScanTimeout`, `IdentifyTimeout` are the timers, `SendOther` is any other user of
APS.  `harmed` is history: a request was lost or the dongle failed.  `answering` and `identified` belong to the environment: scan responses still
to come, and whether the dongle has broadcast an identify since security went off.

### LearnDevice and DeviceStore

`sm`, `learning`, `db` are the statics of `core.c` and `device.c`; `file` is what
the file at `device_list_path` would be read as; `air` is a bag, so messages
arrive in any order.  `SaveThenEnter` is the part all callbacks share: store, save
in place, enter the next state (and with it query the device).  A save can be
cut short (`torn_save`), after which the file does not parse.  A database is a
sequence and a search takes the first match, because with stale addresses two
devices can match.  The dongle's acknowledgements of the queries play no part:
the queries ask for no callback.  `owed` is history: the devices that announced
themselves to a gateway able to learn them (`Learnable`), with no mishap since;
liveness is about these.  The searches that serve clients (`ShortAddrOf`,
`ZhaEndpoint`, `IdOf`) are what the properties of commands and events are about.

### GatewayInit

`pos` is the position in the three lists (`zdp`'s is through within the callback
that starts it, so the core skips it), `slot` the four `sync_action_cb`.  A frame
is named after the request it completes.  `Call` is `_general_init_cb` of the list
whose callback is called: next step of that list, or the callback of the core when
the list is through (also when it was through long ago, which is what the code does
with the list it has freed).  `nv` is the memory of the dongle that outlives its
restarts, `znp` the one that does not (its endpoints, and whether it is started); the
request to subscribe changes neither, as it is no request (see *Known gaps*).  `key` is
the key in memory and `keyFile` the one in its file, which may fail to be stored.  `Serve`
is the dongle: it carries a request out, or refuses it (fault `refused`), and answers
either way; as the code looks at no status, the lists take both for the end of their
step.  Two variables are history: `refused`, what the dongle has refused and not been
asked again with success, and `disturbed`, what interfered with the lists (a request or
the key was lost, the network was opened early, the dongle restarted by itself);
properties that need an undisturbed run say so, and what is started or ready is so
*but for* `refused`.  The NV memory of a dongle that restarted on its own during the lists may
miss a setting for good, so that mark stays until the next long list.

### Interfaces

`handle` is `_client_handle` of each server, `reading` the connections libuv reads,
`waiting` those it has not handed over; `server` is the listening handle.  Of libuv
the model has what the code shows and what its interface says: a connection the
callback does not accept stays with the listening handle, which then looks at no
further one (`"stuck"`), and data of a client that has gone are read before its end.
`Down` is what the kernel does when the process ends: sockets go, the file stays.
`ReadData` leaves open how many of the messages that have arrived it takes.  One read is
one text and gets one answer; several messages read together are no JSON text and get
an error; only a message without a command's name, read alone, may get none.  What
the code does to memory (requests and texts on the stack, a handle freed at once
after `uv_close`, an object released twice) has the outcome `Crash`.  `waits`, `misled`, `deaf` and `crowded`
are history: the commands not answered yet, clients whose answer went elsewhere, clients
an event reached twice or never, and whether a client came while another was there.

### Rpc

`got` is the frame being read, as far as it has come: `bytes_read` is the length of
its data.  `ReadStart`, `ReadHeader`, `ReadData`, `ReadCheck` are the reads of
`_read_znp_data` in turn; they are actions and not one, because bytes arrive between
them.  `Purge` is `znp_read_err` with the `tcflush` that discards what has arrived.
`Stumble` is the read of data that finds none: its -1 takes one byte back.  `Hang` is a
loop without end: the one that logs a frame with a counter of 8 bits, and
(`ReadNothing`) the one that reads data on a line that was hung up, where a read
returns 0.  A byte is the set of its bits,
which makes the check byte, an exclusive or, a difference of sets.  `owed` and
`inStep` are history: what a reader in step has before it, and whether it is in step;
it is when it waits for a frame on an empty line.

## Runs

| Run | Question | Instance |
|---|---|---|
| `touchlink` | do timers, APS slot and scan budget belong to the state under every fault, and does what reaches the dongle keep the order the procedure needs as long as nothing is lost? | 3 scans, 2 answers, 4 frames on the link, other traffic, all faults |
| `touchlink_alone` | is it a `SecurityWindow`, does it end and give the security back? | 5 scans, 2 answers, no faults, no other traffic |
| `touchlink_overwritten` | **violation**: the callback of `zg_aps_send_data` need not come | other traffic |
| `learn_one_by_one` | with an installer who waits, is every announced device learnt, is the database true, and do events and commands name the right device, under loss, duplication, repeated announcements and kills? | 3 devices (one without endpoints), database of 2 |
| `learn_any` | with devices joining at any time and every fault, is the database well formed, does the file follow, is every profile shown one some device told of an endpoint of that number, do identifiers stay? | 2 devices, 2 addresses, 3 announcements |
| `learn_moved` | **violation**: a device that comes back under a new address is not reached by commands any more | 2 devices, 2 addresses |
| `init` | do the lists run in step and to the end, and is the network only started on a dongle configured but for what it refused, whatever interferes? | 2 starts, 2 frames on the link, 1 refusal, all faults but a kill in the middle |
| `init_interrupted` | **violation**: killed in its first start, the gateway later starts an unconfigured dongle | kills |
| `clients` | do answers and events reach whom they should, is every command of a served client answered, is each server a `ClientSlot`, are the clients of TCP that come one after the other served, does the Unix interface come back? | 3 connections, 2 commands, 1 event per run, all faults |
| `clients_refused` | **violation**: the Unix server never serves a second client | 2 connections, no faults |
| `frames` | is the line a `FrameChannel`, does every frame arrive that should, does the handler return? | bytes of 2 bits, 2 frames of 3 kinds, 1 damage, pieces, hang-ups, restarts |
| `frames_torn` | **violation**: a frame in pieces is dispatched as one never sent | bytes of 3 bits, one frame, no damage |

**Bounds.**  `MaxScans` is 5 in the code and a parameter here; 3 already have a
rescan, a last scan and an answer that comes after it.  `MaxLink` limits only what
nobody asked for: 4 frames let a stray frame stand before, between and after a
request and its answer.  Two devices are what it takes to mistake one for the other;
the third makes a database of two overflow.  `MaxJoins` counts announcements: 3 of
them are both devices and one that returns.  Two starts of the gateway are a first
one and one on what it left; `MaxRefused` 1 lets the dongle refuse each of its requests
in turn, at each place of the lists.  It restarts by itself once within the lists, which
are out of step from then on, and any number of times after them (`DongleReset`).  Three connections are a client, one that comes while
it is there, and the next; two commands of one client can arrive together, or a command
with a message that names none.  A byte of
2 bits still has a start byte, lengths from 0 to 3 and data equal to any of them, and
the exclusive or knows no other bits; `MaxCount` 7 stands for the 127 of the
counter, and one of the three kinds of frames is longer.  Two frames are what it
takes for the damage of one to reach another.

**Deadlock** is not checked where the model really may stop: no announcement, client
or frame is left to come, or the gateway is down and will not start again.

**Fairness.**  `FairSpec` of each module asks that a live dongle processes what it
has received, that devices answer a query they have received, that bytes sent arrive,
and that the loop reads its input, serves each listening socket and runs its timers,
as libuv does with a ready descriptor and a due timer.  Nobody has to start a
touchlink, join, answer a scan, connect, send a command, hang up (the line included) or
restart the program.  All of it is weak fairness; `LoopReads` is `WF_vars(Callback)` with the
enabling condition written out.

**What the model of time assumes.**  A timer takes 250 ms or 3 s, an answer of the
dongle milliseconds: without the fault `late_answer` a timer finds the link quiet.
With it, `SecurityWindow` is *not* implemented (a session can be reported finished
before the dongle has processed the last write, because an earlier answer was taken
for its answer), while the ordering properties still hold: the line is a queue.

**NV failures and losses.**  `_osal_nv_write_srsp_cb` logs an error status and goes
on, and a write that was lost is not repeated.  In `GatewayInit` the lists then go on
to the start of the network, which `StartsConfigured` and `InitializedMeansReady` say by
`refused`: what they promise is that nothing *else* is missing.  In `Touchlink`, after either, the order of what the
dongle is asked says nothing about what it has done, so `InterPanInTheClear`,
`SecuredAfterwards` and `IdentifiedBeforeReset` promise something up to the first such
event only (`~harmed`); late answers, stray frames and other commands they allow.

**What clients may and may not count on.**  `CommandsReachTheirDevice` allows endpoint 255
for a device that has no endpoint to switch or is not learnt to the end, and for no
other: the code sends such a command all the same.  `TcpServesNext` is about clients that
come one after the other: after a connection that was refused the server is stuck, and
the property says nothing (`crowded` stays until the next start).
`QuestionsAreAnswered` counts the error that answers several commands read together.
`FileFollows` has both cases of `PathHasSlash`: with a slash there is never anything to
load.  `DescriptorsTruthful` needs devices to join one at a time, which the code does not
enforce; `DescriptorsWhole` is what is left without it.

## Proofs

`TouchlinkProofs` proves, for every number of scans, of answers and of frames, and
for every set of faults: `TypeCorrectness`, `TimersCorrectness`,
`ApsSlotCorrectness` and `ScanBudgetCorrectness`.  The only assumption is
`TouchlinkAssumption` (the parameters are numbers of their kind), which TLC
evaluates in each run.

None of these invariants is inductive alone.  The scan budget depends on the slot:
the counter moves when the callback `scan_sent` runs, so one must know that this
callback is in the slot only in `SEND_SCAN`; the timers depend on the type of `sm`
and on the table.  `IInv` is their conjunction with `TypeOK`.  The proof first shows
what the table gives for each state and event (`StateAfter` on a concrete table is
a `CHOOSE`, so each triple is a fact of its own), then that `Enter` preserves
`IInv` from any state whose timers the caller has left right, then goes through the
actions, most of which are `Enter` with a particular target.

`DeviceStoreProofs` is about the operators of `DeviceStore` alone.  Each search is a
`CHOOSE` of the least index, and two operators are folds over a sequence, so both need
induction.  The library's induction theorems take the induction predicate as an operator
parameter and cannot be used here; instead `Smallest` of `SequenceLemmas` (a set of numbers
that is not empty has a least member, from `WFMin` and `NatLessThanWellFounded`) gives
`Induction` with a *set* in the predicate's place.  From these, `FirstOf` says what a search finds,
`FoldExists` and `FoldResults` that a fold is what its steps make of it, `FoldListed`
that `UpdateEndpoints` keeps every endpoint and lists none twice, and `FoldFresh` that a
device without endpoints gets exactly those it names.  `ReloadedDevices` says what a
save and a load leave of a list: every device with its endpoints, numbers and profiles,
and no device identifier, however often.

`LearnDeviceProofs` proves, for every set of devices, addresses and descriptors, every
size of the database, every path and **every** set of faults, `TypeCorrectness`,
`DbWellFormedCorrectness`, `FileFollowsCorrectness`, `LearningIsStoredCorrectness`, and that
`LearnDevice` implements `Registry` (`Refinement`, the property `IdentifiersStay`); and, with a
file that is neither torn nor removed nor named by a path that `dirname` cuts, that it
implements the `Registry` that forgets nothing (`Durability`).  The inductive invariant
`Inv` has four parts.  `Kept`: the list **and** the file have their identifiers in order
from 0, no extended address twice, no endpoint twice (`Keyed`); both have the same owners,
unless the file may be lost and is; a reload of the file is what clients are shown.  Order
is what makes the next identifier free: `_get_next_free_id` takes the least one nobody
has.  `Learns`: what the machine learns is stored, which a reload has to keep, so it is in
one invariant with `Kept`.  `AirTyped` and `Around`: only devices announce themselves, and
answers list what some device has.  Every action is then one of three with a lemma of its
own (it installs a list, it changes none, it starts on the file), and `EveryStep` puts
them together.

`LearnTruthProofs` proves what the run `learn_one_by_one` asks, in three layers, each with
the hypotheses it needs and no more.

* `Addressed`, if no device changes its address (`StayPut`): the list and the file have
  every device at the address it has, where no two devices share one; hence
  `EventsNameTheirDeviceCorrectness`.  Run `learn_moved` shows the violation without it.
* `Truth`, if moreover one device is learnt at a time (`InTurn`): all that is under way
  is about the device being learnt (`Focus`), so nothing of another is stored under it,
  and whatever profile the list has is the device's own; hence
  `DescriptorsTruthfulCorrectness` and `CommandsReachTheirDeviceCorrectness`, where
  endpoint 255 is shown to be used only for a device without an endpoint to switch or
  not learnt to the end.  The hypothesis is about the installer and not about the code:
  without it a late descriptor of another device is stored under the one being
  learnt (`core.c:287`).
* `Complete`, if moreover no file is lost (`Careful`) and no device lists an endpoint twice
  (`DistinctEndpoints`): a device has all of its endpoints in the list or none of them, and all of
  them once one is asked about; hence `FinishMeansLearntCorrectness`.  A
  stop between two callbacks is where this could break: the file must then have what the
  list had, which is the second conjunct of `Complete`.

`DescriptorsWholeCorrectness` has no hypothesis: whoever joins when and whatever is
lost, torn or reset, a profile in the list was told, whole, by some device about an endpoint
of that number.  Its invariant, `Told`, shares the lemmas of `Truth`, with "the device" in
the one and "some device" in the other (`Sources`).

Losses, duplicates, repeated announcements and kills are allowed in all three layers.  The three
invariants were checked by TLC on the instance of `learn_one_by_one` before they were
proved.  A step is not examined action by action in each layer: `StepStructure` says once
what any step does to the list, to the machine and to the air, and the layers use that.

On top of `IInv` it proves `InterPanCorrectness`, `SecuredCorrectness` and
`IdentifiedCorrectness`.  They are about the head of the queue of
requests; what makes them inductive is to say of **every** request in the queue what
the dongle will have done when it comes to it: `Since(q, k, base, on, off)`, has "on"
been done since the last "off" once the requests before place k are processed.
`Queued` says so of the inter-pan frames and resets in the queue, `Promised` what the
state of the machine owes to the request it writes next.  Two lemmas move a queue:
`SinceAppend` when the gateway writes, `SinceTail` when the dongle has processed the
head.  Every event of the gateway then enters a state the table allows (`Follows`).

`WindowRefinement` proves that `Touchlink` implements `SecurityWindow`
(`WindowSpec`) if writes may be lost and nothing else happens: neither a failing NV write, nor a
restart of the dongle, nor an answer later than a timer.  Other users of APS may send at any time.
Without the third it is false, as *What the model of time assumes* has it.  The
invariant `Shut` says why the session's last "enable" is really the last word: when the
machine comes to `FACTORY_RESET` the identify timer has outlasted every request and
answer, so no "disable" is left on the link, and neither is an answer to one
that could be taken for the answer to "enable".  The window then closes before the machine does.

`GatewayInitProofs` proves, for any number of starts, any bound of the link and any
faults, `TypeCorrectness` and `LockStepCorrectness`, from `GatewayInitAssumption`.
`LockStep` says which request is on the line but not where the lists are, and so not
what comes next; `Placed` adds it, and `Lock` is their conjunction with the types,
required like `LockStep` only while nothing has interfered.  Two lemmas carry the step
that matters: what a list sends on a quiet link is what it then waits for
(`SendInStep`), and the callback of the list whose turn it is goes one step further
(`CallInStep`, with the nested lists, and the one of ZDP that is skipped).
The second half adds `Achieved`: what the dongle needs and the lists have gone
past is done, or was refused, and still is.  A restart the core asks for keeps it true because nothing
needed comes before one in either list (`ResetsFirst`); at the end of a list all of it
is behind (`ListsComplete`), hence `ReadyCorrectness`.

`StartsConfiguredCorrectness` holds also when requests or the key were lost and the network
was opened early (not after the dongle restarted by itself, see `disturbed`), where
`Lock` says nothing any more.  It rests on an invariant of its
own, `Configuring`, of the long list only.  While its first nine steps run (`Settling`), all
of which go to MT SYS, the command that opens the network is the only other frame
there can be: of the frames of the list each direction of the link has at most one
(`Sole`), and not both, so an answer that comes is the answer to the step the list
waits in, and what that step sets is set, or was refused (`Done`).  After them (`Settled`) nothing clears the
memory again.  A loss only makes the list stop.  A refusal does not make it stop: the theorem is
that nothing is missing but what was refused (see *Known gaps*).  The hypothesis is that the gateway is not
killed in the middle (`"crash" \notin Faults`); the run `init_interrupted` shows what
happens otherwise.

`InterfacesProofs` proves, for every set of clients and of faults and any number of
commands and events, `TypeCorrectness`, `AnswersCorrectness`, `EventsCorrectness`,
`FileCorrectness`, and that both servers implement `ClientSlot` (`IpcRefinement`,
`TcpRefinement`), from `InterfacesAssumption` alone.  An answer goes to the handle
and not to the connection, so the invariant says that whatever is read *is* the
handle (`ReadingIsHeld`); an event goes to both, so that no client is at both
(`OnePlace`, for which a new client must be nowhere, `NewBelongsNowhere`); and a server
that is off reads nobody (`ServersRun`).  `FileTells` is what `IpcComesBack` lacks: a
socket file without a process is one a kill has left.

`RpcProofs` proves, for bytes of any width, every set of frames, every bound and **every**
set of faults, `TypeCorrectness`, that `Rpc` implements `FrameChannel` (`ChannelRefinement`),
and `OrderCorrectness`: in step, frames leave the line in the order they were sent and one
is lost only behind a damaged one.  Of the constants it takes
`RpcAssumption`: a byte stands for a natural number, and the length of each frame sent is
the number of some byte.  Three things had to be shown.

* *The check byte.*  It is a fold of exclusive ors over the data, and a fold is a `CHOOSE`;
  `FoldExists` and the lemmas behind it make it the sum it should be.  `FlipShows`: of two
  frames that differ in one bit, at most one is sound, which is what lets `Damaged` be
  dropped.  `WordDispatched`: a frame that was sent is sound, and decodes to itself.
* *Bytes and frames.*  What is read, arrived and on the line are three sequences of bytes, cut
  at other places than the frames.  `InStepInv`: in step they are, end to end, the words of the
  frames of `owed`.  `CutTwice` and its lemmas compare two ways of cutting the same bytes:
  hence `FirstWord` (the next byte of the reader is the next byte of the first word) and
  `CompleteIsWord` (when the reader thinks its frame complete, it is that word).
* *The steps.*  Each read, each fault and each send then is a step of the channel or none,
  one lemma per action; a read that would break the frame is shown to leave the step,
  never silently to keep it.

`OnlySentCorrectness` is the other side of the run `frames_torn`: if every frame comes
whole and undamaged (`Faults \subseteq {"restart"}`), only frames that were sent are
dispatched, and only a start of the gateway puts the reader out of step, over any
number of frames and starts.  Its invariant, `Wholes`, holds of a reader out of step too.

What stays with TLC: liveness, and anything that needs `ENABLED` (`FramesArrive`,
`HandlerReturns` and the other `<>` properties of the runs).

## Known gaps in the program

Beyond the findings that a run shows:

* A device that joins while another is being learnt is dismissed with "Visible
  device is already learnt" (`core.c:266`) and is not in the database.
* A known device that comes back under another address keeps its old one:
  `zg_add_device` can update it, but its only caller asks for unknown devices.
* Late answers of one device can end the learning of the next; a learning restarted
  at the wrong moment asks for endpoint 0; the answer, an error, is dropped
  (`mt_zdo.c:333`) and the learning never ends.  Neither does that of a device without
  application endpoints.  Hence `OneAtATime` and `Learnable`.
* A restart loads the device identifier of every endpoint as 0 (`device.c:258`), which
  is why `FileFollows` compares what a reload would give.
* A `device_list_path` with a slash, as that of the sample configuration, is cut by
  `dirname` in place (`device.c:471`): nothing is stored.  `PathHasSlash` says which case it is;
  the runs have the plain path, the theorems both (`FileFollows` then says that there is
  never a file to load).
* The network opened during the initialization empties the slot the lists wait in,
  and they never end; or its answer is taken for the start of the network.
  `InitCompletes` and `LockStep` speak of undisturbed runs for that reason.
* A touchlink asked for by an IPC client is not refused during the initialization and
  takes the slot of MT SYS the lists wait in (`ipc.c:120`).
* A restart of the dongle after the initialization is not noticed (`mt_sys.c:139`).
* The status of a write to the NV memory is logged and the list goes on
  (`mt_sys.c:124-132`), and so it is with the registration of an endpoint.  The network is then
  started on a dongle that misses a key, a PAN id or a channel, where `mt_zdo.h:26`
  asks for a configured one: the reason for `refused` in `StartsConfigured`.
* The request to subscribe (`mt_util.c:138-160`) is never filled in: three zero bytes of type
  SRSP are sent, and nothing is subscribed.  In `GatewayInit` the step changes nothing in the
  dongle, and `InitializedMeansReady` does not count it.
* A command for a known device without an endpoint to switch is sent to endpoint 255
  (`device.c:640-655`, `zha.c:260-274`) and answered as done.
* A TCP client that comes while another is there is not accepted, and the listening
  handle then waits for somebody to accept it: no later client is served until the next start
  (`tcp.c:237-241`).
* Commands read together are one text, which is no JSON: they get one error between
  them and none is carried out (`ipc.c:147-152`, `tcp.c:188-194`).
* When the serial line is hung up while data of a frame are read, reads return 0 and
  the loop never ends (`rpc.c:160-172`).
* A descriptor does not say whose it is when it is stored: a late one of another device goes under the
  one being learnt (`core.c:287`).
* A frame that arrives whole behind a bad one is discarded with it (`rpc.c:204`), and a
  frame of more than 127 bytes hangs the gateway in the loop that logs it
  (`rpc.c:183`); `FrameChannel` allows the first, `FramesArrive` excepts the second.
* A command for an identifier nobody has goes to address 0xFFFD
  (`interfaces.c:126`) and is answered `{"on_off":0}` like any other, where
  `doc/interfaces.md:45-48` has 1 for a device that is unknown.
* TCP answers an error to the commands that open the network, start a touchlink and
  list the devices; IPC does to the On/Off command.
* A write to a client that has gone raises SIGPIPE, which nobody handles; memory
  is used after the callback that owned it has returned (`ipc.c:48`, `tcp.c:24`,
  `interfaces.c:260`); the loader of the device list releases references it only
  borrowed (`device.c:307`).  All of these are `Crash`.
* `zg_core_shutdown` calls `zg_mt_init` where it means the shutdown (`core.c:526`); the
  process ends right after.
* At the end of standard input the loop calls the callback for ever (`stdin.c:49`).

## Not modelled, and why

Decoding and formatting of messages, JSON, logs and the ini parser: data conversions
no property here is about.  Which commands each server knows and the texts of its
answers: tables to read, not behaviour.  Standard input, which keeps no state.
Command line options and the order of the shutdown.  Memory management, but for its
outcome.  The firmware (the dongle is modelled from what the gateway asks of it and
marked external) and the client scripts.

`GatewayInit` composed with `Touchlink` on the slots they share was built and given up:
already with one request at a time on the link it has more than five million states,
and no property of the lists survives a touchlink in their midst.

## Plan

Done, in this order because a touchlink left half way disables the security of the
network: `Touchlink` with its proofs; `DeviceStore` and `LearnDevice` with theirs;
`GatewayInit`; `Interfaces` with its proofs; `Rpc`; the proofs about the order of the
touchlink's requests and about the lists of `GatewayInit`; the proofs about the rest of
`LearnDevice`, about `StartsConfigured` and about `SecurityWindow`; the proofs of `Rpc`.

1. Proofs: every safety property of a passing run has its theorem; liveness has none and can
   have none here.  What is left is to weaken hypotheses: `WindowRefinement` with a
   failing NV write, `FinishMeansLearnt` for a device that lists an endpoint twice.
2. Models: the dispatch of incoming messages to endpoints (`aps.c`, `mt_af.c`), if a
   property about it is found that is more than its table.
