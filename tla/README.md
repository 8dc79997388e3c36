# TLA+ specifications of the adb host, and of the chat service

The repository is a collection of test programs and phone tools. Two of them are
concurrent systems, and this project specifies them: adb 1.0.29 under
`src/tools_for_phone/adb_1.0.29_linux_x86` (the host build, `-DADB_HOST=1`: the
server and the command that talks to it), and the binder chat service under
`src/tools_for_phone/ndkchat`. Paths below are relative to the first unless they
say otherwise.

## 1. The system

### Threads and processes

| who | runs | talks to |
|---|---|---|
| main loop of the server | `fdevent_loop`: sockets of clients and services, one `transport_socket` per transport, the registration socketpair | everybody |
| output thread, one per transport | `output_thread`: device -> main loop | main loop, by packets on a socketpair |
| input thread, one per transport | `input_thread`: main loop -> device; calls `close_all_sockets` on its way out | device; the main loop's sockets, under `socket_list_lock` |
| USB poll thread | `device_poll_thread`: finds, opens, kicks devices | main loop, by `register_usb_transport` |
| emulator scan, service threads | `client_socket_thread`, `service_bootstrap_func` | main loop, by registration or a socketpair |
| adb command | `adb_connect`, then one service | server, by TCP on the loopback interface; starts and kills servers |
| chat server: binder threads, worker | `ChatSession`, `ChatWorkThread` | chat clients, by binder calls in both directions |

Locks: `transport_lock`, `socket_list_lock`, `local_transports_lock`, `usb_lock`,
one `lock` per USB handle; in the chat service one advise lock and one statement
lock per session, the lock of the session map, and `workMutex`.

### Parts, and what makes them correct

| part | state | correct when | module |
|---|---|---|---|
| event loop, `fdevent.c` | `fd_table`, pending list, `fd_set`s, `select_n` | list, flags and `fd_set`s agree whatever handlers do and another thread removes; FATAL only after such a removal at the wrong moment; nobody starves; a descriptor closed elsewhere is noticed | `FdEvent` |
| transport lifecycle, `transport.c`, `adb.c` | `atransport`, registration queue, packet queues | closed and freed once, after both threads; no client left behind; no abort on a write | `Transport` |
| streams, `sockets.c`, `handle_packet` | local and remote sockets, packet queues | one packet in flight per direction; what is sent arrives in order unless the reader is gone; both ends close | `Stream` |
| local pairs, `sockets.c` | two local sockets, each the other's peer | the same, without packets | `LocalPair` |
| USB on Linux, `usb_linux.c` | `handle_list`, URBs, `dead`, `mark` | a handle is freed when nobody uses it; a kick gets both threads out; writes come back | `Usb` |
| list of devices, selection, tracking, wait-for, `transport.c`, `services.c` | the linked list, tracker list | what is connected is listed; trackers know of every usable device; a waiter returns | `Devices` |
| emulators and TCP devices, `transport_local.c`, `adb.c` | `local_transports` | a port is registered once | `Devices` |
| forwards, `adb.c` | listeners, their disconnects | a forward lives and dies with its device | `Devices` |
| commands and servers, `adb_client.c`, `adb.c`; smart sockets, `sockets.c` | versions, the port, bytes received so far | requests arrive whole; one server is left running; commands return | `Client` |
| file sync, `file_sync_client.c` | copy list, requests and replies on the stream | in step; nothing stale is skipped; success means copied | `FileSync` |
| chat service, `ndkchat` | sessions, listeners, statements, work queue | what is sent to a client was said, once; leavers are sent nothing; calls return | `ChatSession` |
| the other tools, the unit tests, vendored libraries | - | - | none, see section 7 |

Hard behaviours are listed as `hazards` in `PROJECT.json`, each at its line.

## 2. Modules

| module | models | notes |
|---|---|---|
| `Transport` | `transport.c` and the parts of `adb.c`, `sockets.c` that touch a transport's life | one action per step of a thread between two operations on shared state |
| `TransportProofs`, `DevicesProofs`, `FdEventProofs`, `StreamProofs`, `UsbProofs`, `ClientProofs`, `ChatSessionProofs`, `FileSyncProofs` | - | inductive invariants and proofs, section 6 |
| `Devices` | what the server knows of its devices, and who depends on them | composes list, emulator table, forwards, trackers and waiters over the ends of transports |
| `FdEvent` | `fdevent.c`, the `select()` build | handlers are arbitrary sequences of install, set, remove; an input thread removes fdevents at any time |
| `Pipe` | - | abstract: what a bidirectional stream promises |
| `Stream` | one stream through both ends' `sockets.c` and `handle_packet`, from the client's request on | implements `Pipe` |
| `LocalPair` | a client and a host service as each other's peers | implements `Pipe`, without packets |
| `Usb` | `usb_linux.c`, and the threads' use of it | two locks, URBs, the reader as reaper of both |
| `Client` | several adb commands against servers they start and kill | the smart socket is the server's part |
| `FileSync` | one sync connection: `push`, `install`, `sync`, `sync -l`, `pull`, `ls` | the device's service is external |
| `ChatSession` | `ChatSession.cpp`, its proxies and the client's calls | one binder thread per call |
| `MC*` | - | instances for TLC |

How they divide the code: `Transport` follows a client from choosing a device to
being closed and leaves out its data; `Stream` follows the data and takes a lost
transport as one event (`LinkLost`). `Devices` takes from `Transport` what the
rest of the server sees of a transport's threads: the SYNC(0,0) of the output
thread, `close_all_sockets` of the input thread, one kick and one unref of each.
`Usb` takes a transport as its two threads, and leaves out packets. `Client` ends
where a service is opened; `FileSync` begins there.

### Correspondence

Variables carry the names of the fields they stand for (`ref_count`, `kicked`,
`connection_state`, `fd_table`, `list_pending`, `urb_in`, `mark`, `dead`, `next`,
`prev`, `local_transports`, `m_Listeners`, `m_statements`). A Boolean field of a
struct is the set of the structs that have it set. Program counters (`out`, `inp`,
`pc`, `poll`, `at`, `stage`) appear only where another thread or process can run in
between. A handler of the main loop is one action. A packet is a record of its
command and the one argument that is looked at; payload is counted, or a number,
where order matters.

- `Transport.fatal` records that `send_packet` called `fatal_errno`, which
  `NoWriteAbort` shows never to happen. A device sends CNXN, OKAY, CLSE, WRTE, and
  OPEN, for which the host has a service or not. It never sends SYNC: it runs the same
  `input_thread`, which does not write SYNC packets to the link (transport.c:325).
  Sending (`Receives`) is the device's choice and not fair. `alloc = "freed"` is memory filled with 0xee, as the
  code does: its connection state is then not `CS_OFFLINE`, and its socket is not a
  descriptor. `LocalPair.fault` records a use after free; a behaviour ends there.
- `Devices.next` and `prev` are the links of `transport_list`, and a removal writes
  through the links the struct still has. What a loop over the list comes to (`Walk`)
  is a set: the order of the entries decides nothing but the order of the lines sent
  to a client, and which of two devices of one serial number is first (`First`).
  A list that is sent has every line, or any `Room` or more of them: where
  `list_transports` runs out of its 4 KB depends on the lengths of the serial numbers.
  A request names a serial number or a type (`Requests`). Choosing a slot of the
  emulator table and testing the port is one step, as both are done under
  `local_transports_lock`. `dis[n]` is the transport whose list of
  disconnects the listener `n` is on, apart from `fwd[n]`, the transport it forwards
  to: `install_listener` changes both when it binds a forward again. `wait[w]` is a
  transport while the service thread is between `acquire_one_transport`'s loop and its
  test of the state, which is made without the lock.
- `Stream` begins with the client's request in its smart socket: `smart_socket_enqueue`
  sends OPEN, and closes the socket at once, without CLSE, when the client's end of file
  was read with the request; `smart_socket_offline` refuses it. `Credits` is the set of the places the permission to send has in one
  direction: the reading fdevent, a WRTE on its way, a packet that waits to be
  written, an OKAY on its way back.
- `FdEvent.close_all_sockets` is the input thread's removal of an fdevent, or the end of
  its reading, between any two steps of the loop; calls of `fdevent.c` themselves are one
  step each. `raced` records a removal of what the loop was working on, `stray` that a
  registered descriptor was closed elsewhere. An fdevent is taken off the pending list where it is, once (`Without`); what select()
  found is added in the order of the descriptors (`Ascending`).
- `Client.at` is the part of `adb_connect` a command is in, `stage` the step of
  `_adb_connect`. A request is two units, its length and its name, that a delivery
  may separate. `srv[s] = "dying"` is a server between its answer to host:kill and
  its exit, which still has the port, and `victim[c]` the server a command has asked to
  exit. A server says "OK" to its command by the pipe (`inform_parent`) after it has
  taken the port. `opening` are the commands whose service the device has not answered:
  `adb_status` waits for `device_answers`, without a limit. `launch_fails` is a failed
  pipe, fork or exec.
- `FileSync.dst` holds the copies (the device's for a push, the local ones for a pull): contents as
  a sequence of chunks, and a time that is the source's or an earlier one. `flag` is
  the `flag` of `copyinfo`. `Again` gives the command a second time. A directory is a
  set of names; the order in which it is read, by readdir at either end, is any
  (`Orders`). `Parent` is the tree below the directory that is copied. `Cap` is the
  number of messages the connection holds in each direction; writing waits for room.
- `ChatSession`: `work` is changed by the worker without `workMutex`; when a binder
  thread changes it at the same moment, `Defer` takes one of the outcomes such a race
  has (the item lost, the head left in its place with or without the item behind it, the
  end of the process), and `raced` records it. `Damaged` is the end of the process at any
  later time. `sent` are the oneway calls made to a client. When they arrive is up to
  binder and outside the model: one that was sent may arrive after its client has left.

## 3. Runs

| run | instance | shows |
|---|---|---|
| `transport` | one TCP and one USB transport, one client, two packets from the one and one from the other | `ClosedAfterThreads`, `RemovedOnce`, `NobodyLeftBehind`, `NoWriteAbort` |
| `transport_live` | one TCP transport, one client, four packets | the inductive invariant `IInv` of the proofs; a transport whose link is down is freed; a waiting client is released |
| `fdevent` | two fdevents, two descriptors, read and write | list, flags, `fd_set`s in step; no FATAL unless a descriptor is closed elsewhere or an input thread removes what the loop is working on; an fdevent that stays ready is served again and again; the EBADF path tells the handler of a closed one |
| `stream` | one payload unit to the device, three back | credit protocol, `Pipe`; data keeps flowing, both ends close but for two named exceptions |
| `local_pair` | three bytes each way | `Pipe`; data keeps flowing, both are freed |
| `usb` | one device, opened up to three times, each time read-write or read-only | `FreedIsUnused`; writes return, kicks end threads |
| `devices` | two structs of any kind, one forward, one connection, one tracker whose list may hold one line only, one waiter | list, table, forwards, connections and trackers agree with what is connected; the waiter returns |
| `client` | two commands of two versions, a server of either, or of none, already running; one crash | `RequestIntact`, `ServerAtTheEnd`, `SameVersionKeepsServer`; both commands return, unless a device stays silent |
| `filesync` | a tree of three files, all eight commands, two runs, one message on the way in each direction | `InStep`, `SkippedIsCurrent`, `SuccessIsCopied`; every command ends, but for a sync whose pipelined requests clog the connection |
| `chat` | two clients, one of which may die, one session name, one statement each | `SentIsRecorded`, `GoneIsSentNothing`; calls return, what is said is sent to the listeners |

Two runs show that the code does something a comment of its own denies:

| run | comment | what happens |
|---|---|---|
| `usb_deadlock` | transport.c:246 "to ensure shutdown" | with a read-write and a read-only device, `usb_lock` and `transport_lock` are taken in both orders |
| `devices_lost` | adb.c:1203 "return a list of all connected devices" | a transport that host:disconnect took off the list is unlinked a second time by its removal, and takes along a device that was added in between |

More disagreements were met while modelling. The models follow the code in them,
and no run is kept for them:

- transport.c:250 "will not actually be closed until both threads exit":
  host:disconnect drops a reference it does not own. `Transport.Spec` leaves the
  request out; `Devices` has it (`SpecDisconnect`).
- transport.c:351 "to avoid a race condition": the call removes fdevents between
  the main loop's `select()` and its scan, where a missing one is FATAL
  (fdevent.c:413). `FdEvent` has the call; `NeverFatal` says that this moment, and the
  ones between dequeue and call and within the handler, are the only bad ones.
- fdevent.c:642 "we don't signal an event that is no longer wanted": the mask is
  inverted.
- sockets.c:355 "error return means they closed us": `enqueue` closes its caller
  and returns 1 (sockets.c:157), which is not tested for.
- transport.c:587 "The close closes the other half": `t->fd` of a TCP transport is
  closed by `remote_close` (transport_local.c:356) and again by the removal.
- transport.c:491 "call this function each time the transport list has changed":
  going offline and `unregister_transport` do not call it. `TrackersTold` states what
  trackers can still rely on.
- sockets.c:570 "to avoid closing them without a status message":
  `close_all_sockets` closes waiting clients without one.
- usb_linux.c:544 "remove from the list when we're finally closed": the handle of a
  read-only device that leaves is never closed.
- usb_linux.c:318 "time out after five seconds": ETIMEDOUT is positive, the test is
  `res < 0`.

## 4. Bounds, and why they are enough

- `Transport`: one transport shows every interleaving of its two threads and the
  main loop; the second one is there for the shared registration queue and for the
  difference between TCP and USB. `MaxRecv` bounds the packets a device sends: one
  brings it online and lets a client wait for it, two let a packet or a second CNXN be in
  front of SYNC(0,0), four let the device, besides, open, answer and close the client's stream or connect
  a second time in between. Clients do not interact but through the transport; the proofs
  have any number of them. A transport struct is used once; registering the
  device again allocates a new one.
- `FdEvent`: two fdevents on two descriptors give a list that is empty, has one
  entry or two, removal at the head and at the tail, and a `select_n` that must
  grow and shrink. Nothing bounds the number of handler calls.
- `Stream`, `LocalPair`: quotas of up to three payload units with packets of at
  most two give partial writes, backlog and an end of file behind a backlog.
- `Usb`: handles interact only through the poll thread's walk and the two locks,
  so one device shows everything about one handle; two are needed for the lock
  order. `MaxOpens` = 3 lets a device that was kicked be opened again, in either
  mode. A device that was unplugged comes back under a new name.

- `Devices`: two structs, each of which may become a USB device (read-only or not),
  the emulator of the one port or the TCP device of the one address, give two
  neighbours in the list, two candidates for a slot and a port, and an ambiguous
  request; one forward is bound, bound again and removed. `Room` = 1 makes a list of
  two devices one that may not fit. A struct is used once.
- `Client`: two commands race to start, to kill and to replace; with the server that
  may already run there are three servers, of two versions or of none. `Size` = 2 lets
  a delivery end inside a request. `MaxCrash` = 1. The proofs lift all of these.
- `FileSync`: files of two, one and no chunks in two directories. With `Cap` = 1 a sync
  of all three files has more requests than the connection holds and is stuck
  (`Clogged`), while one that cannot read the subdirectory ends. `MaxRuns` = 2 lets
  a command meet what an earlier one left.
- `ChatSession`: two clients, one of them mortal, suffice for speaker and listener,
  joining, leaving and the worker in between; two objects let a session be deleted and
  made again. `MaxSay` = 1 for each.

Deadlock checking is off where the system may stop: every device gone and every
client closed, all quotas used up, or all commands ended.

## 5. Fairness

- The main loop serves every descriptor that is ready: `select()` reports all of
  them and `fdevent_loop` empties its pending list before it calls `select()`
  again. Hence weak fairness of `handle_packet`, of the registration function and of
  the socket events. `FdEvent`'s `NoStarvation` is that claim, from weak fairness of
  the loop as a whole, as long as every watched descriptor is open.
- Threads run: weak fairness of each thread. In `Usb`, strong fairness of taking a
  mutex, as a mutex that is free again and again is obtained in the end.
- Of devices and clients nothing is assumed in `Transport`, `FdEvent`, `Devices` and
  `Client`. In `Usb` the device takes what it is sent: without it
  `usb_bulk_write` waits for ever, as its time-out is not recognised. `FileSync` and
  `ChatSession` need an answer of the other side, below.
- `Devices`: the registration function, the SYNC(0,0) of a transport, its input
  thread's end and a waiter's polling are weakly fair; that devices appear, get online
  or leave is not assumed, and `WaiterReturns` asks for a device that stays.
- `Client`: commands and servers run, and a server serves every connection. The
  pause of two seconds after host:kill is modelled as long enough for the server to
  exit (`Exited`); `ServerAtTheEnd` fails without it, and this is the one place where
  the model trusts a time in the code. A command that found no server makes no pause
  and waits for nobody. Devices need never answer, so `Returns` excepts a command whose
  service is opening for ever.
- `FileSync`: the client runs, and so does the service of the device: a command waits
  without a limit for its answer. Nothing is assumed about the connection, which may be
  lost, or the files.
- `ChatSession`: the worker runs; taking the advise lock is strongly fair, as in
  `Usb`. A live client answers the service's question for its name (`GetUserName`, which
  the service waits for with the advise lock held); a client that hangs there blocks its
  session, and `CallsReturn` does not speak of it.

## 6. Proofs

Every theorem holds for `Spec`, the specification without fairness, and for every
value of the constants that satisfies the assumption of its module. The assumptions
say that names that stand for nothing (`None`, `NoTransport`, the list head) are not
members of the sets they are kept apart from, that bounds are numbers, and for
`FdEvent` that descriptors are numbers up to 32000, above which `fdevent_register`
ends the process. `FileSync`'s are that the source is a finite tree with files as
leaves (`SourceTree`), that the commands are the eight modelled ones
(`KnownCommands`), and that the connection holds a message (`CapAssumption`). Each proof has the same shape: an inductive invariant `IInv`, the
start, one lemma or case per action, and the properties as consequences. Leaves that
name no prover are Zenon's (`USE Zenon` at the top of a module); the ones with
arithmetic or sequences cite `SMT`.

| theorem | property | says, for any instance |
|---|---|---|
| `TransportProofs` | `ClosedAfterThreads`, `RemovedOnce`, `NobodyLeftBehind`, `NoWriteAbort` (and `TypeOK`, `KickedOnce`) | the life of transports and their clients |
| `DevicesProofs.ListIsRight` | `ConnectedIsListed` | no link of the list is lost |
| `DevicesProofs.PortsAreUnique` | `OnePerPort` | one emulator per port |
| `DevicesProofs.ForwardsAreOnline` | `ForwardIsOnline` | forwards follow their device |
| `DevicesProofs.ClosedStaysEmpty` | `NothingLeftOpen` | nothing is bound after `close_all_sockets` |
| `DevicesProofs.TrackersAreTold` | `TrackersTold` | trackers know of every usable device the list had room for, and are shown no freed one |
| `FdEventProofs.PendingAreListed` | `PendingIsListed` | flag and pending list agree |
| `FdEventProofs.SelectWatchesWhatIsWanted` | `WatchesWhatIsWanted` | `fd_set`s and `select_n` agree with the fdevents |
| `FdEventProofs.LoopNeverDies` | `NeverFatal` | FATAL only after a stray close, or a removal by a thread at one of the three bad moments |
| `StreamProofs.CreditIsKept` | `OneCredit` | one packet in flight per direction, and none forgotten |
| `StreamProofs.Simulation` | `ImplementsPipe` | a stream implements `Pipe` |
| `UsbProofs.FreedHandlesAreUnused` | `FreedIsUnused` | no handle is freed in use |
| `ClientProofs` | `RequestIntact`, `ServerAtTheEnd`, `SameVersionKeepsServer` (and `TypeOK`, `StatusIsOurs`) | commands and servers |
| `FileSyncProofs.RepliesInStep` | `InStep` | requests and replies stay in step |
| `FileSyncProofs.SkippedFilesAreCurrent` | `SkippedIsCurrent` | nothing stale is skipped |
| `FileSyncProofs.SuccessMeansCopied` | `SuccessIsCopied` | success means copied |
| `ChatSessionProofs.SentIsOnRecord` | `SentIsRecorded` | what is sent is on the record, once unless raced |
| `ChatSessionProofs.LeaversAreSentNothing` | `GoneIsSentNothing` | an action property: no event is sent after the removal in Unadvise |

### Transport

`Spec` is the server without host:disconnect requests. None of the properties is
inductive. `IInv` adds what they rest on:

- `Life`: `ref_count` counts exactly the threads that have not dropped their
  reference, and `closes` is 1 exactly when both have; a socketpair is open from
  the start of the threads to the free. Without it an unref could be the last one
  twice.
- `Posted`: messages in the registration socketpair are distinct, a removal is
  only there for a closed transport, and every message refers to memory that is
  still allocated.
- `Kick`: a thread that calls `t->kick` is the one that set `kicked`.
- `Queue`: SYNC(0,0) is the last packet the output thread writes, so once the main
  loop has passed it on, or the input thread has left its loop, the queue is empty,
  the transport is offline, and nothing can bring it online again. This is what
  makes `NobodyLeftBehind` and `NoWriteAbort` true, and it fails if SYNC(0,0) is
  handled without `handle_offline` (a mutant).
- `Client`: a client is connected only to a transport that is online, and has chosen,
  or waits on, only one whose input thread will still run `close_all_sockets`. This
  rests on `acquire_one_transport` refusing a transport that is offline
  (transport.c:800): without the refusal a client could choose one whose sockets have
  been closed already, and be left behind.

TLC checks this invariant in `transport_live`.

### Devices

- `Core`: a transport's references are its running threads; registration messages are
  distinct, an addition is for a posted transport, a removal for one without
  references; a transport whose SYNC(0,0) has reached the input thread is offline; an
  emulator in the table has both threads still to run, which is why it is kicked
  before it is freed.
- `List`: on the list and its head `next` and `prev` are each other's inverse. Then a
  removal takes out one entry and an addition puts in one (`UnlinkOne`,
  `LinkOne`), where "on the list" is being in every set that has the head and is
  closed under `next`; this is what the loops over the list come to, stated without
  recursion. host:disconnect breaks `List`, which the run `devices_lost` shows, so
  the theorems are about `Spec`, not `SpecDisconnect`.
- `Bonds`: the listener is on the disconnect list of the very device it forwards to
  (`dis = fwd`), so that it goes when the device goes.
- `Told`: the trackers' lists, with the properties themselves.

### FdEvent

`PendingIsListed`, `WatchesWhatIsWanted` and `NeverFatal` become inductive together with
`TableIsActive` (an entry of `fd_table` is an fdevent with that descriptor),
`ActiveIsOpen`, and `FoundIsRegistered` (what is given to select(), and what it found, is
still registered when it is scanned). The last two, and with them
`NeverFatal`, only hold as long as no descriptor is closed behind the loop's back, and
`FoundIsRegistered` as long as no input thread takes away what the loop is working on.
`PendingIsListed` holds in any case.

### Stream

- `Single` and `Live`: the permission to send of a direction is in at most one of four
  places, and in one of them while the stream is open at both ends.
- `Bytes`: what has been written is what has arrived, followed by what is in the one
  packet on its way or waiting, followed by what has not been read; an end that may
  read has nothing on its way.
- `Start`, `Sockets`: what the states of the two sockets exclude. A channel holds at
  most one packet of each command and CLSE is the last (`Fine`); otherwise a WRTE could
  come after its socket was closed.
- `Reasons`: a socket that is closing, or about to be closed by a CLSE on its way, has
  one of `Pipe`'s reasons; when the reason is the other end's end of file, the data is
  in front of the CLSE.

The refinement maps `done` to the ends in state "closed". Steps of the applications
and the loss of the transport are the same steps of `Pipe`. Every socket event and
packet is a `Serve` step or a stutter: it delivers the next bytes to one end
(`DeliversServes`, from `Bytes`), closes an end for a reason (`ClosingServes`, from
`Reasons`), or changes nothing that `Pipe` has.

### Usb

`FreedIsUnused` is not inductive: that a thread is the last to use a handle rests on the
reference count, and that the poll thread does not walk over it on `usb_lock`. The
invariant has `Counted` (the count is the number of threads that hold a reference, and
the one that closes is alone), `Unused` (the property itself) and the fact that the poll
thread has `usb_lock` just while it walks.

### Client

For every set of commands and versions and any number of crashes.

- `Wire`: where a command is tells which request is its own; a connection is empty
  before the request is written and after the answer has come, and holds the
  request in between. So the bytes dropped after host:transport are none.
- `Owned`: one server at most has the port, and a command that may still start its
  server has not done so.
- `Replaced`: while nobody has the port some command still owes a server, and
  whoever has a server killed starts one after it. This carries `ServerAtTheEnd`, and
  needs `Exited`: otherwise the new server could find the port taken by the old one.
- `Agreed`: commands of the server's version are told that version, and none of
  them gets to killing.

### FileSync

For every tree, every content of its files, every order of its directories, every
`Cap` and any number of commands. That a sync may be clogged does not touch safety.

- `Wire`: what is on the connection, by the step the client is in. Between two
  requests nothing (`Quiet`); while a list is asked for, replies and requests in the
  order of the list, and every reply is what the destination holds (`Asking`); during
  a send, a piece of the file between what the device has stored and what the client
  has left, or a failure and data to be skipped (`Sending`); during a receive, what
  was written locally, then what is on its way, then what the device has left
  (`Receiving`); during a listing, entries and at most one DONE behind them
  (`Listing`). `InStep` follows by counting final replies in each (`OneOwed`).
- `Types` and `Control`: a copy that has the source's time is a prefix of the
  source's file, so one that also has its size is that file. This carries
  `SkippedIsCurrent`: a copy that was cut short has the new time, but not the size.
- `Discovery`: whatever is not yet found by a pull of a directory is below something
  that is listed, on its way or being listed, and nothing pending is below another
  pending directory. So every file is found, and found once. "Below" is being in every
  set that has the directory's entries and is closed under taking entries, so no
  recursion over the tree is needed.
- `Progress` and `Success`: a file of the copy is on the list or copied, and a file the
  device refused is no longer on it.

TLC checked `IInv` on the instance of the run `filesync` before it was proved.

### ChatSession

- `Seated`: a listener of a session chats in that session and has not passed the
  removal in Unadvise. `GoneIsSentNothing` follows: the Fire_ methods send to listeners.
- `Locked`: the advise lock of a session is held by the thread that asks a sink of the
  session for its name, and only that thread gives it back.
- `Recorded`: a statement that is about to be deferred, queued, in the worker's hands
  or sent is on the record of its session.
- `Once`: unless the queue was changed by two threads at once, a statement is in one
  place: posted or being said, queued, in the worker's hands, or sent; and it is in
  the queue, and among the calls to each client, once.

### Only model-checked

- Liveness, everywhere.
- `LocalPair` and its refinement of `Pipe`.
- `Usb` and `Transport` where the runs check liveness; `usb_deadlock` and
  `devices_lost`, which are violations.

`TypeOK` of a module is a conjunct of one of its invariants where no run names it
(`PendingIsListed`, `OneCredit`, `OnePerPort`, `InStep`, `SentIsRecorded`).

## 7. Not modelled

- Third-party code kept in the tree: Google Test under `src/gtests` and the protocol
  buffers library under `src/tools_for_phone/gluetiosclient`. By lines it is most of
  the repository; it has its own upstream, and nothing of it takes part in the
  protocols above.
- Single-threaded tools without state (input events, sensors, wifi, frame buffer,
  rtc, uevent, lsof), the binder examples, the echo server on an external event
  loop, and the unit tests of language features.
- In adb: the parsing of the command line and of serial numbers, the I/O of
  commands after their status, modes and symbolic links of copied files, console
  and logging; the epoll build of `fdevent.c`, the growth of `fd_table`, the other
  platforms' USB code; sockets that are full between a transport's threads and the
  main loop; packet memory.
- Taken from the other side without a check: the text of a FAIL of the sync service is
  at most 256 bytes, the size of the client's buffer (of a longer one `sync_recv` leaves
  the rest in the stream). The child of a failed exec is not followed. The branch
  of `usb_read` for ETIMEDOUT (usb_linux.c:465) is never taken: no call in its thread
  sets `errno` to it.
- In the chat service: the delivery of oneway calls after they are sent, the
  marshalling of the proxies, the queries, the kinds of
  deferred work nobody queues.
- Contents: banners, names of services, USB descriptors, error texts.

Known limits that no property speaks of: `connect_device`
does not see registrations that are still queued (adb.c:1085); a read-only device
that leaves before its registration is handled stays listed (transport.c:976); a chat
client that died stays a listener (ChatSession.cpp:224, `Dies` follows the code); the
service of a command may be served by another server than the one whose version was
checked (adb_client.c:267); two statements can be sent in another order than they
are recorded (ChatSession.cpp:338). The components with status `not_modelled` or
`partly` in `PROJECT.json` give the reason for each part.
