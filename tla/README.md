# Models of the mesh network driver

TLA+ models of `Drv::MultiTcpServer`, the byte stream driver that joins F Prime
deployments into a mesh, of the swarm header that travels over it, of the way of
a packet through the deployments, and of the mesh of nodes that crash and come
back. The
models are translated from `src/mesh_network-drivers/MultiTcpServer` and
`src/DepA`; the F Prime framework (ports, `Drv/Ip`, `Svc`) is not part of the
repository and is modelled from how this code uses it.

    tlc -config ServerPoolSafety.cfg MCServerPool.tla      # one run
    tlapm ServerPoolProofs.tla                             # one module of proofs

`PROJECT.json` lists, in a form tools can read, the components, the runs, the
lines each definition models, the faults that break each property, the hazards
and the theorems.

## 1. The system

Every node is one process with a server half, which accepts connections of
other nodes and reads from them, and a client half, which connects to the nodes
of a host file and writes to them. Data crosses a connection in one direction
only, from client to server.

| Component | State it keeps | Operations | What makes it correct |
|---|---|---|---|
| Accept task (`MTSTask.cpp`, `AcceptClientTask`) | `taskCount`, `task_pool[].isStarted()`, `m_stop`, on its stack `params` and `join_status` | `acceptTask`, `startAcceptTask`, `stopAcceptTask`, `joinAcceptTask` | a thread for each client; threads reaped once; ends when told to |
| Read tasks (same file) | `index`, copied from `params` | `readTask` | reads its own client; ends with it; closes nothing else |
| Server pool (`MultiTcpServerManager`) | `sockets[]`, `current_client_connections`, the listening descriptor | `open`, `close`, `closeAll`, `shutdown`, `startup` | the count never passes the pool; no socket is opened twice; none stays open |
| Server socket (`MultiTcpServerSocket`) | `m_fd`, `m_open`, `clientDeviceID` | `open`, `recvClientID`, `sendSrvrID`, `close` | the stored ID belongs to the connection that is open |
| Socket open task (`SocketOpenTask`) | `m_stop`, position in the host file | `openTask`, `stop…`, `join…` | every host is served; a host is connected once |
| Client pool and sockets (`TcpClientManager`, `MultiTcpClientSocket`) | `m_fd`, `m_open`, `m_hostname`, `m_port`, `serverDeviceID` | `checkIfAlreadyConnected`, `getFreeSocketIndex`, `getSocketHandlerByID`, `setHost`, `sendClientID`, `recvSrvrID`, `compareHost`, `close`, `closeAll` | as above, and the ID names the host |
| Send port (`send_handler`) | none of its own | scan of the header, connection mask, unicast, broadcast | the packet goes to its destination, the status says what happened, the buffer is given back once |
| Connection mask (`adj_M`) | one byte per node, read again from `adjacency_matrix_mask.txt` at each check | `init…`, `update…`, `check_adjacency_matrix` | a forbidden node gets nothing |
| `SwarmFramer`, `SwarmDeframer` | `node_sourceId`, `node_destId` | `frame`, `SET_DESTID`, `setSourceId`, `framedIn` | what one writes the other reads back |
| Component life cycle (`MultiTcpServerComponentImpl`, `DepA/Top`) | `fp`, `DeviceID`, buffer pools | `configure`, `startup`, `setHostFile`, `shutdown`, teardown | nothing used before it is set up or after it is torn down |
| Topology (`DepA/Top/topology.fpp`): hub, framers, deframers, allocators | the guards of hub and deframer, one buffer for each port of `staticMemory`, pools of `dynamicMemory` and `swarmFramerBufferManager`, the deframer's unparsed bytes | a packet down from a producer to `commP.send`, and up from `recv` to a receiver | no buffer lost or used twice; nobody waits for ever; a frame that arrives is delivered |
| `sGPS`, `SimpleProducer`, `SimpleReceiver` | none that matters (`destinationID` is written and never read) | one or two handlers each | they are the ends of the way of a packet |

How they interact. Up to thirteen threads share the driver: the accept task, up
to ten read tasks, the open task, and whichever thread calls `commP.send`
(guarded, so one at a time) — and the thread that tears the process down
(`instances.fpp:396`: `shutdown`, `stopAcceptTask`, `stopSocketOpenTask`, then the
two joins). Both `IpSocket` halves protect the descriptor of one socket by a lock
of that socket; nothing protects the counters, the stored IDs, the choice of a
free slot, the started flags or the parameters handed to a new thread.

What is hard in it: threads that choose a socket by its index and use it after
another thread has closed and reopened it; an unlocked counter that admits
clients; `closeAll` racing with an `accept` or `connect` that completes after it;
handshakes that block on the remote side while somebody waits for the thread;
the many ways out of `send_handler`; and a header that is found by scanning
bytes the application chose. Between the components: a guard held while `send`
blocks, buffers that several threads take from one pool, and bytes of several
connections in one deframer. Between the nodes: processes that crash, restart or
lose a connection in the middle of a handshake. The list, with the line where each bites, is
`hazards` in `PROJECT.json`.

## 2. Modules

| Module | Models | Composed with |
|---|---|---|
| `ServerPool` | accept task, read tasks, server pool and sockets, the stopping thread, the clients | — |
| `ClientPool` | open task, client pool and sockets, `send_handler` from the mask on, the stopping thread, the servers | — |
| `SwarmPacket` | `SwarmFramer`, the scan and the mask of `send_handler`, `SwarmDeframer`, `SET_DESTID`, the mask file | hands its destination to `ClientPool` |
| `ConnectionPool` | what a pool promises, abstractly: a set of connections, each opened, identified, forgotten and closed in one step | implemented by `ServerPool` and `ClientPool` |
| `Traffic` | the topology between the producers of one node and the receivers of another: guards, buffers, blocking, parts of frames | what `SwarmPacket` puts into a packet and `ClientPool` decides about it are choices here |
| `Mesh` | both halves of all nodes, at the granularity of a handshake, with crashes, restarts and lost connections | composes `ServerPool` and `ClientPool` over connections |
| `Handshake` | what the two halves promise of one client and one server, abstractly: connect, send the ID, answer, take the answer, and the ways to lose either end | implemented by `Mesh` for every pair of nodes |
| `MC…` | instances of each for TLC; `MCMeshBroadcast` is the mesh with an application that only broadcasts | |
| `…Proofs` | theorems of each for TLAPS | |
| `ServerPoolRefinement`, `ClientPoolRefinement` | the proofs that the pools implement `ConnectionPool` | |
| `MeshRefinement` | the proof that the mesh implements `Handshake` for every pair of nodes | |

**Steps.** In `ServerPool` and `ClientPool` each thread has a program counter
(`accPc`, `rdPc[t]`, `openPc`, `sPc`, `mainPc`) and an action is what the code does
between two accesses to state another thread may touch. A lock makes one step:
`m_fd`/`m_open` of a socket is one variable (`sock[s]`, `link[s]`). An unlocked
`++` or `--` is a load and a store (`AcceptIncLoad`, `AcceptIncStore`,
`ReaderCloseLoad`, …). `close()` of a socket and the reset of its ID are two steps.
The scans for a free or matching socket (`FirstClosed`, `FirstFree`, `ByID`) are
one step although the code asks one socket after another: nobody but the task
that scans opens sockets, so a slower scan could only miss a slot that closed
behind it, which is the answer of a scan that ran earlier.

**The outside.** `PeerConnect`, `PeerClose` and `PeerDrop` are the other nodes and
the kernel: `listen(fd, 1)` queues at most two completed connections. A `recv`
that blocks is a state of its own (`"blocked"`, `"recvID"`) that ends with data, with
the peer's close, or when somebody shuts the descriptor down.

**Names instead of data.** A connection is named by the client that made it, and
that name is the ID it presents. A host stands for its address, its port and the
device behind them. `Prefix[h]` is what `compareHost` compares of a host's address
(the code's `sizeof` is that of a pointer, so eight characters). A line of the host
file is a host or `BadLine`; reading the file after `shutdown` has closed it
(`getHostFileEntry` with a stale `fp`) gives any line or none. A packet in `ClientPool`
is its destination; in `SwarmPacket` it is bytes, for there the bytes are the
point.

**Undefined behaviour** is every outcome: `params` read by a thread after
`acceptTask` has gone on is the index of any later client, `status` of a broadcast
to no one is any status (`sStatus = "uninit"` can be taken for success), the
answer of `adj_M` outside its bounds is yes or no. `FD_SET` of a negative
descriptor (`MultiTcpServerManager.cpp:119`, in the accept thread after `shutdown` has set
`m_base_fd` to -1) is taken as a `select` that saw nobody.

**Correspondence in `SwarmPacket`.** `Framed` is what `frame` puts into its buffer:
the tag `ID` and four bytes for the source, the same for the destination, the
payload. `Prefix`/`Trailer` are what hub and `Svc::Framer` add on the way to
`commP.send`. `ScanStops` is the value of `index` after the loop, `SecondTag` the
byte at which it breaks, `HeaderRefused` the test at
`MultiTcpServerComponentImpl.cpp:91` with its `&&`. `MaskRead` is
`update_adjacency_matrix` for a missing, empty, short or long file; the `fscanf` at
the end of a file returns EOF, which the code takes for a valid read, so the
last line read counts. Handlers are guarded, so each is one action;
`SET_DESTID` and edits of the file come between any two.

**Refinement.** `ServerPool` maps `open` to the connections behind open descriptors
(`OpenFds`), `known` to those whose stored ID is their own outside a handshake
(`KnownConns`), and `done` to the end of `acceptTask`; `ClientPool` takes
the hosts of its open sockets. So publishing a descriptor is `Open`, the end of a
handshake is `Identify`, each of the many places that release a descriptor is
`Close`, the late reset of an ID is `Forget` or nothing, and every other step
nothing. `Open` asks for a free place and for a connection that is not open yet: the
scans, the unlocked count and the races of the two modules must not be able to
break that.

`Mesh` maps, for a client `n` and a server `m`, `client` to `link[n][m]`, `server` to
`"served"` when `n` is in `served[m]`, `"pending"` when the end is in the backlog or in the
accept task's hand, and `answer` to an ID that `m` sent and `n` has not read (`answered`).
`Link(n, m)` is that instance. `RefinesHandshake` is `Link(n, m)!Spec` for every pair, written
out as the initial states and one box over all pairs, which is how TLC takes it.
`Handshake` leaves out why a step happens when it does: the line of the host file, the
backlog and the one client an accept task serves at a time are all in `Mesh` only.

**Correspondence in `Traffic`.** A frame is two halves, which is what it takes to be
sent or received in parts. A producing thread holds the hub's guard from
`LocksHub` to `Returns`, through all of `commP.send`: `Destinations` are the
sockets that `send_handler` goes through (any, for a broadcast), `SendsPart` and
`TimesOut` are `IpSocket::send` with its send timeout. `downlinkP` and `commP.send`
have guards too, but no caller except the hub, so they are free when it calls.
A read thread goes from `getBuffer` (`GetsBuffer`, `GetsNone`) through `recv`
(`Receives`) and the guard of `uplinkP` (`LocksUplink`) into `uplinkP`'s parser; for
each frame it takes the hub's guard again (`Delivers`), which is where the
circle closes. The buffer goes back at the end (`Parsed`). `conn[l]` is a connection that may
break at any moment (`Breaks`, for the links in `Fragile`) at the cost of any tail of what
was under way: a send is then taken and lost (`SendVanishes`) or fails (`SendFails`), a
blocked or later `recv` fails (`RecvFails`), a read thread that comes round finds its socket
closed (`FindsClosed`). The buffer of a `recv` that failed, or that a signal interrupted
(`RecvInterrupted`), goes up at full size with an error status (`MTSTask.cpp:214`, `219`), and the
deframer gives back unparsed what does not come with the status of success (`ReturnsUnused`).
`Reconnects` makes the connection again when both ends have let go of it. In the code a
client may be back before the read thread of its former connection has ended, in another
socket and with another thread; two links model that. `Svc::Hub`,
`Svc::Framer`, `Svc::Deframer`, `BufferManager` and `StaticMemory` are outside the
repository; their part is what the topology needs of them.

**Correspondence in `Mesh`.** `link[n][m]` is the socket of `n` for host `m`, from
`connect()` (`"new"`) over the sent ID (`"wait"`) to the received one (`"open"`). Its
other end is in `queue[m]`, in the hand of the accept task (`acc[m]`) or in a socket past
the handshake (`served[m]`); of those, `unread[m]` are the ones without a read thread. When
the client's side is gone that end stays, as a `"named"` or `"silent"` one by whether its ID
had been sent, as a `zombie` whose read thread still has to notice, or as an `orphan`: an
open socket that nobody will ever close, because no thread reads it or no FIN or RST told the
one that does. IDs that were sent but not read outlive their sender
(`answered`). `Crash` removes a process with all its ends, `Restart` starts it, with a
listening socket or, when `bind` fails, without (`"deaf"`, for `startTasks` ignores
what `startup` returns). `Breaks` is a connection the network lost, or one that
`ServerPool` shows closed by the wrong read thread; of an established one the server may
never be told. `UnicastCloses` and `Broadcasts` are the two ways in which `send_handler`
meets a dead peer. The races inside a node are steps of the two pool modules; here they
are choices with the outcomes those modules reach, `RACES` of them at most: a client that
is answered but gets no read thread (`AcceptLeavesUnread`: no free task at
`MTSTask.cpp:126-141`, or the `params` of line 182), a `++` that is lost (`Add`), a `--` that is
lost, takes a `++` with it or is applied to a zero (`Subtract`). So the count of a mesh node
need not be that of its sockets. The gate `taskCount == MAX_TASKS` (`MTSTask.cpp:99`) is not
in `AcceptTakes`: there are more tasks (16) than sockets (10), so all tasks are taken only while
ended threads wait to be joined, which the same loop does at its next pass; what its stale
`join_status` can do is `AcceptLeavesUnread`.

Definitions whose name ends in a suffix, as `FirstClosed_Untested`, are faults of the
kind this code could have. No specification uses them. Each stands in for the
definition its name starts with, to see that a property notices.

## 3. Runs

All runs finish; those marked V show a statement of the repository's documents
or comments violated.

| Run | Instance | Question |
|---|---|---|
| `ServerPoolSafety` | 2 clients, 2 sockets, 2 tasks, handshake | opened sockets were closed, the count stays within the pool, started flags match threads, IDs are never an earlier client's, nothing stays open, `ConnectionPool` is implemented |
| `ServerPoolThreads` | 1 client, 1 socket, 3 tasks, handshake, fairness | the joins return, the readers end, both after a bounded number of steps; `TypeOK` |
| `ClientPoolSafety` | 2 hosts in the file and a third named by garbage, 2 sockets, unicast and broadcast | one socket per host, IDs match, buffer freed once, nothing stays open, `ConnectionPool` is implemented |
| `ClientPoolService` | 2 hosts, one of them reliable, 2 sockets, fairness | a reliable host is connected; the join returns; `TypeOK` |
| `SwarmPacketSafety` | 2 nodes, 4 destinations, 8 payloads, 3 prefixes, mask files of 0 to 2 lines | the destination is found, the scan stays in the buffer, the mask obeyed, the payload returned |
| `TrafficSafety` | 2 nodes, one connected to by both, 3 producing threads, 1 receive buffer, half a frame of room in a connection, one connection that may break and come back, fairness | buffers are used once and not lost, whatever `recv` answers; parts of packets stay in order; the guard of the hub is released |
| `MeshReconnects` | 2 nodes, each connected to both, 3 sockets, 1 fault, 1 race, fairness, unicast traffic | the ends agree on where a connection is, nobody waits for a partner that is not at work, handshakes end, connections come back, `Handshake` is implemented |
| `BadEveryClientIsRead` V | 2 sockets, 3 tasks | sdd.md: a thread reads from every client |
| `BadClosesOnlyDeadClients` V | 2 sockets, 2 tasks | sdd.md: a connection is closed when its client closed it |
| `BadRoutedToDestination` V | 2 hosts | sdd.md: the socket connected to the destination |
| `BadWholeFramesReceived` V | as `TrafficSafety` with connections that do not break and hold a whole frame | MultiNode.md: the nodes receive the packet |
| `BadReopensForBroadcasts` V | as `MeshReconnects` without a race, broadcast traffic | the header: a socket need not be reopened manually |

**Bounds.** Two sockets are the least for which a thread can act on the wrong one;
with two tasks one thread can be reaped while another runs and the reaping loop's
stale `join_status` can hit a free one. Connections are recycled: a client that closed may
connect again under its name once nothing in the server refers to its previous
connection, so a behaviour has any number of connections, and two names already
let an old and a new connection coexist.
`COUNT_FLOOR` bounds `nConnected` from below (an unlocked decrement can be applied
twice): at 0, no client arrives while the count is negative, which loses only
behaviours that repeat the same loss. The client half needs no such
bound: all its variables have finite ranges. `BadLine` occurs only in the violation
runs; `ClientPoolSafety` has a third host instead, which reaches
`OpenNoFreeSocket` when a stale file read names it while both sockets are taken.
In `SwarmPacketSafety` the payloads hold whole tags, halves of tags at either
end and a complete header, one prefix ends in half a tag, the trailer begins
with a tag, and one destination consists of the bytes of two tags. Dead values
(`clientFd`, `accTmp`, `oHost` between two lines and the like) are reset where the code does not use them any
more, to keep states apart only when they behave differently. Where the code leaves such a
value alone the view `LiveState` of `ServerPoolSafety` hides it instead: `params` once
every thread has fetched it, a `join_status` the next pass overwrites, and the device ID
of a socket that is closed or in the handshake, which `recvClientID` overwrites or
closes. No action and no property of that run reads a hidden value before it is
written again, so states the view identifies have the same futures. (The hidden ID
is written again because the run exchanges IDs; without `ID_PROTOCOL` the view would
not do.) `TypeOK`, which does look at them, is checked in the two smaller runs.

In `TrafficSafety` one buffer for two read threads shows the pool running dry, and a
connection that takes half a frame makes every send a wait for its reader, the
worst case for the circle of guards; node `a` receives from itself and from `b`, so
two readers meet in one deframer and a sender waits for its own hub. `Busy` gives `a` two
producing threads, which compete for its hub, and `b` one; `Fragile` lets the connection
between the nodes break, any number of times (147612 states). In
`MeshReconnects` one fault may hit any point of any handshake, on either side, and one race
leaves a client unread or the count wrong (48083 states). Three sockets are the two
connections of a node and one that a failed answer, a silent loss or a lost update costs:
with more such losses than spare sockets the accept task stops for ever and `HandshakesEnd`
and `Reopens` do fail. The invariants and `RefinesHandshake` are proved for any number of
faults and races.

**Deadlock** is not checked in the runs of the two pools: a stopped component is
where they end. The other runs check it.

**Fairness.** `ThreadFairness` lets every thread of the process that can move
move eventually: nothing in the code makes a thread wait for another one except
`pthread_join` (a guard) and the locks inside one step. `AnsweringSpec` adds that a
peer with which a handshake has begun answers or goes away. The code itself does
not guarantee that — `recvClientID` (`MTSTask.cpp:115`) and `recvSrvrID`
(`SocketOpenTask.cpp:72`) wait without limit — and without it `JoinReturns` fails
in both pools and `HostsGetConnected` fails for the hosts behind a silent one.
A `Reliable` host accepts, answers and does not drop its connection. No fairness
is assumed of clients that connect, send or close, of the sender, or of the
person who stops the component.

`FairSpec` of `Traffic` lets each thread that can move move eventually (weak fairness):
the guards are pthread mutexes, which promise no turn to a waiting thread, so no
strong fairness is taken and a packet need not ever get through; what is
promised is that the guard is released. A timeout of `send` is a step that can be
taken while the connection is full. `Fairness` of `Mesh` lets the open, accept and
read threads run and has somebody start a node that is down; `UnicastSpec` adds that
the application keeps sending to every node by its ID, `BroadcastSpec` (in `MCMeshBroadcast`)
that it keeps broadcasting; its `parity` makes a broadcast that closes nothing a step. In
`Mesh` nothing is assumed of the other side of a handshake: there `HandshakesEnd` is what `AnsweringSpec` of the two pools takes for granted, shown for
nodes that run this driver, or crash, in a mesh with enough sockets.

## 4. What the properties say

`ServerPool`. `OpensClosedSocket`: the assertion in `IpSocket::open` holds, although
the slot is chosen and opened in different steps. `ConnectionsBounded`: the
unlocked count never passes `MAX_CLIENTS`. `ThreadPerStartedTask`,
`TaskCountBounded`: a thread handle is not overwritten and no thread joined
twice, and `taskCount` stays between 0 and the number of threads although the
reaping loop may subtract one thread several times. `ClientIDMatches`: no ID
survives its connection. `AllClosedWhenDone`: a client accepted while
`shutdown` closes everything is closed by `acceptTask` itself. `StopWindsDown`: once
`m_stop` is set no thread can loop, whatever clients connect and send; every step of the
accept thread or a read thread takes it nearer to its end by `AcceptRank` or `ReaderRank`
or is one of the bounded iterations over sockets and tasks. `ReadersEnd`,
`DeadClientEndsReader`, `JoinReturns`: liveness, that the steps left are taken.

`ClientPool`. `OneSocketPerHost`: the check of the host holds until the
connection is made, although sockets close in between. `IDMatchesHost`,
`OpensClosedSocket`, `AllClosedWhenDone` as above. `FreedOnce`: every path of
`send_handler` gives the buffer back once. `HostsGetConnected`, `JoinReturns`.

`SwarmPacket`. `ScanFindsDestination`: the destination used is the one set when the
packet was framed. `FreedOnce`: such a packet never takes the path at line 91
that gives the buffer back and goes on. `ReadsInBounds`: the scan, which looks up to five
bytes ahead and asks for no length, and the deframer, which takes 12 off the size, stay in
the buffer, also when it ends in a tag or half of one. `DeframedAsFramed`: source and payload
come out as they went in. `MaskObeyed`: no packet for one node passes a line
that forbids the node, whatever the file said before.

`RefinesConnectionPool`, of both pools: each is a `ConnectionPool`, whatever its
threads do. It is what the properties above amount to for a user of a pool, and
says more: a socket does not pass from one connection to another without being
closed in between, and a known ID is that of the connection.

`Traffic`. `StaticBuffersOnce`: the assertions in `StaticMemory` hold although every
producing thread and every read thread allocates the same single buffers.
`BuffersConserved`: no way of `readTask` loses a receive buffer, neither the one that `recv`
filled nor the one it failed with or was interrupted in, which goes up at full size with the
error status; an empty one is not given back, and a thread that has left its loop holds none. `FramerNeverEmpty`: `SwarmFramer::frame`, which
never looks, always gets a buffer. `PartsInOrder`: a send that is given up half way
leaves no trace but a frame that breaks off; the next packet starts with its first half
and on no connection does a second half come without its first. `HubReleased`: two nodes that send to each other,
or one that sends to itself, may wait in a circle of hub, connection, deframer and hub;
the send timeout that `TcpClientManager::configure` hands to the sockets breaks it.

`Mesh`. `HandshakeAgreement`: through every crash, restart and loss the two ends agree on
where a connection is: a client that takes it for open does not still wait for its turn at
the server (it took no answer to an earlier connection), and a server is past the handshake
only with clients that sent their ID on this connection and still hold the socket. It does
not say that a thread reads the client: in the code one may not, which is finding 1 and
`BadEveryClientIsRead`. `WaitsForPartner`: the two
places that wait without limit, `recvClientID` (`MTSTask.cpp:115`) and `recvSrvrID`
(`SocketOpenTask.cpp:72`), wait only for a process that runs and is at the other half of
this very handshake, so no circle of waiting nodes can form. `RefinesHandshake`: no client
takes an answer left from before a crash for the answer to its own ID, no server answers
twice or a client that has not sent its ID, and a client gives up a connection only when
the server's end is gone and has left no answer. `HandshakesEnd`: neither
side waits for ever, nor do two nodes for each other. `Reopens`: once there are no
more faults, every running node gets its connection to every node that listens, and
keeps it.

## 5. Proofs

Each `…Proofs` and `…Refinement` module proves its theorems for every value of the constants, from
the named assumptions of the specification: finite non-empty pools, distinct
special values (`ConstantsAssumption`, `ClientConstants`, `PacketConstants`,
`TrafficConstants`, which also gives the framer's pool a buffer for each producing
thread, and `MeshConstants`), and for
packets that the source ID and the bytes before a buffer hold no tag
(`SourcesAssumption`, `PrefixesAssumption`). `TypeOK` is inductive in all of them;
the other invariants need a strengthening:

* `ServerPool`: `CountInv` — between the test in the accept loop and the store of
  the incremented count the count is strictly below the limit, and no thread
  holds a loaded value above it; every other store only decrements.
  `SocketInv` — only the accept task opens, so its chosen slot stays closed and
  what its last `closeAll` has passed stays closed. `IDInv` — IDs come from
  handshakes only. `ThreadPerStartedTask` and `TaskCountBounded` are inductive
  with `TypeOK`.
* `ClientPool`: `SocketInv` likewise; `HostInv` — from the check to the connection
  no open socket has the task's host, and the configured socket keeps it;
  `FreedInv` — the number of deallocations is a function of the sender's place.
* `SwarmPacket`: `PacketInv` — the buffer under way is `Framed(…)` of what was asked.
  The lemmas below it are the mathematics of the format: `RoundTrip` (four bytes
  make the ID again), `FramedShape` (every byte of the buffer), `ScanOfHeader`
  (given a header at `n + 1` and no tag before it or in its source ID, the loop
  stops at `n + 7` and nowhere else), `PacketHasHeader` (every packet has one),
  `Deframed`. They hold for payloads of any length and content, which TLC could
  only sample.

* `ServerPoolRefinement`: `PlaceInv` — a connection is in one place, the backlog, the
  accept thread's hand or one socket — makes the number of open connections
  that of open sockets (`RoomToOpen`), and with the invariants above each step maps
  to a step of `ConnectionPool` or a stutter (`CloseRefines`, `ForgetRefines`, …).
* `ClientPoolRefinement`: the same with `HostInv` for the one socket of each host and
  `NamedInv`, that an open socket names a host.
* `Traffic`: `HubInv` and `UplinkInv` tie the guards to the places of the threads and
  to the single buffers; `BuffersConserved` is inductive, with the failing and interrupted `recv`
  and connections that break; `FramerInv` counts the
  framer's buffers among the producing threads.
* `StopWindsDown` follows from `TypeOK` and `ThreadPerStartedTask`: a task slot that a start
  takes was idle (`AcceptWindsDown`, `ReaderWindsDown`). `StopEndsOpenTask` says the same of
  the open task, by `OpenRank`.
* `OneHostPerPrefix`: `PrefixInv` is `HostInv` for what `compareHost` compares instead of the
  host; it holds for every constant `Prefix`, so it says what the `sizeof` of a pointer
  leaves of the pool. `IDsNameOneSocket` joins `IDMatchesHost` and `OneSocketPerHost`.
* `ReadsInBounds`: the header is found at a known place (`ScanOfHeader`), so the scan reads
  nothing behind it.
* `PartsInOrder`: `CallInv` — only the holder of the hub's guard has sockets to send to, and
  with none left no part counts as sent — and `StreamInv` — what is under way is in order,
  and a second half that is still to come finds its first at the end, or the deframer has
  taken that.
* `OneConnectionLosesNoFrame` (a node with one incoming connection; no run checks it, for the
  run's instance has a node with two): `AloneInv` extends `StreamInv` by the ring of the
  deframer. There `Skips` happens only to a first half that another first half
  follows, a frame whose send was given up. So the loss that `BadWholeFramesReceived` shows
  comes from the shared deframer and not from the timeouts.
* `Mesh`: `ConnInv` — for each pair of nodes the live end of a connection is in at most
  one place of the server, and each place allows certain states of the client —
  gives `HandshakeAgreement` (`EndsAgree`). It does not depend on the count, so the races of a node
  do not touch it. `TypeOK` carries the one bound on the count that survives them: at most
  `MAX_CLIENTS`, for `Add` follows the test, and not below `-2 * races` (`CountBounds`).
* `MeshRefinement`: from `TypeOK` and `ConnInv` every step of the mesh is, for each pair of nodes,
  a step of `Handshake` or none (`StepIsPairStep`), also for the pairs it is not about.
  `WaitsForPartner` needs three facts: `AtHostInv` — during a handshake the open task stays
  at its host —, `ListeningInv` — only a node that listens has ends of connections — and
  `AnsweredInv` — a server past the handshake with a client that waits has answered it. The
  last follows from the abstract steps alone, so it is proved of `Handshake`'s steps and
  carried over by the refinement.

Not proved: the liveness properties (`ReadersEnd`, `DeadClientEndsReader`, `JoinReturns`,
`HostsGetConnected`, `HubReleased`, `HandshakesEnd`, `Reopens`), which need fairness and stay with TLC; and the
violated statements. Of `JoinReturns` and `ReadersEnd` the part that needs no fairness is
proved: the steps left after a stop are bounded (`StopWindsDown`, `StopEndsOpenTask`). Of
`HandshakesEnd` it is `WaitsForPartner`. That the steps left are enabled and taken is what
TLC checks.

## 6. Findings

Each is a `Bad…` run; its trace shows the steps.

1. `MTSTask.cpp:182` — a new thread gets a pointer to the one `params` of the accept
   task; when it starts late it reads the next client's index: two threads on one
   socket, none on the other.
2. `MTSTask.cpp:213` — a read thread closes its socket by index up to three times
   after `recv` failed; the slot may have a new, living client by then.
3. `MultiTcpServerComponentImpl.cpp:121` — the destination is looked up a second time after
   the check of line 119, and written to, without a lock over the three. In the shortest
   trace the shutdown closes the socket in between and has not reset its ID yet, the open
   task opens it for another host, and the lookup finds it by its old ID. When the lookup
   finds nothing it takes `sockets[0]` (`TcpClientManager.cpp:81`), with the same end.
4. `topology.fpp:175` — one deframer for all connections of a node: when frames of
   two connections arrive in parts, both are thrown away.
5. `MultiTcpServerComponentImpl.cpp:106` — a broadcast does not look at what its
   sends return; a socket whose peer was restarted stays open, the open task takes
   it for connected, and the node never connects to that host again.

Other statements that fail in the models, found while stating what should hold.
They are not runs because no line of the repository promises them, or because a
run above already shows the same cause:

* `SEND_OK` means that the data has been sent (`MultiTcpServerComponentImpl.hpp:157`):
  line 134 of the source overwrites `SEND_RETRY` by `SEND_OK`, and a broadcast to nobody
  reads a status that was never assigned;
* a client that is accepted finds a free task (sdd.md:9): at `MTSTask.cpp:151`
  `join_status` keeps the answer of an earlier task for one that is not started, so one
  joined thread lowers `taskCount` more than once and `AcceptNoTask` is reached;
* only a connected host is skipped (sdd.md:11): `compareHost` compares the `sizeof` of a
  pointer (`MultiTcpClientSocket.cpp:112`), so with `Prefix <- SamePrefix` in
  `ClientPool` the second host is never connected;
* a client that is answered is read, and the count is that of the sockets in use:
  `AcceptLeavesUnread`, `Add` and `Subtract` of `Mesh` are the ways out (`MTSTask.cpp:126-141`, `182`,
  `MultiTcpServerManager.cpp:114`, `145`);
* every client with a read thread is read: five idle clients hold the five buffers of
  `dynamicMemory` in `recv` (`instances.fpp:456`), and further read threads spin on
  empty ones (`GetsNone`, `ReturnsEmpty`);
* a mesh serves as many clients as it has sockets: each failed answer
  (`MTSTask.cpp:121`) costs a slot until the process ends, and when they are used up
  clients wait in `recvSrvrID` for ever (`HandshakesEnd`, `Reopens` with `MAX_CLIENTS`
  below the number of nodes and failed answers);
* a restarted node is part of the mesh again: without `SO_REUSEADDR` its `bind` may
  fail, and nobody looks (`"deaf"` in `Mesh`);
* the count equals the number of open sockets when no thread is in the middle of
  an open or close: lost updates, and `sendSrvrID` failing at `MTSTask.cpp:121` after
  the client was counted, break it; nor is it 0 right after `shutdown`;
* every read thread is joined when `acceptTask` returns (`MTSTask.cpp:164`): a
  thread that has not yet ended answers `EBUSY` and is left;
* `receiverID - 0x20202020` is an index of `adj_M`: a broadcast during a handshake asks
  for ID 0 (`MultiTcpServerComponentImpl.cpp:105`);
* every open client socket has an ID between handshakes: a failed `recvSrvrID`
  leaves none until the socket is closed, and the EPIPE path may reset another's;
* the host file is open whenever it is read: `shutdown` closes it first.

Two differences between documents and code that need no run: `MultiNode.md` and the
comment in `init_adjacency_matrix` speak of full connection by default, while
`adj_M[0]` starts as 0 (it only counts while the mask file is missing); and the
destination of a `SwarmFramer` starts as broadcast.

## 7. Not modelled

* The steps in which `startup` can fail (its outcome, a node without a listening
  socket, is in `Mesh`); `configure` and the setters, which only store values.
* Process set up and teardown around `commP`: the signal handler of `Main.cpp:21` that
  may interrupt any thread, `fclose` of a host file never opened, joins of
  threads never started. What these do is decided inside the C library and
  `Os::Task`; the pools begin after `startTasks` and end with one `freeThreads`.
* A connection that is lost without a word to either end in the middle of a handshake, and a
  stranger that connects and says nothing: `recvClientID` and `recvSrvrID` set no timeout, so
  they would wait for ever, and `HandshakesEnd`, `Reopens` and `JoinReturns` would fail. A
  silent loss after the handshake is in `Mesh`, as a server that never hears of it; a machine
  without power is a process whose peers do hear of it.
* Time: timeouts of `select`, `SO_SNDTIMEO` and the delays of the tasks are steps
  that may be taken, without durations.
* The contents of received data beyond the header; packets that `SwarmFramer` did
  not build; mask lines of other than `MAX_CLIENTS` characters; commands, events,
  telemetry and the connection to the ground system.
* The waits of producing threads for each other in the queues of their
  components, and the priorities of threads.
* Signals: whether a `send` to a peer that is gone raises SIGPIPE
  (`MultiTcpServerComponentImpl.cpp:121`) is decided in `Drv/Ip`; in `Mesh` a process that
  dies of it is a `Crash`.
* Command line parsing (`-d` left out leaves the device ID uninitialised), launch
  scripts, the unit tests, and the framework.
* Members without a caller: `startReadTask`, `joinReadTask`, `ClientConnectTask`,
  `MultiTcpServerManager::getSocketHandlerByID`, `closeServer`.

## 8. What could come next

1. An abstract `send` that delivers to its destination or reports an error. The code does
   not implement it (finding 3, and `SEND_OK`); it would become a refinement once
   they are mended.
2. `ClosesOnlyDeadClients` for code that checks the connection before it closes an index,
   and its proof from `PlaceInv`.
3. The liveness runs with more faults: with two, `Reopens` and `HandshakesEnd` take longer
   than a run should.
4. The life cycle of the process, should `Os::Task` and the signal handling become part
   of the repository.
