------------------------------ MODULE Traffic ------------------------------
(***************************************************************************)
(* The way of a packet through the deployments of a mesh: GPS and          *)
(* simpleProducer, SwarmFramer, the hub, commP.send, the bytes in a        *)
(* connection, a read thread, the deframer uplinkP, the hub again and      *)
(* SwarmDeframer, in the topology of DepA/Top.  On this way a thread takes *)
(* the guards of the components it calls, holds buffers of three           *)
(* allocators, and blocks while a connection takes no more bytes.          *)
(*                                                                         *)
(* A connection can break, at the cost of what was under way, and is made  *)
(* again when both ends have closed it: ServerPool and ClientPool are      *)
(* about how, and the pools' sockets are one connection per link here.     *)
(* A frame is a pair of halves, so that it can be sent and received in     *)
(* parts.  The hub, Svc::Framer, Svc::Deframer and the allocators are      *)
(* F Prime's, modelled from how the topology uses them.                    *)
(***************************************************************************)
EXTENDS Integers, Sequences, FiniteSets, Functions

CONSTANTS
    Nodes,        \* deployments
    Apps,         \* the threads that produce data: GPS, simpleProducer
    Links,        \* connections <<client node, server node>>
    POOL,         \* buffers of dynamicMemory
    FRAMER_POOL,  \* buffers of swarmFramerBufferManager
    WINDOW,       \* halves a connection holds before send blocks
    Busy,         \* bound: <<node, app>> whose component has events to work on
    Fragile,      \* bound: the connections that may break
    Nobody        \* holder of a free lock

ASSUME TrafficConstants ==
    /\ Links \subseteq Nodes \X Nodes
    /\ IsFiniteSet(Links) /\ IsFiniteSet(Apps)
    /\ POOL \in Nat /\ FRAMER_POOL \in Nat /\ WINDOW \in Nat \ {0}
    /\ Cardinality(Apps) <= FRAMER_POOL
    /\ Busy \subseteq Nodes \X Apps /\ Fragile \subseteq Links
    /\ Nobody \notin Apps \cup Links

\* The connections a node has opened, and those it reads from.
Out(n) == {l \in Links : l[1] = n}
In(n)  == {l \in Links : l[2] = n}

Half == Nodes \X {1, 2}

VARIABLES
    appPc,       \* appPc[n][a]: where a producing thread is
    targets,     \* targets[n]: connections the current call of commP.send still serves
    part,        \* part[n]: halves the first of them has taken
    hubLock,     \* hubLock[n]: who holds the guard of the hub
    upLock,      \* upLock[n]: who is inside uplinkP
    staticHub,        \* staticHub[n] and the next two: how often the one buffer
    staticDownlinkP,  \*   that staticMemory has for its ports hub, downlinkP and
    staticHub2,       \*   hub2 is allocated
    framerFree,  \* framerFree[n]: free buffers of swarmFramerBufferManager
    poolFree,    \* poolFree[n]: free buffers of dynamicMemory
    conn,        \* conn[l]: "up", "broken" (the client has not noticed), "down" (closed there)
    chan,        \* chan[l]: halves under way in a connection
    rdPc,        \* rdPc[l]: where the server's read thread of a connection is
    rdBuf,       \* rdBuf[l]: what its buffer holds
    ring         \* ring[n]: the bytes uplinkP has not parsed yet

static == <<staticHub, staticDownlinkP, staticHub2>>
appVars == <<appPc, targets, part, framerFree>>
readVars == <<poolFree, rdPc, rdBuf, ring, upLock>>
net == <<conn, chan>>
vars == <<appVars, readVars, hubLock, static, net>>

Init ==
    /\ appPc = [n \in Nodes |-> [a \in Apps |-> "idle"]]
    /\ targets = [n \in Nodes |-> <<>>]
    /\ part = [n \in Nodes |-> 0]
    /\ hubLock = [n \in Nodes |-> Nobody]
    /\ upLock = [n \in Nodes |-> Nobody]
    /\ staticHub = [n \in Nodes |-> 0] /\ staticDownlinkP = [n \in Nodes |-> 0]
    /\ staticHub2 = [n \in Nodes |-> 0]
    /\ framerFree = [n \in Nodes |-> FRAMER_POOL]
    /\ poolFree = [n \in Nodes |-> POOL]
    /\ conn = [l \in Links |-> "up"]
    /\ chan = [l \in Links |-> <<>>]
    /\ rdPc = [l \in Links |-> "get"]
    /\ rdBuf = [l \in Links |-> <<>>]
    /\ ring = [n \in Nodes |-> <<>>]

AppGoto(n, a, pc) == appPc' = [appPc EXCEPT ![n][a] = pc]
ReadGoto(l, pc)   == rdPc' = [rdPc EXCEPT ![l] = pc]

-----------------------------------------------------------------------------
(* Sending.                                                                 *)

\* ping or SET_NUM comes off the component's queue; SwarmFramer::frame allocates
\* a buffer and fills it.  Nothing asks whether there was one.
Frame(n, a) ==
    /\ appPc[n][a] = "idle" /\ <<n, a>> \in Busy
    /\ framerFree' = [framerFree EXCEPT ![n] = @ - 1]
    /\ AppGoto(n, a, "framed")
    /\ UNCHANGED <<targets, part, readVars, hubLock, static, net>>

\* The sockets send_handler may find open and allowed: one for a unicast packet,
\* any for a broadcast, in the order of the pool; none for a masked destination.
Destinations(n) ==
    {t \in UNION {[1 .. k -> Out(n)] : k \in 0 .. Cardinality(Out(n))} : IsInjective(t)}

\* A fault: the port of the hub is not guarded.
LocksHub_Unguarded(n, a) ==
    /\ appPc[n][a] = "framed"
    /\ hubLock' = [hubLock EXCEPT ![n] = a]
    /\ staticHub' = [staticHub EXCEPT ![n] = @ + 1]
    /\ staticDownlinkP' = [staticDownlinkP EXCEPT ![n] = @ + 1]
    /\ \E t \in Destinations(n) : targets' = [targets EXCEPT ![n] = t]
    /\ AppGoto(n, a, "send")
    /\ UNCHANGED <<part, framerFree, readVars, net, staticHub2>>

\* framedOut_out: the guard of the hub, a buffer for the hub's frame and one for
\* downlinkP's, and the call of commP.send.  downlinkP and commP have no other
\* caller, so their guards are free.
LocksHub(n, a) ==
    /\ appPc[n][a] = "framed" /\ hubLock[n] = Nobody
    /\ hubLock' = [hubLock EXCEPT ![n] = a]
    /\ staticHub' = [staticHub EXCEPT ![n] = @ + 1]
    /\ staticDownlinkP' = [staticDownlinkP EXCEPT ![n] = @ + 1]
    /\ \E t \in Destinations(n) : targets' = [targets EXCEPT ![n] = t]
    /\ AppGoto(n, a, "send")
    /\ UNCHANGED <<part, framerFree, readVars, net, staticHub2>>

\* A fault: the count of what was taken is not reset for the next socket.
SendsPart_KeepsPart(n) ==
    /\ targets[n] # <<>>
    /\ LET l == Head(targets[n]) IN
          /\ conn[l] = "up" /\ Len(chan[l]) < WINDOW
          /\ chan' = [chan EXCEPT ![l] = Append(@, <<n, part[n] + 1>>)]
    /\ part' = [part EXCEPT ![n] = @ + 1]
    /\ targets' = [targets EXCEPT ![n] = IF part[n] = 1 THEN Tail(@) ELSE @]
    /\ UNCHANGED <<appPc, framerFree, readVars, hubLock, static, conn>>

\* IpSocket::send to the next socket: a part is taken ...
SendsPart(n) ==
    /\ targets[n] # <<>>
    /\ LET l == Head(targets[n]) IN
          /\ conn[l] = "up" /\ Len(chan[l]) < WINDOW
          /\ chan' = [chan EXCEPT ![l] = Append(@, <<n, part[n] + 1>>)]
    /\ part' = [part EXCEPT ![n] = 1 - @]
    /\ targets' = [targets EXCEPT ![n] = IF part[n] = 1 THEN Tail(@) ELSE @]
    /\ UNCHANGED <<appPc, framerFree, readVars, hubLock, static, conn>>

\* A fault: the sockets are opened without a send timeout.
TimesOut_Never(n) == FALSE

\* A fault: the count of what was taken survives the packet that was given up.
TimesOut_KeepsPart(n) ==
    /\ targets[n] # <<>>
    /\ Len(chan[Head(targets[n])]) >= WINDOW
    /\ targets' = [targets EXCEPT ![n] = Tail(@)]
    /\ UNCHANGED <<appPc, part, framerFree, readVars, hubLock, static, net>>

\* ... or no room is left until SO_SNDTIMEO has passed, and the rest is given up.
TimesOut(n) ==
    /\ targets[n] # <<>>
    /\ Len(chan[Head(targets[n])]) >= WINDOW
    /\ part' = [part EXCEPT ![n] = 0]
    /\ targets' = [targets EXCEPT ![n] = Tail(@)]
    /\ UNCHANGED <<appPc, framerFree, readVars, hubLock, static, net>>

\* The connection is lost but no answer from the peer has said so: the part is taken
\* all the same, and vanishes.
SendVanishes(n) ==
    /\ targets[n] # <<>> /\ conn[Head(targets[n])] = "broken"
    /\ part' = [part EXCEPT ![n] = 1 - @]
    /\ targets' = [targets EXCEPT ![n] = IF part[n] = 1 THEN Tail(@) ELSE @]
    /\ UNCHANGED <<appPc, framerFree, readVars, hubLock, static, net>>

\* send fails, or the socket was closed since it was looked up: the rest is given up.
\* A unicast closes the socket when the peer is gone, a broadcast leaves it open.
SendFails(n) ==
    /\ targets[n] # <<>>
    /\ LET l == Head(targets[n]) IN
          /\ conn[l] # "up"
          /\ \E c \in {conn[l], "down"} : conn' = [conn EXCEPT ![l] = c]
    /\ part' = [part EXCEPT ![n] = 0]
    /\ targets' = [targets EXCEPT ![n] = Tail(@)]
    /\ UNCHANGED <<appPc, framerFree, readVars, hubLock, static, chan>>

\* A fault: the hub keeps the buffer of a packet that reached no socket.
Returns_KeepsBuffer(n, a) ==
    /\ appPc[n][a] = "send" /\ hubLock[n] = a /\ targets[n] = <<>>
    /\ staticHub' = [staticHub EXCEPT ![n] = @ - 1]
    /\ staticDownlinkP' = [staticDownlinkP EXCEPT ![n] = @ - 1]
    /\ hubLock' = [hubLock EXCEPT ![n] = Nobody]
    /\ AppGoto(n, a, "idle")
    /\ UNCHANGED <<framerFree, targets, part, readVars, net, staticHub2>>

\* commP.deallocate, downlinkP's and hub's bufferDeallocate, and the return.
Returns(n, a) ==
    /\ appPc[n][a] = "send" /\ hubLock[n] = a /\ targets[n] = <<>>
    /\ staticHub' = [staticHub EXCEPT ![n] = @ - 1]
    /\ staticDownlinkP' = [staticDownlinkP EXCEPT ![n] = @ - 1]
    /\ framerFree' = [framerFree EXCEPT ![n] = @ + 1]
    /\ hubLock' = [hubLock EXCEPT ![n] = Nobody]
    /\ AppGoto(n, a, "idle")
    /\ UNCHANGED <<targets, part, readVars, net, staticHub2>>

Sends(n) ==
    \/ SendsPart(n) \/ TimesOut(n) \/ SendVanishes(n) \/ SendFails(n)
    \/ \E a \in Apps : Returns(n, a)

-----------------------------------------------------------------------------
(* Receiving: readTask and what its recv_out calls, for connection l.       *)

\* getBuffer answers with a buffer, or with an empty one when the pool is used up;
\* the thread then hands the empty buffer on and tries again.
GetsBuffer(l) ==
    /\ rdPc[l] = "get" /\ poolFree[l[2]] > 0
    /\ poolFree' = [poolFree EXCEPT ![l[2]] = @ - 1]
    /\ ReadGoto(l, "recv")
    /\ UNCHANGED <<appVars, rdBuf, ring, upLock, hubLock, static, net>>

GetsNone(l) ==
    /\ rdPc[l] = "get" /\ poolFree[l[2]] = 0
    /\ ReadGoto(l, "empty")
    /\ UNCHANGED <<appVars, poolFree, rdBuf, ring, upLock, hubLock, static, net>>

\* The socket is not open any more when the loop comes round: the thread leaves it, and
\* what the connection still held is gone with the socket.
FindsClosed(l) ==
    /\ rdPc[l] = "get" /\ conn[l] # "up"
    /\ chan' = [chan EXCEPT ![l] = <<>>]
    /\ ReadGoto(l, "ended")
    /\ UNCHANGED <<appVars, poolFree, rdBuf, ring, upLock, hubLock, static, conn>>

\* recv takes all that has arrived; a buffer is no smaller than the window.
Receives(l) ==
    /\ rdPc[l] = "recv" /\ chan[l] # <<>>
    /\ rdBuf' = [rdBuf EXCEPT ![l] = chan[l]]
    /\ chan' = [chan EXCEPT ![l] = <<>>]
    /\ ReadGoto(l, "received")
    /\ UNCHANGED <<appVars, poolFree, ring, upLock, hubLock, static, conn>>

\* A signal interrupts recv.
RecvInterrupted(l) ==
    /\ rdPc[l] = "recv"
    /\ ReadGoto(l, "interrupted")
    /\ UNCHANGED <<appVars, poolFree, rdBuf, ring, upLock, hubLock, static, net>>

\* A fault: the thread whose recv failed leaves its loop without sendBuffer.
RecvFails_KeepsBuffer(l) ==
    /\ rdPc[l] = "recv" /\ conn[l] # "up" /\ chan[l] = <<>>
    /\ ReadGoto(l, "ended")
    /\ UNCHANGED <<appVars, poolFree, rdBuf, ring, upLock, hubLock, static, net>>

\* recv finds the connection lost, once it has delivered what arrived before: the
\* socket is closed, and the buffer goes up as large as it came.
RecvFails(l) ==
    /\ rdPc[l] = "recv" /\ conn[l] # "up" /\ chan[l] = <<>>
    /\ ReadGoto(l, "failed")
    /\ UNCHANGED <<appVars, poolFree, rdBuf, ring, upLock, hubLock, static, net>>

\* A buffer that comes with an error status is not parsed but given back at once; the
\* thread leaves its loop when recv failed, and goes on when it was interrupted.
ReturnsUnused(l) ==
    /\ rdPc[l] \in {"failed", "interrupted"} /\ upLock[l[2]] = Nobody
    /\ poolFree' = [poolFree EXCEPT ![l[2]] = @ + 1]
    /\ ReadGoto(l, IF rdPc[l] = "failed" THEN "ended" ELSE "get")
    /\ UNCHANGED <<appVars, rdBuf, ring, upLock, hubLock, static, net>>

\* uplinkP.framedIn, which is guarded: the bytes go behind those left over.
LocksUplink(l) ==
    /\ rdPc[l] = "received" /\ upLock[l[2]] = Nobody
    /\ upLock' = [upLock EXCEPT ![l[2]] = l]
    /\ ring' = [ring EXCEPT ![l[2]] = @ \o rdBuf[l]]
    /\ rdBuf' = [rdBuf EXCEPT ![l] = <<>>]
    /\ ReadGoto(l, "parse")
    /\ UNCHANGED <<appVars, poolFree, hubLock, static, net>>

\* The empty buffer goes the same way; BufferManager ignores it.
ReturnsEmpty(l) ==
    /\ rdPc[l] = "empty" /\ upLock[l[2]] = Nobody
    /\ ReadGoto(l, "get")
    /\ UNCHANGED <<appVars, poolFree, rdBuf, ring, upLock, hubLock, static, net>>

\* What uplinkP sees at the front of its ring: the whole of a frame, the start of
\* one, or bytes that begin no frame.
WholeFrame(r) == Len(r) >= 2 /\ r[1][2] = 1 /\ r[2] = <<r[1][1], 2>>
MayBeFrame(r) == WholeFrame(r) \/ Len(r) = 0 \/ (Len(r) = 1 /\ r[1][2] = 1)

\* The checksum of the frame is right: a buffer for its contents, for the hub.
FindsFrame(l) ==
    /\ rdPc[l] = "parse" /\ WholeFrame(ring[l[2]])
    /\ staticHub2' = [staticHub2 EXCEPT ![l[2]] = @ + 1]
    /\ ReadGoto(l, "deliver")
    /\ UNCHANGED <<appVars, poolFree, rdBuf, ring, upLock, hubLock, net, staticHub, staticDownlinkP>>

\* It is wrong, or there is no start of a frame: a byte is skipped.
Skips(l) ==
    /\ rdPc[l] = "parse" /\ ~MayBeFrame(ring[l[2]])
    /\ ring' = [ring EXCEPT ![l[2]] = Tail(@)]
    /\ UNCHANGED <<appVars, poolFree, rdPc, rdBuf, upLock, hubLock, static, net>>

\* A fault: framedIn returns without framedDeallocate.
Delivers_KeepsBuffer(l) ==
    /\ rdPc[l] = "deliver" /\ hubLock[l[2]] = Nobody
    /\ ring' = [ring EXCEPT ![l[2]] = SubSeq(@, 3, Len(@))]
    /\ ReadGoto(l, "parse")
    /\ UNCHANGED <<appVars, poolFree, rdBuf, upLock, hubLock, static, net>>

\* hub.dataIn, which is guarded by the lock of buffersIn and waits for nothing:
\* SwarmDeframer hands the data to simpleReceiver or GPS and gives the hub's buffer
\* back; the frame leaves the ring.
Delivers(l) ==
    /\ rdPc[l] = "deliver" /\ hubLock[l[2]] = Nobody
    /\ staticHub2' = [staticHub2 EXCEPT ![l[2]] = @ - 1]
    /\ ring' = [ring EXCEPT ![l[2]] = SubSeq(@, 3, Len(@))]
    /\ ReadGoto(l, "parse")
    /\ UNCHANGED <<appVars, poolFree, rdBuf, upLock, hubLock, net, staticHub, staticDownlinkP>>

\* The rest must wait for more bytes: uplinkP.framedDeallocate and the return.
Parsed(l) ==
    /\ rdPc[l] = "parse"
    /\ MayBeFrame(ring[l[2]]) /\ ~WholeFrame(ring[l[2]])
    /\ poolFree' = [poolFree EXCEPT ![l[2]] = @ + 1]
    /\ upLock' = [upLock EXCEPT ![l[2]] = Nobody]
    /\ ReadGoto(l, "get")
    /\ UNCHANGED <<appVars, rdBuf, ring, hubLock, static, net>>

Reads(l) ==
    \/ FindsClosed(l) \/ GetsBuffer(l) \/ GetsNone(l) \/ ReturnsEmpty(l)
    \/ Receives(l) \/ RecvInterrupted(l) \/ RecvFails(l) \/ ReturnsUnused(l)
    \/ LocksUplink(l) \/ FindsFrame(l) \/ Skips(l) \/ Delivers(l) \/ Parsed(l)

-----------------------------------------------------------------------------
(* Connections.                                                             *)

\* The network or another thread of the server ends a connection; the end of what was
\* under way never arrives.
Breaks(l) ==
    /\ conn[l] = "up" /\ l \in Fragile
    /\ conn' = [conn EXCEPT ![l] = "broken"]
    /\ \E k \in 0 .. Len(chan[l]) : chan' = [chan EXCEPT ![l] = SubSeq(@, 1, k)]
    /\ UNCHANGED <<appVars, readVars, hubLock, static>>

\* The client has closed its socket and the server's thread has ended: the open task
\* connects again, and the server starts a read thread.
Reconnects(l) ==
    /\ conn[l] = "down" /\ rdPc[l] = "ended"
    /\ conn' = [conn EXCEPT ![l] = "up"]
    /\ ReadGoto(l, "get")
    /\ UNCHANGED <<appVars, poolFree, rdBuf, ring, upLock, hubLock, static, chan>>

-----------------------------------------------------------------------------
Next ==
    \/ \E n \in Nodes : Sends(n) \/ \E a \in Apps : Frame(n, a) \/ LocksHub(n, a)
    \/ \E l \in Links : Reads(l) \/ Breaks(l) \/ Reconnects(l)

Spec == Init /\ [][Next]_vars

\* A thread inside commP.send, and a read thread that can move, move eventually.  The
\* guards are pthread mutexes, which promise no turn to one that waits, so a thread may
\* wait for ever while others take the lock again and again.
FairSpec ==
    /\ Spec
    /\ \A n \in Nodes : WF_vars(Sends(n))
    /\ \A l \in Links : WF_vars(Reads(l))

-----------------------------------------------------------------------------
(* What holds.                                                              *)

Holding == {"recv", "received", "failed", "interrupted", "parse", "deliver"}

\* The values the variables can have.
TypeOK ==
    /\ appPc \in [Nodes -> [Apps -> {"idle", "framed", "send"}]]
    /\ targets \in [Nodes -> Seq(Links)]
    /\ part \in [Nodes -> {0, 1}]
    /\ hubLock \in [Nodes -> Apps \cup {Nobody}]
    /\ upLock \in [Nodes -> Links \cup {Nobody}]
    /\ staticHub \in [Nodes -> Int] /\ staticDownlinkP \in [Nodes -> Int]
    /\ staticHub2 \in [Nodes -> Int]
    /\ framerFree \in [Nodes -> Int] /\ poolFree \in [Nodes -> Int]
    /\ conn \in [Links -> {"up", "broken", "down"}]
    /\ chan \in [Links -> Seq(Half)]
    /\ rdPc \in [Links -> Holding \cup {"get", "empty", "ended"}]
    /\ rdBuf \in [Links -> Seq(Half)]
    /\ ring \in [Nodes -> Seq(Half)]

\* The assertions in StaticMemory hold: a port's only buffer is never asked for
\* while it is out, nor returned twice, because each is used inside one guard.
StaticBuffersOnce ==
    \A n \in Nodes : {staticHub[n], staticDownlinkP[n], staticHub2[n]} \subseteq {0, 1}

\* No buffer of dynamicMemory is lost or returned twice: those that are not free
\* are held by a read thread, whether its recv delivered, failed or was interrupted, and
\* none by a thread that has ended.
BuffersConserved ==
    \A n \in Nodes :
        poolFree[n] + Cardinality({l \in In(n) : rdPc[l] \in Holding}) = POOL

\* SwarmFramer::frame always gets a buffer: each producing thread has one at most.
FramerNeverEmpty == \A n \in Nodes : framerFree[n] >= 0

\* A second half directly follows the first half of the same sender.
InOrder(s) == \A i \in 2 .. Len(s) : s[i][2] = 2 => s[i-1] = <<s[i][1], 1>>

\* Whoever sends, however often a connection is full until the timeout, and wherever it
\* breaks and is made again, every packet starts with its first half, and what a
\* connection has delivered and not delivered yet are halves of its own client, in
\* order: a frame may break off, but no second half comes without its first and no two
\* packets are mixed.  What WholeFramesReceived finds is mixed later, in the ring that
\* the connections share.
PartsInOrder ==
    /\ \A n \in Nodes : targets[n] = <<>> => part[n] = 0
    /\ \A l \in Links : LET s == rdBuf[l] \o chan[l]
                       IN  InOrder(s) /\ \A i \in 1 .. Len(s) : s[i][1] = l[1]

\* A guard of the hub is released again, although its holder sends to nodes whose
\* read threads wait for their own hubs: two nodes, or one connected to itself,
\* may wait for each other in a circle, which the send timeout breaks.
HubReleased == \A n \in Nodes : (hubLock[n] # Nobody) ~> (hubLock[n] = Nobody)

-----------------------------------------------------------------------------
(* What the documents say, and the code does not do.                        *)

\* MultiNode.md: "all Nodes will receive the data packet".  A second half at the
\* front of the ring is skipped when the first was skipped as the start of a
\* frame that never came.
WholeFramesReceived ==
    [][\A l \in Links : Skips(l) => Head(ring[l[2]])[2] = 1]_vars
=============================================================================
