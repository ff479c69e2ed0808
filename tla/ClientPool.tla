------------------------------ MODULE ClientPool ------------------------------
(***************************************************************************)
(* The client half of Drv::MultiTcpServerComponentImpl: the pool of client *)
(* sockets (TcpClientManager, MultiTcpClientSocket), the thread that keeps *)
(* them connected to the hosts of the host file (SocketOpenTask), the      *)
(* caller of the guarded send port (send_handler), and the thread that     *)
(* tears the component down (shutdown, stopSocketOpenTask, join).          *)
(*                                                                         *)
(* The descriptor of a socket is read and written under IpSocket's lock;   *)
(* serverDeviceID and the choice of a socket are not under any lock, so    *)
(* every access to them is a step of its own.                              *)
(*                                                                         *)
(* A host stands for an address, a port and the device behind them: device *)
(* IDs are unique (sdd.md), so the ID a host's server presents is the host *)
(* itself.  Packets carry a well formed swarm header.                      *)
(***************************************************************************)
EXTENDS Integers, Sequences

CONSTANTS
    Hosts,        \* the remote servers
    NoHost,       \* device ID 0
    BadLine,      \* a line of the host file that is not address:port
    Broadcast,    \* destination 808464432
    HOSTFILE,     \* the lines of the host file
    Prefix,       \* what compareHost compares of a host
    MAX_CLIENTS,  \* sockets in the pool (Cfg.hpp)
    Dests,        \* destinations of the packets that are sent
    Reliable      \* hosts that accept, answer and never drop a connection

ASSUME ClientConstants ==
    /\ NoHost \notin Hosts /\ Broadcast \notin Hosts \cup {NoHost}
    /\ BadLine \notin Hosts
    /\ HOSTFILE \in Seq(Hosts \cup {BadLine})
    /\ MAX_CLIENTS \in Nat \ {0}
    /\ Dests \subseteq Hosts \cup {Broadcast}
    /\ Reliable \subseteq Hosts

Slots == 0 .. MAX_CLIENTS - 1
Lines == 1 .. Len(HOSTFILE)

VARIABLES
    link,            \* each socket's descriptor and peer: "none" (-1), "alive", "gone"
    host,            \* m_hostname, m_port of each socket
    serverDeviceID,  \* device ID stored in each socket
    openPc,          \* open task: where it is
    line,            \* open task: next line of the host file
    oHost,           \* open task: hostname_s, port
    oSlot,           \* open task: index
    fpOpen,          \* the host file is open
    sPc,             \* sender: where it is
    sDest,           \* sender: receiverID
    sSlot,           \* sender: the socket it sends on, i of the broadcast loop
    sStatus,         \* sender: status of the last IpSocket::send
    sFreed,          \* sender: calls of deallocate_out for this packet
    sTo,             \* sender: host of the last socket that took the packet whole
    sRet,            \* sender: what send_handler returns
    mainPc,          \* stopping thread: where it is
    mainK,           \* stopping thread: i of closeAll
    m_stop           \* SocketOpenTask::m_stop

poolVars == <<link, host, serverDeviceID>>
openVars == <<openPc, line, oHost, oSlot>>
sendVars == <<sPc, sDest, sSlot, sStatus, sFreed, sTo, sRet>>
mainVars == <<mainPc, mainK, m_stop, fpOpen>>

vars == <<poolVars, openVars, sendVars, mainVars>>

OpenPcs == {"line", "check", "free", "connect", "publish", "sendID", "recvID", "storeID",
            "close", "reset", "loop", "closeAll", "done"}
SendPcs == {"idle", "mask", "find", "get", "send", "epipe", "epipeClose", "epipeReset",
            "bcast", "bsend", "ret"}
MainPcs == {"run", "close", "reset", "stop", "joinOpen", "joined"}
Statuses == {"uninit", "SUCCESS", "DISCONNECTED", "TRY_AGAIN", "SEND_ERROR"}
Returns == {"none", "OK", "RETRY", "ERROR"}

-----------------------------------------------------------------------------
Opened(s) == link[s] # "none"                      \* IpSocket::isOpened

Init ==
    /\ link = [s \in Slots |-> "none"]
    /\ host = [s \in Slots |-> NoHost]
    /\ serverDeviceID = [s \in Slots |-> NoHost]
    /\ openPc = "line" /\ line = 1 /\ oHost = NoHost /\ oSlot = 0
    /\ fpOpen = TRUE
    /\ sPc = "idle" /\ sDest = NoHost /\ sSlot = 0 /\ sStatus = "uninit"
    /\ sFreed = 0 /\ sTo = NoHost /\ sRet = "none"
    /\ mainPc = "run" /\ mainK = 0 /\ m_stop = FALSE

-----------------------------------------------------------------------------
(* Faults of the kind this code could have.  Next does not use them: each   *)
(* replaces the definition its name starts with, to see a property fail.    *)

ConnectedToHost_ByID(h) ==                       \* IDs compared, not addresses
    \E s \in Slots : Opened(s) /\ serverDeviceID[s] = h

FirstFree_Untested(s) == s = 0                   \* isOpened() not asked

OpenGetLine_NoRewind ==                          \* no rewind at the end of the file
    /\ openPc = "line"
    /\ line' = IF line > Len(HOSTFILE) THEN line ELSE line + 1
    /\ oHost' = IF line > Len(HOSTFILE) \/ HOSTFILE[line] = BadLine
                THEN NoHost ELSE HOSTFILE[line]
    /\ openPc' = IF oHost' = NoHost THEN "loop" ELSE "check"
    /\ UNCHANGED <<poolVars, oSlot, sendVars, mainVars>>

OpenRefused_Retries ==                           \* the refused host is tried again at once
    /\ openPc = "connect" /\ oHost \notin Reliable
    /\ openPc' = "check"
    /\ UNCHANGED <<poolVars, line, oHost, oSlot, sendVars, mainVars>>

OpenLostID_NotWoken ==                           \* close() does not end a blocked recv
    /\ openPc = "recvID" /\ link[oSlot] = "gone"
    /\ link' = [link EXCEPT ![oSlot] = "none"]
    /\ openPc' = "close"
    /\ UNCHANGED <<host, serverDeviceID, line, oHost, oSlot, sendVars, mainVars>>

OpenStoreID_KeepsOld ==                          \* an ID once stored is kept
    /\ openPc = "storeID"
    /\ serverDeviceID' = [serverDeviceID EXCEPT ![oSlot] = IF @ = NoHost THEN oHost ELSE @]
    /\ openPc' = "loop"
    /\ UNCHANGED <<link, host, line, oHost, oSlot, sendVars, mainVars>>

OpenLoop_NoCloseAll ==                           \* no closeAll when openTask ends
    /\ openPc = "loop"
    /\ openPc' = IF m_stop THEN "done" ELSE "line"
    /\ oHost' = NoHost /\ oSlot' = 0
    /\ UNCHANGED <<poolVars, line, sendVars, mainVars>>

-----------------------------------------------------------------------------
(* What send_handler and openTask ask of the pool.                          *)

\* compareHost looks at sizeof(pointer) characters of the address, and at the port.
CompareHost(s, h) == Prefix[host[s]] = Prefix[h]

\* checkIfAlreadyConnected(hostname, port).
ConnectedToHost(h) == \E s \in Slots : Opened(s) /\ CompareHost(s, h)

\* getFreeSocketIndex.
FirstFree(s) == ~Opened(s) /\ \A r \in Slots : r < s => Opened(r)

\* checkIfAlreadyConnected(device_id).
ConnectedToID(d) == \E s \in Slots : Opened(s) /\ serverDeviceID[s] = d

\* getSocketHandlerByID: the first socket that stores the ID, open or not;
\* sockets[0] when there is none.
ByID(d, s) ==
    \/ serverDeviceID[s] = d /\ \A r \in Slots : r < s => serverDeviceID[r] # d
    \/ s = 0 /\ \A r \in Slots : serverDeviceID[r] # d

-----------------------------------------------------------------------------
\* The remote end of a connection goes away: a FIN or RST is next in the stream.
PeerDrop(s) ==
    /\ link[s] = "alive" /\ host[s] \notin Reliable
    /\ link' = [link EXCEPT ![s] = "gone"]
    /\ UNCHANGED <<host, serverDeviceID, openVars, sendVars, mainVars>>

-----------------------------------------------------------------------------
(* The open task (openTask).                                                *)

OpenGoto(pc) == openPc' = pc

\* getHostFileEntry and sscanf.  At the end of the file it rewinds.  An invalid
\* line, or no line, goes to the condition of the loop.  Reading a file that
\* fclose has released may give any line or none; its position means nothing then.
OpenGetLine ==
    /\ openPc = "line"
    /\ IF fpOpen
       THEN /\ line' = IF line >= Len(HOSTFILE) THEN 1 ELSE line + 1
            /\ oHost' = IF HOSTFILE = <<>> \/ HOSTFILE[line] = BadLine
                        THEN NoHost ELSE HOSTFILE[line]
       ELSE /\ line' = 1
            /\ oHost' \in Hosts \cup {NoHost}
    /\ OpenGoto(IF oHost' = NoHost THEN "loop" ELSE "check")
    /\ UNCHANGED <<poolVars, oSlot, sendVars, mainVars>>

OpenSkipsConnected ==
    /\ openPc = "check" /\ ConnectedToHost(oHost)
    /\ OpenGoto("loop")
    /\ UNCHANGED <<poolVars, line, oHost, oSlot, sendVars, mainVars>>

OpenFindsUnconnected ==
    /\ openPc = "check" /\ ~ConnectedToHost(oHost)
    /\ OpenGoto("free")
    /\ UNCHANGED <<poolVars, line, oHost, oSlot, sendVars, mainVars>>

\* getFreeSocketIndex returns -1.
OpenNoFreeSocket ==
    /\ openPc = "free" /\ \A s \in Slots : Opened(s)
    /\ OpenGoto("loop")
    /\ UNCHANGED <<poolVars, line, oHost, oSlot, sendVars, mainVars>>

\* setHost on the free socket.
OpenSetHost ==
    /\ openPc = "free"
    /\ \E s \in Slots :
          /\ FirstFree(s)
          /\ oSlot' = s
          /\ host' = [host EXCEPT ![s] = oHost]
    /\ OpenGoto("connect")
    /\ UNCHANGED <<link, serverDeviceID, line, oHost, sendVars, mainVars>>

\* connect() of TcpClientSocket::openProtocol.
OpenRefused ==
    /\ openPc = "connect" /\ oHost \notin Reliable
    /\ OpenGoto("close")
    /\ UNCHANGED <<poolVars, line, oHost, oSlot, sendVars, mainVars>>

OpenConnects ==
    /\ openPc = "connect"
    /\ OpenGoto("publish")
    /\ UNCHANGED <<poolVars, line, oHost, oSlot, sendVars, mainVars>>

\* IpSocket::open stores the descriptor under the socket's lock.
OpenPublish ==
    /\ openPc = "publish"
    /\ link' = [link EXCEPT ![oSlot] = "alive"]
    /\ OpenGoto("sendID")
    /\ UNCHANGED <<host, serverDeviceID, line, oHost, oSlot, sendVars, mainVars>>

OpenSendID ==
    /\ openPc = "sendID" /\ Opened(oSlot)
    /\ OpenGoto("recvID")
    /\ UNCHANGED <<poolVars, line, oHost, oSlot, sendVars, mainVars>>

\* sendClientID fails and closes the socket.
OpenSendIDFails ==
    /\ openPc = "sendID" /\ link[oSlot] # "alive"
    /\ link' = [link EXCEPT ![oSlot] = "none"]
    /\ OpenGoto("close")
    /\ UNCHANGED <<host, serverDeviceID, line, oHost, oSlot, sendVars, mainVars>>

\* recvSrvrID: recv returns a well formed ID; storing it is another step.
OpenRecvID ==
    /\ openPc = "recvID" /\ link[oSlot] = "alive"
    /\ OpenGoto("storeID")
    /\ UNCHANGED <<poolVars, line, oHost, oSlot, sendVars, mainVars>>

\* recvSrvrID: what arrives is not an ID, it closes the socket.
OpenBadID ==
    /\ openPc = "recvID" /\ link[oSlot] = "alive" /\ oHost \notin Reliable
    /\ link' = [link EXCEPT ![oSlot] = "none"]
    /\ OpenGoto("close")
    /\ UNCHANGED <<host, serverDeviceID, line, oHost, oSlot, sendVars, mainVars>>

\* recvSrvrID: the server is gone or another thread closed the socket.
OpenLostID ==
    /\ openPc = "recvID" /\ link[oSlot] # "alive"
    /\ link' = [link EXCEPT ![oSlot] = "none"]
    /\ OpenGoto("close")
    /\ UNCHANGED <<host, serverDeviceID, line, oHost, oSlot, sendVars, mainVars>>

\* serverDeviceID = ID, then connected().
OpenStoreID ==
    /\ openPc = "storeID"
    /\ serverDeviceID' = [serverDeviceID EXCEPT ![oSlot] = oHost]
    /\ OpenGoto("loop")
    /\ UNCHANGED <<link, host, line, oHost, oSlot, sendVars, mainVars>>

\* manager.close(index): the descriptor, then the ID.
OpenClose ==
    /\ openPc = "close"
    /\ link' = [link EXCEPT ![oSlot] = "none"]
    /\ OpenGoto("reset")
    /\ UNCHANGED <<host, serverDeviceID, line, oHost, oSlot, sendVars, mainVars>>

OpenReset ==
    /\ openPc = "reset"
    /\ serverDeviceID' = [serverDeviceID EXCEPT ![oSlot] = NoHost]
    /\ OpenGoto("loop")
    /\ UNCHANGED <<link, host, line, oHost, oSlot, sendVars, mainVars>>

\* The condition of the do-while; what the iteration declared is gone.
OpenLoop ==
    /\ openPc = "loop"
    /\ OpenGoto(IF m_stop THEN "closeAll" ELSE "line")
    /\ oHost' = NoHost /\ oSlot' = 0
    /\ UNCHANGED <<poolVars, line, sendVars, mainVars>>

\* closeAll at the end of openTask, one socket a step.
OpenCloseAll ==
    /\ openPc = "closeAll"
    /\ link' = [link EXCEPT ![oSlot] = "none"]
    /\ serverDeviceID' = [serverDeviceID EXCEPT ![oSlot] = NoHost]
    /\ IF oSlot + 1 \in Slots
       THEN oSlot' = oSlot + 1 /\ openPc' = openPc
       ELSE oSlot' = 0 /\ OpenGoto("done")
    /\ UNCHANGED <<host, line, oHost, sendVars, mainVars>>

-----------------------------------------------------------------------------
(* The sender (send_handler).                                               *)

\* IpSocket::send on socket s: what it returns and what it leaves of the socket.
\* The kernel may take bytes for a peer that is gone, refuse with ECONNRESET
\* (which closes the descriptor, not the ID) or with EPIPE.  A live peer that does not
\* read makes send() run into its timeout, which IpSocket reports as SEND_ERROR, or
\* take the packet in more parts than it tries (TRY_AGAIN).
SendOn(s) ==
    /\ \/ link[s] # "none" /\ sStatus' = "SUCCESS" /\ link' = link
       \/ link[s] = "alive" /\ sStatus' = "TRY_AGAIN" /\ link' = link
       \/ link[s] = "none" /\ sStatus' = "DISCONNECTED" /\ link' = link
       \/ link[s] = "gone" /\ sStatus' = "DISCONNECTED"
             /\ link' = [link EXCEPT ![s] = "none"]
       \/ link[s] # "none" /\ sStatus' = "SEND_ERROR" /\ link' = link
    /\ sTo' = IF sStatus' = "SUCCESS" THEN host[s] ELSE sTo

\* A call of the port: the header is scanned for the destination.
SendCall(d) ==
    /\ sPc = "idle"
    /\ sDest' = d
    /\ sPc' = IF d = Broadcast THEN "bcast" ELSE "mask"
    /\ UNCHANGED <<poolVars, openVars, sSlot, sStatus, sFreed, sTo, sRet, mainVars>>

\* deallocate_out and a return value.
FreeAndReturn(r) ==
    /\ sFreed' = sFreed + 1
    /\ sRet' = r
    /\ sPc' = "ret"

\* check_adjacency_matrix reads the mask file afresh: either answer.
SendMasked ==
    /\ sPc = "mask"
    /\ FreeAndReturn("ERROR")
    /\ UNCHANGED <<poolVars, openVars, sDest, sSlot, sStatus, sTo, mainVars>>

SendAllowed ==
    /\ sPc = "mask"
    /\ sPc' = "find"
    /\ UNCHANGED <<poolVars, openVars, sDest, sSlot, sStatus, sFreed, sTo, sRet, mainVars>>

SendNotConnected ==
    /\ sPc = "find" /\ ~ConnectedToID(sDest)
    /\ FreeAndReturn("ERROR")
    /\ UNCHANGED <<poolVars, openVars, sDest, sSlot, sStatus, sTo, mainVars>>

SendConnected ==
    /\ sPc = "find" /\ ConnectedToID(sDest)
    /\ sPc' = "get"
    /\ UNCHANGED <<poolVars, openVars, sDest, sSlot, sStatus, sFreed, sTo, sRet, mainVars>>

SendGetSocket ==
    /\ sPc = "get"
    /\ \E s \in Slots : ByID(sDest, s) /\ sSlot' = s
    /\ sPc' = "send"
    /\ UNCHANGED <<poolVars, openVars, sDest, sStatus, sFreed, sTo, sRet, mainVars>>

\* A fault: no deallocate_out when the send failed.
SendUnicast_KeepsUnsent ==
    /\ sPc = "send"
    /\ SendOn(sSlot)
    /\ sFreed' = IF sStatus' = "SEND_ERROR" THEN sFreed ELSE sFreed + 1
    /\ IF sStatus' = "SEND_ERROR"
       THEN sRet' = "ERROR" /\ (sPc' = "ret" \/ (link[sSlot] = "gone" /\ sPc' = "epipe"))
       ELSE sRet' = "OK" /\ sPc' = "ret"
    /\ UNCHANGED <<host, serverDeviceID, openVars, sDest, sSlot, mainVars>>

\* send, deallocate_out and the tests of status.  SEND_RETRY is assigned and then
\* overwritten by SEND_OK.  With SEND_ERROR errno is EPIPE or, after a timeout,
\* EAGAIN; the former needs a peer that is gone.
SendUnicast ==
    /\ sPc = "send"
    /\ SendOn(sSlot)
    /\ sFreed' = sFreed + 1
    /\ IF sStatus' = "SEND_ERROR"
       THEN sRet' = "ERROR" /\ (sPc' = "ret" \/ (link[sSlot] = "gone" /\ sPc' = "epipe"))
       ELSE sRet' = "OK" /\ sPc' = "ret"
    /\ UNCHANGED <<host, serverDeviceID, openVars, sDest, sSlot, mainVars>>

\* getSocketHandlerByID(receiverID).close().
SendEPipe ==
    /\ sPc = "epipe"
    /\ \E s \in Slots : ByID(sDest, s) /\ sSlot' = s
    /\ sPc' = "epipeClose"
    /\ UNCHANGED <<poolVars, openVars, sDest, sStatus, sFreed, sTo, sRet, mainVars>>

SendEPipeClose ==
    /\ sPc = "epipeClose"
    /\ link' = [link EXCEPT ![sSlot] = "none"]
    /\ sPc' = "epipeReset"
    /\ UNCHANGED <<host, serverDeviceID, openVars, sDest, sSlot, sStatus, sFreed, sTo,
                   sRet, mainVars>>

SendEPipeReset ==
    /\ sPc = "epipeReset"
    /\ serverDeviceID' = [serverDeviceID EXCEPT ![sSlot] = NoHost]
    /\ sPc' = "ret"
    /\ UNCHANGED <<link, host, openVars, sDest, sSlot, sStatus, sFreed, sTo, sRet, mainVars>>

\* One iteration of the broadcast loop: is the socket open, is its device allowed.
BroadcastSkips ==
    /\ sPc = "bcast" /\ sSlot < MAX_CLIENTS
    /\ sSlot' = sSlot + 1
    /\ UNCHANGED <<poolVars, openVars, sPc, sDest, sStatus, sFreed, sTo, sRet, mainVars>>

BroadcastChooses ==
    /\ sPc = "bcast" /\ sSlot < MAX_CLIENTS
    /\ Opened(sSlot)
    /\ sPc' = "bsend"
    /\ UNCHANGED <<poolVars, openVars, sDest, sSlot, sStatus, sFreed, sTo, sRet, mainVars>>

BroadcastSends ==
    /\ sPc = "bsend"
    /\ SendOn(sSlot)
    /\ sSlot' = sSlot + 1
    /\ sPc' = "bcast"
    /\ UNCHANGED <<host, serverDeviceID, openVars, sDest, sFreed, sRet, mainVars>>

\* The result is that of the last send; with no send, status was never assigned.
BroadcastEnds ==
    /\ sPc = "bcast" /\ sSlot = MAX_CLIENTS
    /\ \E r \in CASE sStatus = "SUCCESS" -> {"OK"}
                  [] sStatus = "uninit"  -> {"OK", "ERROR"}
                  [] OTHER               -> {"ERROR"} :
          FreeAndReturn(r)
    /\ UNCHANGED <<poolVars, openVars, sDest, sSlot, sStatus, sTo, mainVars>>

SendReturn ==
    /\ sPc = "ret"
    /\ sPc' = "idle" /\ sDest' = NoHost /\ sSlot' = 0 /\ sStatus' = "uninit"
    /\ sFreed' = 0 /\ sTo' = NoHost /\ sRet' = "none"
    /\ UNCHANGED <<poolVars, openVars, mainVars>>

-----------------------------------------------------------------------------
(* The stopping thread: shutdown, stopSocketOpenTask, joinSocketOpenTask.   *)
(* closeAll runs with m_stop FALSE (from shutdown) and again with m_stop    *)
(* TRUE (from stopSocketOpenTask).                                          *)

\* shutdown starts with fclose(fp).
MainShutdown ==
    /\ mainPc = "run"
    /\ fpOpen' = FALSE
    /\ mainPc' = "close" /\ mainK' = 0
    /\ UNCHANGED <<poolVars, openVars, sendVars, m_stop>>

MainClose ==
    /\ mainPc = "close" /\ mainK < MAX_CLIENTS
    /\ link' = [link EXCEPT ![mainK] = "none"]
    /\ mainPc' = "reset"
    /\ UNCHANGED <<host, serverDeviceID, openVars, sendVars, mainK, m_stop, fpOpen>>

MainReset ==
    /\ mainPc = "reset"
    /\ serverDeviceID' = [serverDeviceID EXCEPT ![mainK] = NoHost]
    /\ mainK' = mainK + 1
    /\ mainPc' = "close"
    /\ UNCHANGED <<link, host, openVars, sendVars, m_stop, fpOpen>>

MainClosedAll ==
    /\ mainPc = "close" /\ mainK = MAX_CLIENTS
    /\ mainK' = 0
    /\ mainPc' = IF m_stop THEN "joinOpen" ELSE "stop"
    /\ UNCHANGED <<poolVars, openVars, sendVars, m_stop, fpOpen>>

MainStopSocketOpenTask ==
    /\ mainPc = "stop"
    /\ m_stop' = TRUE
    /\ mainPc' = "close"
    /\ UNCHANGED <<poolVars, openVars, sendVars, mainK, fpOpen>>

MainJoinSocketOpenTask ==
    /\ mainPc = "joinOpen" /\ openPc = "done"
    /\ mainPc' = "joined"
    /\ UNCHANGED <<poolVars, openVars, sendVars, mainK, m_stop, fpOpen>>

-----------------------------------------------------------------------------
\* The steps of the open task that need no byte from a server.
OpenAlone ==
    \/ OpenGetLine \/ OpenSkipsConnected \/ OpenFindsUnconnected \/ OpenNoFreeSocket
    \/ OpenSetHost \/ OpenRefused \/ OpenConnects \/ OpenPublish
    \/ OpenSendID \/ OpenSendIDFails \/ OpenLostID \/ OpenStoreID
    \/ OpenClose \/ OpenReset \/ OpenLoop \/ OpenCloseAll

OpenTask == OpenAlone \/ OpenRecvID \/ OpenBadID

Sender ==
    \/ \E d \in Dests : SendCall(d)
    \/ SendMasked \/ SendAllowed \/ SendNotConnected \/ SendConnected
    \/ SendGetSocket \/ SendUnicast \/ SendEPipe \/ SendEPipeClose \/ SendEPipeReset
    \/ BroadcastSkips \/ BroadcastChooses \/ BroadcastSends \/ BroadcastEnds
    \/ SendReturn

Stopping ==
    \/ MainClose \/ MainReset \/ MainClosedAll
    \/ MainStopSocketOpenTask \/ MainJoinSocketOpenTask

Next ==
    \/ \E s \in Slots : PeerDrop(s)
    \/ OpenTask
    \/ Sender
    \/ MainShutdown
    \/ Stopping

Spec == Init /\ [][Next]_vars

\* A server answers the handshake of this client or goes away.
Answers(h) == oHost = h /\ (OpenRecvID \/ OpenBadID \/ PeerDrop(oSlot))

\* The open task and the stopping thread keep running, reliable servers answer.
ThreadSpec ==
    /\ Spec
    /\ WF_vars(OpenAlone) /\ WF_vars(Stopping)
    /\ \A h \in Reliable : WF_vars(Answers(h))

\* In addition no server leaves this client waiting in a handshake for ever.
AnsweringSpec == ThreadSpec /\ \A h \in Hosts : WF_vars(Answers(h))

-----------------------------------------------------------------------------
(* What holds.                                                              *)

\* The values the variables can have.
TypeOK ==
    /\ link \in [Slots -> {"none", "alive", "gone"}]
    /\ host \in [Slots -> Hosts \cup {NoHost}]
    /\ serverDeviceID \in [Slots -> Hosts \cup {NoHost}]
    /\ openPc \in OpenPcs
    /\ line \in Nat \ {0} /\ (HOSTFILE # <<>> => line \in Lines)
    /\ oHost \in Hosts \cup {NoHost}
    /\ oSlot \in Slots
    /\ fpOpen \in BOOLEAN
    /\ sPc \in SendPcs
    /\ sDest \in Hosts \cup {NoHost, Broadcast}
    /\ sSlot \in 0 .. MAX_CLIENTS
    /\ sPc \in {"send", "epipeClose", "epipeReset", "bsend"} => sSlot \in Slots
    /\ sStatus \in Statuses
    /\ sFreed \in Nat
    /\ sTo \in Hosts \cup {NoHost}
    /\ sRet \in Returns
    /\ mainPc \in MainPcs
    /\ mainK \in 0 .. MAX_CLIENTS
    /\ mainPc = "reset" => mainK \in Slots
    /\ m_stop \in BOOLEAN

\* IpSocket::open asserts that the socket it opens is closed.
OpensClosedSocket == openPc \in {"connect", "publish"} => ~Opened(oSlot)

\* No host is connected twice, although sockets are closed by the sender and by
\* the stopping thread between the open task's check and its connection.
OneSocketPerHost ==
    \A r, s \in Slots : Opened(r) /\ Opened(s) /\ host[r] = host[s] => r = s

\* Once its handshake is over an open socket that stores a device ID stores the ID
\* of the server it is connected to.
InHandshake(s) == openPc \in {"sendID", "recvID", "storeID"} /\ oSlot = s

IDMatchesHost ==
    \A s \in Slots :
        Opened(s) /\ serverDeviceID[s] # NoHost /\ ~InHandshake(s)
            => serverDeviceID[s] = host[s]

\* Every way through send_handler gives the packet's buffer back exactly once.
FreedOnce == sPc = "ret" => sFreed = 1

\* When openTask has returned no socket of the pool is open.
AllClosedWhenDone == openPc = "done" => \A s \in Slots : ~Opened(s)

\* The hosts of the open sockets.  A host is known by its device ID when its
\* handshake is over and its socket stores its ID.
OpenHosts == {host[s] : s \in {r \in Slots : Opened(r)}}

KnownHosts ==
    {host[s] : s \in {r \in Slots : Opened(r) /\ serverDeviceID[r] = host[r]
                                     /\ ~InHandshake(r)}}

Pool == INSTANCE ConnectionPool WITH
    Peers <- Hosts, Capacity <- MAX_CLIENTS,
    open <- OpenHosts, known <- KnownHosts, done <- openPc = "done"

\* Whatever sender, open task and stopping thread do to the sockets, the pool behaves
\* as ConnectionPool: a socket is renamed to another host only after it was closed,
\* a host is known only while its own socket is open, and nothing opens once
\* openTask has returned.
RefinesConnectionPool == Pool!Spec

\* A reliable host is connected again whenever it is not, until shutdown begins.
ConnectedTo(h) == \E s \in Slots : Opened(s) /\ host[s] = h

HostsGetConnected ==
    \A h \in Reliable : (mainPc = "run") ~> (ConnectedTo(h) \/ mainPc # "run")

\* joinSocketOpenTask returns after stopSocketOpenTask.
JoinReturns == (mainPc = "stop") ~> (mainPc = "joined")

-----------------------------------------------------------------------------
(* What the documents, comments and tests say, and the code does not do.    *)

\* sdd.md: the destination ID finds the socket "connected to the destination device".
\* SendConnected has found one, but SendGetSocket and SendUnicast look it up again and
\* write to whatever it is connected to by then.
RoutedToDestination == sDest \in Hosts /\ sTo # NoHost => sTo = sDest
=============================================================================
