------------------------- MODULE ClientPoolRefinement -------------------------
(***************************************************************************)
(* ClientPool implements ConnectionPool, for every host file and pools of  *)
(* any size: each step of its threads is a step of the abstract pool or    *)
(* changes nothing there.                                                  *)
(***************************************************************************)
EXTENDS ClientPoolProofs, FiniteSetTheorems

-----------------------------------------------------------------------------
\* The open task works on a host of the file from the check to the handshake, and
\* an open socket has the name of such a host.
NamedInv ==
    /\ openPc \in {"check", "free", "connect", "publish", "sendID", "recvID", "storeID"}
           => oHost # NoHost
    /\ \A s \in Slots : Opened(s) => host[s] # NoHost

\* Only setHost names a socket, and only a closed one.
LEMMA NextNamed == TypeOK /\ HostInv /\ NamedInv /\ [Next]_vars => NamedInv'
<1> SUFFICES ASSUME TypeOK, HostInv, NamedInv, [Next]_vars PROVE NamedInv'
  OBVIOUS
<1> USE DEF NamedInv, Opened, OpenGoto, poolVars, openVars
<1>1. CASE OpenSetHost
  BY <1>1 DEF OpenSetHost, FirstFree, TypeOK
<1>2. CASE OpenPublish
  BY <1>2 DEF OpenPublish, HostInv, TypeOK
<1>3. CASE OpenGetLine
  BY <1>3 DEF OpenGetLine
<1>4. CASE OpenTask /\ ~(OpenSetHost \/ OpenPublish \/ OpenGetLine)
  BY <1>4 DEF TypeOK, OpenTask, OpenAlone, OpenSkipsConnected, OpenFindsUnconnected,
       OpenNoFreeSocket, OpenRefused, OpenConnects, OpenSendID, OpenSendIDFails,
       OpenLostID, OpenStoreID, OpenClose, OpenReset, OpenLoop, OpenCloseAll, OpenRecvID,
       OpenBadID
<1>5. CASE Sender
  BY <1>5 DEF TypeOK, Sender, SendCall, SendMasked, SendAllowed, SendNotConnected,
       SendConnected, SendGetSocket, SendUnicast, SendEPipe, SendEPipeClose,
       SendEPipeReset, BroadcastSkips, BroadcastChooses, BroadcastSends, BroadcastEnds,
       SendReturn, SendOn, FreeAndReturn
<1>6. CASE (\E s \in Slots : PeerDrop(s)) \/ MainShutdown \/ Stopping
  BY <1>6 DEF TypeOK, PeerDrop, MainShutdown, Stopping, MainClose, MainReset,
       MainClosedAll, MainStopSocketOpenTask, MainJoinSocketOpenTask
<1>7. CASE UNCHANGED vars
  BY <1>7 DEF vars
<1> QED
  BY <1>1, <1>2, <1>3, <1>4, <1>5, <1>6, <1>7 DEF Next

LEMMA Invariants == Spec => [](TypeOK /\ SocketInv /\ HostInv /\ NamedInv)
<1>1. Init => SocketInv /\ HostInv /\ NamedInv
  BY DEF Init, SocketInv, OpensClosedSocket, AllClosedWhenDone, HostInv, OneSocketPerHost,
         NamedInv, Opened
<1>2. TypeOK /\ SocketInv /\ HostInv /\ NamedInv /\ [Next]_vars
          => SocketInv' /\ HostInv' /\ NamedInv'
  BY NextSocket, NextHost, NextNamed
<1> QED
  BY <1>1, <1>2, TypeCorrect, PTL DEF Spec

-----------------------------------------------------------------------------
(* What a step does to the sockets, and which step of the pool that is.     *)

\* A socket that is closed leaves room for one more host in the pool.
LEMMA RoomToOpen ==
    ASSUME NEW s \in Slots, ~Opened(s)
    PROVE  Pool!Cardinality(OpenHosts) < MAX_CLIENTS
<1> DEFINE Used == {r \in Slots : Opened(r)}
           name == [r \in Used |-> host[r]]
<1>1. IsFiniteSet(Slots) /\ Cardinality(Slots) = MAX_CLIENTS
  <2>1. 0 \in Int /\ MAX_CLIENTS - 1 \in Int /\ ~(0 > MAX_CLIENTS - 1)
    BY ClientConstants
  <2> QED
    BY <2>1, FS_Interval, ClientConstants DEF Slots
<1>2. /\ IsFiniteSet(Slots \ {s})
      /\ Cardinality(Slots \ {s}) = MAX_CLIENTS - 1
  BY <1>1, FS_RemoveElement
<1>3. Used \in SUBSET (Slots \ {s})
  OBVIOUS
<1>4. IsFiniteSet(Used) /\ Cardinality(Used) <= Cardinality(Slots \ {s})
  BY <1>2, <1>3, FS_Subset
<1>5. name \in Surjection(Used, OpenHosts)
  BY DEF Surjection, OpenHosts
<1>6. IsFiniteSet(OpenHosts) /\ Cardinality(OpenHosts) <= Cardinality(Used)
  BY <1>4, <1>5, FS_Surjection
<1>7. Cardinality(OpenHosts) \in Nat /\ Cardinality(Used) \in Nat
  BY <1>4, <1>6, FS_CardinalityType
<1>8. Pool!Cardinality(OpenHosts) = Cardinality(OpenHosts)
  BY DEF Cardinality, Pool!Cardinality
<1> QED
  BY <1>2, <1>4, <1>6, <1>7, <1>8, ClientConstants

\* Every open socket keeps its host, its ID and its handshake: the pool does not move.
LEMMA NothingRefines ==
    ASSUME \A s \in Slots : Opened(s)' <=> Opened(s),
           \A s \in Slots : Opened(s) => host'[s] = host[s]
                                      /\ serverDeviceID'[s] = serverDeviceID[s],
           \A s \in Slots : InHandshake(s)' <=> InHandshake(s),
           openPc' = "done" <=> openPc = "done"
    PROVE  UNCHANGED Pool!vars
<1>1. OpenHosts' = OpenHosts
  BY DEF OpenHosts
<1>2. KnownHosts' = KnownHosts
  BY DEF KnownHosts
<1>3. (openPc = "done")' = (openPc = "done")
  OBVIOUS
<1> QED
  BY <1>1, <1>2, <1>3 DEF Pool!vars

\* One socket is closed, if it was open; its ID may be reset with it.
LEMMA CloseRefines ==
    ASSUME TypeOK, HostInv, NamedInv, NEW s \in Slots, link'[s] = "none", host' = host,
           \A r \in Slots \ {s} : Opened(r)' <=> Opened(r),
           \A r \in Slots \ {s} : serverDeviceID'[r] = serverDeviceID[r],
           \A r \in Slots \ {s} : InHandshake(r)' <=> InHandshake(r),
           openPc' = "done" <=> openPc = "done"
    PROVE  [Pool!Next]_(Pool!vars)
<1>1. (openPc = "done")' = (openPc = "done")
  OBVIOUS
<1>2. ~Opened(s)'
  BY DEF Opened
<1>3. CASE Opened(s)
  <2>1. host[s] \in Hosts
    BY <1>3 DEF TypeOK, NamedInv
  <2>2. OpenHosts' = OpenHosts \ {host[s]}
    BY <1>2, <1>3 DEF OpenHosts, HostInv, OneSocketPerHost
  <2>3. KnownHosts' = KnownHosts \ {host[s]}
    BY <1>2, <1>3 DEF KnownHosts, HostInv, OneSocketPerHost
  <2>4. Pool!Close(host[s])
    BY <1>1, <2>2, <2>3 DEF Pool!Close
  <2> QED
    BY <2>1, <2>4 DEF Pool!Next
<1>4. CASE ~Opened(s)
  <2>1. OpenHosts' = OpenHosts
    BY <1>2, <1>4 DEF OpenHosts
  <2>2. KnownHosts' = KnownHosts
    BY <1>2, <1>4 DEF KnownHosts
  <2> QED
    BY <1>1, <2>1, <2>2 DEF Pool!vars
<1> QED
  BY <1>3, <1>4

\* The ID of one socket is reset.
LEMMA ForgetRefines ==
    ASSUME TypeOK, HostInv, NamedInv, NEW s \in Slots, UNCHANGED <<link, host>>,
           serverDeviceID' = [serverDeviceID EXCEPT ![s] = NoHost],
           \A r \in Slots : InHandshake(r)' <=> InHandshake(r),
           openPc' = "done" <=> openPc = "done"
    PROVE  [Pool!Next]_(Pool!vars)
<1>1. (openPc = "done")' = (openPc = "done") /\ OpenHosts' = OpenHosts
  BY DEF OpenHosts, Opened
<1>2. CASE Opened(s)
  <2>1. host[s] \in Hosts /\ host[s] # NoHost
    BY <1>2 DEF TypeOK, NamedInv
  <2>2. KnownHosts' = KnownHosts \ {host[s]}
    BY <1>2, <2>1 DEF KnownHosts, HostInv, OneSocketPerHost, Opened, TypeOK
  <2>3. Pool!Forget(host[s])
    BY <1>1, <2>2 DEF Pool!Forget
  <2> QED
    BY <2>1, <2>3 DEF Pool!Next
<1>3. CASE ~Opened(s)
  <2>1. KnownHosts' = KnownHosts
    BY <1>3 DEF KnownHosts, Opened, TypeOK
  <2> QED
    BY <1>1, <2>1 DEF Pool!vars
<1> QED
  BY <1>2, <1>3

\* IpSocket::send leaves its socket open or closes it, and touches no other.
LEMMA SendRefines ==
    ASSUME TypeOK, HostInv, NamedInv, NEW s \in Slots, SendOn(s),
           UNCHANGED <<host, serverDeviceID, openPc, oSlot>>
    PROVE  [Pool!Next]_(Pool!vars)
<1>1. \A r \in Slots : InHandshake(r)' <=> InHandshake(r)
  BY DEF InHandshake
<1>2. CASE Opened(s)' <=> Opened(s)
  <2>1. \A r \in Slots : Opened(r)' <=> Opened(r)
    BY <1>2 DEF SendOn, Opened, TypeOK
  <2> QED
    BY <1>1, <2>1, NothingRefines
<1>3. CASE link'[s] = "none" /\ Opened(s)
  <2>1. \A r \in Slots \ {s} : Opened(r)' <=> Opened(r)
    BY <1>3 DEF SendOn, Opened, TypeOK
  <2> QED
    BY <1>1, <1>3, <2>1, CloseRefines
<1> QED
  BY <1>2, <1>3 DEF SendOn, Opened, TypeOK

-----------------------------------------------------------------------------
\* The steps of the open task.
LEMMA OpenTaskRefines ==
    ASSUME TypeOK, SocketInv, HostInv, NamedInv, OpenTask
    PROVE  [Pool!Next]_(Pool!vars)
<1> USE ClientConstants DEF poolVars, OpenGoto
<1>1. CASE OpenPublish
  <2>1. /\ oSlot \in Slots /\ ~Opened(oSlot) /\ oHost \in Hosts /\ host[oSlot] = oHost
        /\ Opened(oSlot)' /\ \A r \in Slots \ {oSlot} : Opened(r)' <=> Opened(r)
        /\ UNCHANGED <<host, serverDeviceID, oSlot>>
        /\ openPc = "publish" /\ openPc' = "sendID"
    BY <1>1 DEF OpenPublish, SocketInv, OpensClosedSocket, HostInv, NamedInv, Opened, TypeOK
  <2>2. OpenHosts' = OpenHosts \cup {oHost}
    BY <2>1 DEF OpenHosts
  <2>3. oHost \notin OpenHosts
    BY <2>1 DEF OpenHosts, HostInv
  <2>4. KnownHosts' = KnownHosts
    BY <2>1 DEF KnownHosts, InHandshake
  <2>5. Pool!Cardinality(OpenHosts) < MAX_CLIENTS
    BY <2>1, RoomToOpen
  <2>6. openPc # "done" /\ (openPc = "done")' = (openPc = "done")
    BY <2>1
  <2>7. Pool!Open(oHost)
    BY <2>2, <2>3, <2>4, <2>5, <2>6 DEF Pool!Open
  <2> QED
    BY <2>1, <2>7 DEF Pool!Next
<1>2. CASE OpenStoreID
  <2>1. /\ oSlot \in Slots /\ oHost \in Hosts /\ host[oSlot] = oHost
        /\ serverDeviceID' = [serverDeviceID EXCEPT ![oSlot] = oHost]
        /\ UNCHANGED <<link, host, oSlot>>
        /\ openPc = "storeID" /\ openPc' = "loop"
    BY <1>2 DEF OpenStoreID, HostInv, NamedInv, TypeOK
  <2>2. OpenHosts' = OpenHosts /\ (openPc = "done")' = (openPc = "done")
    BY <2>1 DEF OpenHosts, Opened
  <2>3. CASE Opened(oSlot)
    <3>1. KnownHosts' = KnownHosts \cup {oHost} /\ oHost \in OpenHosts
      BY <2>1, <2>3 DEF KnownHosts, OpenHosts, InHandshake, Opened, TypeOK
    <3>2. Pool!Identify(oHost)
      BY <2>2, <3>1 DEF Pool!Identify
    <3> QED
      BY <2>1, <3>2 DEF Pool!Next
  <2>4. CASE ~Opened(oSlot)
    <3>1. KnownHosts' = KnownHosts
      BY <2>1, <2>4 DEF KnownHosts, InHandshake, Opened, TypeOK
    <3> QED
      BY <2>2, <3>1 DEF Pool!vars
  <2> QED
    BY <2>3, <2>4
<1>3. CASE OpenCloseAll
  <2>0. openPc = "closeAll" /\ openPc' \in {"closeAll", "done"}
    BY <1>3 DEF OpenCloseAll
  <2>1. /\ oSlot \in Slots /\ link'[oSlot] = "none" /\ UNCHANGED host
        /\ \A r \in Slots \ {oSlot} : Opened(r)' <=> Opened(r)
        /\ \A r \in Slots \ {oSlot} : serverDeviceID'[r] = serverDeviceID[r]
    BY <1>3 DEF OpenCloseAll, Opened, TypeOK
  <2>2. CASE openPc' = "closeAll"
    <3>1. \A r \in Slots \ {oSlot} : InHandshake(r)' <=> InHandshake(r)
      BY <2>0, <2>2 DEF InHandshake
    <3>2. openPc' = "done" <=> openPc = "done"
      BY <2>0, <2>2
    <3> QED
      BY <2>1, <3>1, <3>2, CloseRefines
  <2>3. CASE openPc' = "done"
    <3>1. \A r \in Slots : r <= oSlot
      BY <1>3, <2>1, <2>3 DEF OpenCloseAll, Slots
    <3>2. \A r \in Slots \ {oSlot} : r < oSlot
      BY <2>1, <3>1 DEF Slots
    <3>3. \A r \in Slots : ~Opened(r)'
      <4>1. \A r \in Slots \ {oSlot} : ~Opened(r)
        BY <2>0, <3>2 DEF SocketInv
      <4> QED
        BY <2>1, <4>1 DEF Opened
    <3>4. OpenHosts' = {} /\ KnownHosts' = {}
      BY <3>3 DEF OpenHosts, KnownHosts
    <3>5. Pool!Finish
      BY <2>3, <3>4 DEF Pool!Finish
    <3> QED
      BY <3>5 DEF Pool!Next
  <2> QED
    BY <2>0, <2>2, <2>3
<1>4. CASE OpenSendIDFails \/ OpenBadID \/ OpenLostID \/ OpenClose
  <2>1. /\ oSlot \in Slots /\ link'[oSlot] = "none" /\ UNCHANGED <<host, serverDeviceID, oSlot>>
        /\ \A r \in Slots \ {oSlot} : Opened(r)' <=> Opened(r)
        /\ openPc # "done" /\ openPc' # "done"
    BY <1>4 DEF OpenSendIDFails, OpenBadID, OpenLostID, OpenClose, Opened, TypeOK
  <2>2. \A r \in Slots \ {oSlot} : InHandshake(r)' <=> InHandshake(r)
    BY <2>1 DEF InHandshake
  <2> QED
    BY <2>1, <2>2, CloseRefines
<1>5. CASE OpenReset
  <2>1. /\ oSlot \in Slots /\ UNCHANGED <<link, host>>
        /\ serverDeviceID' = [serverDeviceID EXCEPT ![oSlot] = NoHost]
        /\ openPc # "done" /\ openPc' # "done"
        /\ \A r \in Slots : InHandshake(r)' <=> InHandshake(r)
    BY <1>5 DEF OpenReset, InHandshake, TypeOK
  <2> QED
    BY <2>1, ForgetRefines
<1>6. CASE OpenSetHost
  <2>1. /\ UNCHANGED <<link, serverDeviceID>>
        /\ \A r \in Slots : Opened(r) => host'[r] = host[r]
        /\ openPc # "done" /\ openPc' # "done"
        /\ \A r \in Slots : InHandshake(r)' <=> InHandshake(r)
    BY <1>6 DEF OpenSetHost, FirstFree, InHandshake, TypeOK
  <2>2. \A r \in Slots : Opened(r)' <=> Opened(r)
    BY <2>1 DEF Opened
  <2> QED
    BY <2>1, <2>2, NothingRefines
<1>7. CASE OpenGetLine \/ OpenSkipsConnected \/ OpenFindsUnconnected \/ OpenNoFreeSocket \/
           OpenRefused \/ OpenConnects \/ OpenSendID \/ OpenLoop \/ OpenRecvID
  <2>1. UNCHANGED <<link, host, serverDeviceID>> /\ openPc # "done" /\ openPc' # "done"
    BY <1>7 DEF OpenGetLine, OpenSkipsConnected, OpenFindsUnconnected, OpenNoFreeSocket,
         OpenRefused, OpenConnects, OpenSendID, OpenLoop, OpenRecvID
  <2>2. \A r \in Slots : InHandshake(r)' <=> InHandshake(r)
    BY <1>7 DEF InHandshake, OpenGetLine, OpenSkipsConnected, OpenFindsUnconnected,
         OpenNoFreeSocket, OpenRefused, OpenConnects, OpenSendID, OpenLoop, OpenRecvID
  <2>3. \A r \in Slots : Opened(r)' <=> Opened(r)
    BY <2>1 DEF Opened
  <2> QED
    BY <2>1, <2>2, <2>3, NothingRefines
<1> QED
  BY <1>1, <1>2, <1>3, <1>4, <1>5, <1>6, <1>7 DEF OpenTask, OpenAlone

\* The steps of the sender: a send may find a connection broken, EPIPE closes it.
LEMMA SenderRefines ==
    ASSUME TypeOK, HostInv, NamedInv, Sender
    PROVE  [Pool!Next]_(Pool!vars)
<1> USE DEF poolVars, openVars, FreeAndReturn
<1>1. UNCHANGED <<host, openPc, oSlot>> /\ \A r \in Slots : InHandshake(r)' <=> InHandshake(r)
  BY DEF InHandshake, Sender, SendCall, SendMasked, SendAllowed, SendNotConnected,
       SendConnected, SendGetSocket, SendUnicast, SendEPipe, SendEPipeClose,
       SendEPipeReset, BroadcastSkips, BroadcastChooses, BroadcastSends, BroadcastEnds,
       SendReturn
<1>2. CASE SendUnicast \/ BroadcastSends
  <2>1. sSlot \in Slots /\ SendOn(sSlot) /\ UNCHANGED serverDeviceID
    BY <1>2 DEF SendUnicast, BroadcastSends, TypeOK
  <2> QED
    BY <1>1, <2>1, SendRefines
<1>3. CASE SendEPipeClose
  <2>1. /\ sSlot \in Slots /\ link'[sSlot] = "none" /\ UNCHANGED serverDeviceID
        /\ \A r \in Slots \ {sSlot} : Opened(r)' <=> Opened(r)
    BY <1>3 DEF SendEPipeClose, Opened, TypeOK
  <2>2. \A r \in Slots \ {sSlot} : InHandshake(r)' <=> InHandshake(r)
    BY <1>1
  <2>3. \A r \in Slots \ {sSlot} : serverDeviceID'[r] = serverDeviceID[r]
    BY <2>1
  <2> QED
    BY <1>1, <2>1, <2>2, <2>3, CloseRefines
<1>4. CASE SendEPipeReset
  <2>1. /\ sSlot \in Slots /\ UNCHANGED link
        /\ serverDeviceID' = [serverDeviceID EXCEPT ![sSlot] = NoHost]
    BY <1>4 DEF SendEPipeReset, TypeOK
  <2> QED
    BY <1>1, <2>1, ForgetRefines
<1>5. CASE Sender /\ ~(SendUnicast \/ BroadcastSends \/ SendEPipeClose \/ SendEPipeReset)
  <2>1. UNCHANGED <<link, serverDeviceID>>
    BY <1>5 DEF Sender, SendCall, SendMasked, SendAllowed, SendNotConnected,
         SendConnected, SendGetSocket, SendEPipe, BroadcastSkips, BroadcastChooses,
         BroadcastEnds, SendReturn
  <2>2. \A r \in Slots : Opened(r)' <=> Opened(r)
    BY <2>1 DEF Opened
  <2> QED
    BY <1>1, <2>1, <2>2, NothingRefines
<1> QED
  BY <1>2, <1>3, <1>4, <1>5

\* The steps of the stopping thread and of the servers.
LEMMA OthersRefine ==
    ASSUME TypeOK, HostInv, NamedInv,
           MainShutdown \/ Stopping \/ (\E s \in Slots : PeerDrop(s)) \/ UNCHANGED vars
    PROVE  [Pool!Next]_(Pool!vars)
<1> USE DEF poolVars, openVars, vars
<1>1. UNCHANGED <<host, openPc, oSlot>> /\ \A r \in Slots : InHandshake(r)' <=> InHandshake(r)
  BY DEF InHandshake, PeerDrop, MainShutdown, Stopping, MainClose, MainReset,
       MainClosedAll, MainStopSocketOpenTask, MainJoinSocketOpenTask
<1>2. CASE MainClose
  <2>1. /\ mainK \in Slots /\ link'[mainK] = "none" /\ UNCHANGED serverDeviceID
        /\ \A r \in Slots \ {mainK} : Opened(r)' <=> Opened(r)
    BY <1>2, ClientConstants DEF MainClose, Opened, TypeOK, Slots
  <2>2. \A r \in Slots \ {mainK} : InHandshake(r)' <=> InHandshake(r)
    BY <1>1
  <2>3. \A r \in Slots \ {mainK} : serverDeviceID'[r] = serverDeviceID[r]
    BY <2>1
  <2> QED
    BY <1>1, <2>1, <2>2, <2>3, CloseRefines
<1>3. CASE MainReset
  <2>1. /\ mainK \in Slots /\ UNCHANGED link
        /\ serverDeviceID' = [serverDeviceID EXCEPT ![mainK] = NoHost]
    BY <1>3 DEF MainReset, TypeOK
  <2> QED
    BY <1>1, <2>1, ForgetRefines
<1>4. CASE \/ MainShutdown \/ MainClosedAll \/ MainStopSocketOpenTask
           \/ MainJoinSocketOpenTask \/ (\E s \in Slots : PeerDrop(s)) \/ UNCHANGED vars
  <2>1. UNCHANGED serverDeviceID /\ \A r \in Slots : Opened(r)' <=> Opened(r)
    BY <1>4 DEF PeerDrop, MainShutdown, MainClosedAll, MainStopSocketOpenTask,
         MainJoinSocketOpenTask, Opened, TypeOK
  <2> QED
    BY <1>1, <2>1, NothingRefines
<1> QED
  BY <1>2, <1>3, <1>4 DEF Stopping

\* Every behaviour of the threads is a behaviour of the pool: a host is connected only
\* below the capacity, none is known after its connection closed, no connection
\* survives openTask.
THEOREM ImplementsConnectionPool == Spec => RefinesConnectionPool
<1>1. Init => Pool!Init
  <2> SUFFICES ASSUME Init PROVE Pool!Init
    OBVIOUS
  <2>1. OpenHosts = {} /\ KnownHosts = {}
    BY DEF Init, OpenHosts, KnownHosts, Opened
  <2>2. openPc # "done"
    BY DEF Init
  <2>3. (openPc = "done") = FALSE
    BY <2>2
  <2> QED
    BY <2>1, <2>3 DEF Pool!Init
<1>2. TypeOK /\ SocketInv /\ HostInv /\ NamedInv /\ [Next]_vars => [Pool!Next]_(Pool!vars)
  BY OpenTaskRefines, SenderRefines, OthersRefine DEF Next
<1> QED
  BY <1>1, <1>2, Invariants, PTL DEF Spec, RefinesConnectionPool, Pool!Spec
===============================================================================
