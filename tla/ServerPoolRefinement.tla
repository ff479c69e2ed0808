------------------------- MODULE ServerPoolRefinement -------------------------
(***************************************************************************)
(* ServerPool implements ConnectionPool, for every number of clients,      *)
(* sockets and tasks: each step of its threads is a step of the abstract   *)
(* pool or changes nothing there.                                          *)
(***************************************************************************)
EXTENDS ServerPoolProofs

-----------------------------------------------------------------------------
\* A connection is in one place: the kernel's queue, the accept thread's hand, or
\* one socket of the pool.
PlaceInv ==
    /\ accPc = "publish" => accFd \in Conns
    /\ accPc # "publish" => accFd = NoConn
    /\ accFd \notin backlog
    /\ \A s \in Slots : Opened(s) => sock[s] \notin backlog /\ sock[s] # accFd
    /\ \A r, s \in Slots : Opened(r) /\ sock[r] = sock[s] => r = s

\* Only closing a socket, or nothing at all, happens to the places.
LEMMA ClosingKeepsPlaces ==
    ASSUME PlaceInv, \A s \in Slots : sock'[s] \in {sock[s], NoConn},
           UNCHANGED accFd, accPc' = "publish" <=> accPc = "publish", backlog' \subseteq backlog
    PROVE  PlaceInv'
BY DEF PlaceInv, Opened

\* The steps of the accept thread that move no connection into a place.
LEMMA AcceptMovesNothing ==
    ASSUME TypeOK, AcceptLoop \/ AcceptHead \/ AcceptNothing \/ AcceptIncLoad \/
                   AcceptIncStore \/ AcceptCloseCheck \/ AcceptCloseLoad \/
                   AcceptCloseStore \/ AcceptSendID \/ AcceptStartTask \/ AcceptNoTask \/
                   AcceptReap \/ AcceptReaped \/ AcceptDone \/ AcceptRecvID
    PROVE  /\ UNCHANGED <<sock, accFd, backlog>>
           /\ accPc' = "publish" <=> accPc = "publish"
BY DEF peerVars, slotVars, AcceptLoop, AcceptHead, AcceptNothing, AcceptIncLoad,
       AcceptIncStore, AcceptCloseCheck, AcceptCloseLoad, AcceptCloseStore, AcceptSendID,
       AcceptStartTask, AcceptNoTask, AcceptReap, AcceptReaped, AcceptDone, AcceptRecvID

\* A connection never is in two places at once.
LEMMA NextPlace == TypeOK /\ PlaceInv /\ [Next]_vars => PlaceInv'
<1> SUFFICES ASSUME TypeOK, PlaceInv, [Next]_vars PROVE PlaceInv'
  OBVIOUS
<1> USE ConstantsAssumption DEF peerVars, slotVars, accVars, rdVars
<1>1. ASSUME NEW c \in Conns, PeerConnect(c) PROVE PlaceInv'
  <2>1. c \notin backlog \cup OpenFds \cup {accFd}
    BY <1>1 DEF PeerConnect, Forgotten
  <2>2. \A s \in Slots : Opened(s) => sock[s] # c
    BY <2>1 DEF OpenFds, Opened
  <2> QED
    BY <1>1, <2>1, <2>2 DEF PeerConnect, PlaceInv, Opened
<1>2. ASSUME NEW c \in Conns, PeerClose(c) PROVE PlaceInv'
  BY <1>2, ClosingKeepsPlaces DEF PeerClose
<1>3. CASE AcceptClient
  BY <1>3 DEF AcceptClient, PlaceInv, Opened, TypeOK
<1>4. CASE AcceptPublish
  BY <1>4 DEF AcceptPublish, PlaceInv, Opened, TypeOK
<1>5. CASE AcceptBadID \/ AcceptLostID \/ AcceptSendIDFails \/ AcceptCloseAll
  <2>1. \A s \in Slots : sock'[s] \in {sock[s], NoConn}
    BY <1>5 DEF AcceptBadID, AcceptLostID, AcceptSendIDFails, AcceptCloseAll, TypeOK
  <2>2. UNCHANGED <<accFd, backlog>> /\ (accPc' = "publish" <=> accPc = "publish")
    BY <1>5 DEF AcceptBadID, AcceptLostID, AcceptSendIDFails, AcceptCloseAll
  <2> QED
    BY <2>1, <2>2, ClosingKeepsPlaces
<1>6. CASE AcceptTask /\ ~(AcceptClient \/ AcceptPublish \/ AcceptBadID \/ AcceptLostID
                            \/ AcceptNoTimeouts \/ AcceptSendIDFails \/ AcceptCloseAll)
  BY <1>6, AcceptMovesNothing, ClosingKeepsPlaces DEF AcceptTask, AcceptAlone
<1>7. ASSUME NEW t \in Tasks, ReadTask(t) PROVE PlaceInv'
  <2>1. \A s \in Slots : sock'[s] \in {sock[s], NoConn}
    BY <1>7 DEF ReadTask, ReaderAlone, ReaderStart, ReaderCheck, ReaderRecv, ReaderData,
         ReaderDisconnected, ReaderHandlerClose, ReaderHandlerReset, ReaderClose,
         ReaderCloseCheck, ReaderCloseLoad, ReaderCloseStore, CloseOwn, TypeOK
  <2>2. UNCHANGED <<accFd, accPc, backlog>>
    BY <1>7 DEF ReadTask, ReaderAlone, ReaderStart, ReaderCheck, ReaderRecv, ReaderData,
         ReaderDisconnected, ReaderHandlerClose, ReaderHandlerReset, ReaderClose,
         ReaderCloseCheck, ReaderCloseLoad, ReaderCloseStore, CloseOwn
  <2> QED
    BY <2>1, <2>2, ClosingKeepsPlaces
<1>8. CASE MainShutdown \/ Stopping
  <2>1. \A s \in Slots : sock'[s] \in {sock[s], NoConn}
    BY <1>8 DEF Stopping, MainShutdown, MainClose, MainReset, MainClosedAll,
         MainStopAcceptTask, MainJoinAcceptTask, TypeOK
  <2>2. UNCHANGED <<accFd, accPc>> /\ backlog' \subseteq backlog
    BY <1>8 DEF Stopping, MainShutdown, MainClose, MainReset, MainClosedAll,
         MainStopAcceptTask, MainJoinAcceptTask
  <2> QED
    BY <2>1, <2>2, ClosingKeepsPlaces
<1>9. CASE UNCHANGED vars
  BY <1>9, ClosingKeepsPlaces DEF vars
<1>10. CASE AcceptNoTimeouts
  <2>1. /\ \A s \in Slots : sock'[s] \in {sock[s], NoConn}
        /\ UNCHANGED accFd /\ (accPc' = "publish" <=> accPc = "publish")
        /\ backlog' \subseteq backlog
    BY <1>10 DEF AcceptNoTimeouts
  <2> QED
    BY <2>1, ClosingKeepsPlaces
<1> QED
  BY <1>1, <1>2, <1>3, <1>4, <1>5, <1>6, <1>7, <1>8, <1>9, <1>10 DEF Next, Peer

LEMMA PlacesInvariant == Spec => []PlaceInv
<1>1. Init => PlaceInv
  BY DEF Init, PlaceInv, Opened
<1> QED
  BY <1>1, NextPlace, TypeCorrect, PTL DEF Spec

-----------------------------------------------------------------------------
(* What a step does to the slots, and which step of the pool that is.       *)

\* A socket that is closed leaves room for one more connection in the pool.
LEMMA RoomToOpen ==
    ASSUME TypeOK, NEW s \in Slots, ~Opened(s)
    PROVE  Cardinality(OpenFds) < MAX_CLIENTS
<1> DEFINE Used == {r \in Slots : Opened(r)}
           fd == [r \in Used |-> sock[r]]
<1>1. IsFiniteSet(Slots) /\ Cardinality(Slots) = MAX_CLIENTS
  <2>1. 0 \in Int /\ MAX_CLIENTS - 1 \in Int /\ ~(0 > MAX_CLIENTS - 1)
    BY ConstantsAssumption
  <2> QED
    BY <2>1, FS_Interval, ConstantsAssumption DEF Slots
<1>2. /\ IsFiniteSet(Slots \ {s})
      /\ Cardinality(Slots \ {s}) = MAX_CLIENTS - 1
  BY <1>1, FS_RemoveElement
<1>3. Used \in SUBSET (Slots \ {s})
  OBVIOUS
<1>4. IsFiniteSet(Used) /\ Cardinality(Used) <= Cardinality(Slots \ {s})
  BY <1>2, <1>3, FS_Subset
<1>5. fd \in Surjection(Used, OpenFds)
  BY DEF Surjection, OpenFds, Opened, TypeOK
<1>6. IsFiniteSet(OpenFds) /\ Cardinality(OpenFds) <= Cardinality(Used)
  BY <1>4, <1>5, FS_Surjection
<1>7. Cardinality(OpenFds) \in Nat /\ Cardinality(Used) \in Nat
  BY <1>4, <1>6, FS_CardinalityType
<1> QED
  BY <1>2, <1>4, <1>6, <1>7, ConstantsAssumption

\* Slots and handshakes as they were: the pool does not move.
LEMMA NothingRefines ==
    ASSUME UNCHANGED <<sock, clientDeviceID>>,
           \A s \in Slots : Opened(s) /\ clientDeviceID[s] = sock[s]
                                => (InHandshake(s)' <=> InHandshake(s)),
           accPc' = "done" <=> accPc = "done"
    PROVE  UNCHANGED Pool!vars
<1>1. OpenFds' = OpenFds
  BY DEF OpenFds
<1>2. KnownConns' = KnownConns
  BY DEF KnownConns, Opened
<1>3. (accPc = "done")' = (accPc = "done")
  OBVIOUS
<1> QED
  BY <1>1, <1>2, <1>3 DEF Pool!vars

\* One socket is closed; its ID may be reset with it.
LEMMA CloseRefines ==
    ASSUME TypeOK, PlaceInv, NEW s \in Slots, sock' = [sock EXCEPT ![s] = NoConn],
           \A r \in Slots \ {s} : clientDeviceID'[r] = clientDeviceID[r],
           \A r \in Slots \ {s} : InHandshake(r)' <=> InHandshake(r),
           accPc' = "done" <=> accPc = "done"
    PROVE  [Pool!Next]_(Pool!vars)
<1> USE ConstantsAssumption
<1>1. (accPc = "done")' = (accPc = "done")
  OBVIOUS
<1>2. CASE Opened(s)
  <2>1. sock[s] \in Conns
    BY <1>2 DEF Opened, TypeOK
  <2>2. OpenFds' = OpenFds \ {sock[s]}
    BY <1>2 DEF OpenFds, PlaceInv, Opened, TypeOK
  <2>3. KnownConns' = KnownConns \ {sock[s]}
    BY <1>2 DEF KnownConns, PlaceInv, Opened, TypeOK
  <2>4. Pool!Close(sock[s])
    BY <1>1, <2>2, <2>3 DEF Pool!Close
  <2> QED
    BY <2>1, <2>4 DEF Pool!Next
<1>3. CASE ~Opened(s)
  <2>1. OpenFds' = OpenFds
    BY <1>3 DEF OpenFds, Opened, TypeOK
  <2>2. KnownConns' = KnownConns
    BY <1>3 DEF KnownConns, Opened, TypeOK
  <2> QED
    BY <1>1, <2>1, <2>2 DEF Pool!vars
<1> QED
  BY <1>2, <1>3

\* The ID of one socket is reset.
LEMMA ForgetRefines ==
    ASSUME TypeOK, PlaceInv, NEW s \in Slots, UNCHANGED sock,
           clientDeviceID' = [clientDeviceID EXCEPT ![s] = NoConn],
           \A r \in Slots : InHandshake(r)' <=> InHandshake(r),
           accPc' = "done" <=> accPc = "done"
    PROVE  [Pool!Next]_(Pool!vars)
<1> USE ConstantsAssumption
<1>1. (accPc = "done")' = (accPc = "done") /\ OpenFds' = OpenFds
  BY DEF OpenFds
<1>2. CASE Opened(s)
  <2>1. sock[s] \in Conns
    BY <1>2 DEF Opened, TypeOK
  <2>2. KnownConns' = KnownConns \ {sock[s]}
    BY <1>2 DEF KnownConns, PlaceInv, Opened, TypeOK
  <2>3. Pool!Forget(sock[s])
    BY <1>1, <2>2 DEF Pool!Forget
  <2> QED
    BY <2>1, <2>3 DEF Pool!Next
<1>3. CASE ~Opened(s)
  <2>1. KnownConns' = KnownConns
    BY <1>3 DEF KnownConns, Opened, TypeOK
  <2> QED
    BY <1>1, <2>1 DEF Pool!vars
<1> QED
  BY <1>2, <1>3

-----------------------------------------------------------------------------
\* The steps of the accept thread.
LEMMA AcceptRefines ==
    ASSUME TypeOK, SocketInv, IDInv, PlaceInv, AcceptTask
    PROVE  [Pool!Next]_(Pool!vars)
<1> USE ConstantsAssumption DEF peerVars, slotVars
<1>1. CASE AcceptPublish
  <2>1. /\ clientFd \in Slots /\ ~Opened(clientFd) /\ accFd \in Conns
        /\ sock' = [sock EXCEPT ![clientFd] = accFd]
        /\ UNCHANGED <<clientDeviceID, clientFd>>
        /\ accPc = "publish" /\ accPc' = "incLoad"
    BY <1>1 DEF AcceptPublish, PlaceInv, SocketInv, OpensClosedSocket, TypeOK
  <2>2. OpenFds' = OpenFds \cup {accFd} /\ accFd \notin OpenFds
    <3>1. accFd \notin OpenFds
      BY <2>1 DEF OpenFds, PlaceInv, Opened
    <3>2. \A s \in Slots : sock'[s] = IF s = clientFd THEN accFd ELSE sock[s]
      BY <2>1 DEF TypeOK
    <3>3. sock[clientFd] = NoConn /\ accFd # NoConn
      BY <2>1 DEF Opened
    <3>4. OpenFds' = OpenFds \cup {accFd}
      BY <2>1, <3>2, <3>3 DEF OpenFds
    <3> QED
      BY <3>1, <3>4
  <2>3. KnownConns' = KnownConns
    BY <2>1 DEF KnownConns, InHandshake, Opened, TypeOK
  <2>4. Pool!Cardinality(OpenFds) < MAX_CLIENTS
    <3>1. Pool!Cardinality(OpenFds) = Cardinality(OpenFds)
      BY DEF Cardinality, Pool!Cardinality
    <3> QED
      BY <2>1, <3>1, RoomToOpen
  <2>5. accPc # "done" /\ (accPc = "done")' = (accPc = "done")
    BY <2>1
  <2>6. Pool!Open(accFd)
    BY <2>2, <2>3, <2>4, <2>5 DEF Pool!Open
  <2> QED
    BY <2>1, <2>6 DEF Pool!Next
<1>2. CASE AcceptRecvID
  <2>1. /\ clientFd \in Slots /\ Opened(clientFd)
        /\ clientDeviceID' = [clientDeviceID EXCEPT ![clientFd] = sock[clientFd]]
        /\ UNCHANGED <<sock, clientFd>>
        /\ accPc = "recvID" /\ accPc' = "sendID"
    BY <1>2 DEF AcceptRecvID, TypeOK
  <2>2. sock[clientFd] \in Conns /\ sock[clientFd] \in OpenFds /\ OpenFds' = OpenFds
    BY <2>1 DEF OpenFds, Opened, TypeOK
  <2>3. KnownConns' = KnownConns \cup {sock[clientFd]}
    BY <2>1 DEF KnownConns, InHandshake, Opened, TypeOK
  <2>4. (accPc = "done")' = (accPc = "done")
    BY <2>1
  <2>5. Pool!Identify(sock[clientFd])
    BY <2>2, <2>3, <2>4 DEF Pool!Identify
  <2> QED
    BY <2>2, <2>5 DEF Pool!Next
<1>3. CASE AcceptDone
  <2>1. accPc' = "done" /\ UNCHANGED sock
    BY <1>3 DEF AcceptDone
  <2>2. \A s \in Slots : sock'[s] = NoConn
    BY <1>3 DEF AcceptDone, SocketInv, Opened, Slots
  <2>3. OpenFds' = {} /\ KnownConns' = {}
    BY <2>2 DEF OpenFds, KnownConns, Opened
  <2>4. Pool!Finish
    BY <2>1, <2>3 DEF Pool!Finish
  <2> QED
    BY <2>4 DEF Pool!Next
<1>4. CASE AcceptBadID \/ AcceptLostID \/ AcceptSendIDFails
  <2>1. /\ clientFd \in Slots
        /\ sock' = [sock EXCEPT ![clientFd] = NoConn]
        /\ UNCHANGED clientDeviceID
        /\ accPc' # "done" /\ accPc # "done"
        /\ \A r \in Slots \ {clientFd} : InHandshake(r)' <=> InHandshake(r)
    BY <1>4 DEF AcceptBadID, AcceptLostID, AcceptSendIDFails, TypeOK, InHandshake
  <2> QED
    BY <2>1, CloseRefines
<1>5. CASE AcceptCloseAll
  <2>1. /\ cursor \in Slots
        /\ sock' = [sock EXCEPT ![cursor] = NoConn]
        /\ clientDeviceID' = [clientDeviceID EXCEPT ![cursor] = NoConn]
        /\ accPc' # "done" /\ accPc # "done"
        /\ \A r \in Slots : InHandshake(r)' <=> InHandshake(r)
    BY <1>5 DEF AcceptCloseAll, TypeOK, InHandshake, Slots
  <2>2. \A r \in Slots \ {cursor} : clientDeviceID'[r] = clientDeviceID[r]
    BY <2>1 DEF TypeOK
  <2> QED
    BY <2>1, <2>2, CloseRefines
<1>6. CASE AcceptCloseCheck
  <2>1. /\ clientFd \in Slots
        /\ clientDeviceID' = [clientDeviceID EXCEPT ![clientFd] = NoConn]
        /\ UNCHANGED sock
        /\ accPc' # "done" /\ accPc # "done"
        /\ \A r \in Slots : InHandshake(r)' <=> InHandshake(r)
    BY <1>6 DEF AcceptCloseCheck, TypeOK, InHandshake
  <2> QED
    BY <2>1, ForgetRefines
<1>7. CASE AcceptIncStore
  <2>1. /\ UNCHANGED <<sock, clientDeviceID, clientFd>>
        /\ accPc = "incStore" /\ accPc' = IF ID_PROTOCOL THEN "recvID" ELSE "findTask"
    BY <1>7 DEF AcceptIncStore
  <2>2. ASSUME NEW s \in Slots, Opened(s), clientDeviceID[s] = sock[s]
        PROVE  InHandshake(s)' <=> InHandshake(s)
    BY <2>1, <2>2 DEF InHandshake, IDInv, Opened
  <2> QED
    BY <2>1, <2>2, NothingRefines
<1>8. CASE AcceptLoop \/ AcceptHead \/ AcceptNothing \/ AcceptClient \/ AcceptIncLoad \/
           AcceptNoTimeouts \/
           AcceptCloseLoad \/ AcceptCloseStore \/ AcceptSendID \/ AcceptStartTask \/
           AcceptNoTask \/ AcceptReap \/ AcceptReaped
  <2>1. /\ UNCHANGED <<sock, clientDeviceID>>
        /\ accPc' # "done" /\ accPc # "done"
        /\ \A s \in Slots : InHandshake(s)' <=> InHandshake(s)
    BY <1>8 DEF InHandshake, AcceptLoop, AcceptHead, AcceptNothing, AcceptClient,
         AcceptNoTimeouts,
         AcceptIncLoad, AcceptCloseLoad, AcceptCloseStore, AcceptSendID, AcceptStartTask,
         AcceptNoTask, AcceptReap, AcceptReaped
  <2> QED
    BY <2>1, NothingRefines
<1> QED
  BY <1>1, <1>2, <1>3, <1>4, <1>5, <1>6, <1>7, <1>8 DEF AcceptTask, AcceptAlone

\* The steps of a read thread: it closes its socket and resets its ID.
LEMMA ReaderRefines ==
    ASSUME TypeOK, PlaceInv, NEW t \in Tasks, ReadTask(t)
    PROVE  [Pool!Next]_(Pool!vars)
<1> USE DEF peerVars, slotVars, accVars, CloseOwn
<1>1. /\ rdIndex[t] \in Slots
      /\ \A s \in Slots : InHandshake(s)' <=> InHandshake(s)
      /\ accPc' = "done" <=> accPc = "done"
  BY DEF TypeOK, InHandshake, ReadTask, ReaderAlone, ReaderStart, ReaderCheck, ReaderRecv,
         ReaderData, ReaderDisconnected, ReaderHandlerClose, ReaderHandlerReset,
         ReaderClose, ReaderCloseCheck, ReaderCloseLoad, ReaderCloseStore
<1>2. CASE ReaderDisconnected(t) \/ ReaderHandlerClose(t) \/ ReaderClose(t)
  <2>1. sock' = [sock EXCEPT ![rdIndex[t]] = NoConn] /\ UNCHANGED clientDeviceID
    BY <1>2 DEF ReaderDisconnected, ReaderHandlerClose, ReaderClose
  <2> QED
    BY <1>1, <2>1, CloseRefines
<1>3. CASE ReaderHandlerReset(t) \/ ReaderCloseCheck(t)
  <2>1. /\ UNCHANGED sock
        /\ clientDeviceID' = [clientDeviceID EXCEPT ![rdIndex[t]] = NoConn]
    BY <1>3 DEF ReaderHandlerReset, ReaderCloseCheck
  <2> QED
    BY <1>1, <2>1, ForgetRefines
<1>4. CASE ReaderStart(t) \/ ReaderCheck(t) \/ ReaderRecv(t) \/ ReaderData(t) \/
           ReaderCloseLoad(t) \/ ReaderCloseStore(t)
  <2>1. UNCHANGED <<sock, clientDeviceID>>
    BY <1>4 DEF ReaderStart, ReaderCheck, ReaderRecv, ReaderData, ReaderCloseLoad,
         ReaderCloseStore
  <2> QED
    BY <1>1, <2>1, NothingRefines
<1> QED
  BY <1>2, <1>3, <1>4 DEF ReadTask, ReaderAlone

\* The steps of the stopping thread and of the clients.
LEMMA OthersRefine ==
    ASSUME TypeOK, PlaceInv,
           MainShutdown \/ Stopping \/ (\E c \in Conns : Peer(c)) \/ UNCHANGED vars
    PROVE  [Pool!Next]_(Pool!vars)
<1> USE ConstantsAssumption DEF slotVars, accVars, vars
<1>1. CASE MainClose
  <2>1. /\ mainK \in Slots
        /\ sock' = [sock EXCEPT ![mainK] = NoConn]
        /\ UNCHANGED <<clientDeviceID, accPc, clientFd>>
    BY <1>1 DEF MainClose, TypeOK, Slots
  <2>2. \A r \in Slots : InHandshake(r)' <=> InHandshake(r)
    BY <2>1 DEF InHandshake
  <2> QED
    BY <2>1, <2>2, CloseRefines
<1>2. CASE MainReset
  <2>1. /\ mainK \in Slots
        /\ clientDeviceID' = [clientDeviceID EXCEPT ![mainK] = NoConn]
        /\ UNCHANGED <<sock, accPc, clientFd>>
    BY <1>2 DEF MainReset, TypeOK
  <2>2. \A r \in Slots : InHandshake(r)' <=> InHandshake(r)
    BY <2>1 DEF InHandshake
  <2> QED
    BY <2>1, <2>2, ForgetRefines
<1>3. CASE \/ MainShutdown \/ MainClosedAll \/ MainStopAcceptTask \/ MainJoinAcceptTask
           \/ (\E c \in Conns : Peer(c)) \/ UNCHANGED vars
  <2>1. UNCHANGED <<sock, clientDeviceID, accPc, clientFd>>
    BY <1>3 DEF MainShutdown, MainClosedAll, MainStopAcceptTask, MainJoinAcceptTask, Peer,
         PeerConnect, PeerClose
  <2>2. \A r \in Slots : InHandshake(r)' <=> InHandshake(r)
    BY <2>1 DEF InHandshake
  <2> QED
    BY <2>1, <2>2, NothingRefines
<1> QED
  BY <1>1, <1>2, <1>3 DEF Stopping

\* Every behaviour of the threads is a behaviour of the pool: a connection is opened
\* only below the capacity, whatever the unlocked count says; none is known after it
\* closed, none survives acceptTask.
THEOREM ImplementsConnectionPool == Spec => RefinesConnectionPool
<1>1. Init => Pool!Init
  <2> SUFFICES ASSUME Init PROVE Pool!Init
    OBVIOUS
  <2>1. OpenFds = {} /\ KnownConns = {}
    BY DEF Init, OpenFds, KnownConns, Opened
  <2>2. accPc # "done"
    BY DEF Init
  <2>3. (accPc = "done") = FALSE
    BY <2>2
  <2> QED
    BY <2>1, <2>3 DEF Pool!Init
<1>2. Init => SocketInv /\ IDInv
  BY DEF Init, SocketInv, OpensClosedSocket, AllClosedWhenDone, IDInv, ClientIDMatches,
         Opened
<1>3. TypeOK /\ SocketInv /\ IDInv /\ PlaceInv /\ [Next]_vars => [Pool!Next]_(Pool!vars)
  BY AcceptRefines, ReaderRefines, OthersRefine DEF Next
<1> QED
  BY <1>1, <1>2, <1>3, NextSocket, NextID, TypeCorrect, PlacesInvariant, PTL
     DEF Spec, RefinesConnectionPool, Pool!Spec
===============================================================================
