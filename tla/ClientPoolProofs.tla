--------------------------- MODULE ClientPoolProofs ---------------------------
(***************************************************************************)
(* Theorems of ClientPool, for every host file, every set of hosts and     *)
(* pools of any size.                                                      *)
(***************************************************************************)
EXTENDS ClientPool, TLAPS

-----------------------------------------------------------------------------
\* The steps of the open task keep the types.
LEMMA OpenTypes ==
    ASSUME TypeOK, OpenGetLine \/ OpenSkipsConnected \/ OpenFindsUnconnected \/
                   OpenNoFreeSocket \/ OpenSetHost \/ OpenRefused \/ OpenConnects \/
                   OpenPublish \/ OpenSendID \/ OpenSendIDFails \/ OpenLostID \/
                   OpenStoreID \/ OpenClose \/ OpenReset \/ OpenLoop \/ OpenCloseAll \/
                   OpenRecvID \/ OpenBadID
    PROVE  TypeOK'
<1> USE ClientConstants DEF TypeOK, Slots, poolVars, openVars, sendVars, mainVars
<1>1. CASE OpenGetLine
  <2>1. line' \in Nat \ {0} /\ (HOSTFILE # <<>> => line' \in Lines)
    BY <1>1 DEF OpenGetLine, Lines
  <2>2. oHost' \in Hosts \cup {NoHost}
    <3>1. CASE fpOpen /\ HOSTFILE # <<>> /\ HOSTFILE[line] # BadLine
      <4>1. HOSTFILE[line] \in Hosts
        BY <3>1 DEF Lines
      <4> QED
        BY <1>1, <3>1, <4>1 DEF OpenGetLine
    <3> QED
      BY <1>1, <3>1 DEF OpenGetLine
  <2> QED
    BY <1>1, <2>1, <2>2 DEF OpenGetLine, OpenGoto, OpenPcs
<1>2. CASE OpenSkipsConnected
  BY <1>2 DEF OpenSkipsConnected, OpenGoto, OpenPcs
<1>3. CASE OpenFindsUnconnected
  BY <1>3 DEF OpenFindsUnconnected, OpenGoto, OpenPcs
<1>4. CASE OpenNoFreeSocket
  BY <1>4 DEF OpenNoFreeSocket, OpenGoto, OpenPcs
<1>5. CASE OpenSetHost
  BY <1>5 DEF OpenSetHost, OpenGoto, OpenPcs
<1>6. CASE OpenRefused
  BY <1>6 DEF OpenRefused, OpenGoto, OpenPcs
<1>7. CASE OpenConnects
  BY <1>7 DEF OpenConnects, OpenGoto, OpenPcs
<1>8. CASE OpenPublish
  BY <1>8 DEF OpenPublish, OpenGoto, OpenPcs
<1>9. CASE OpenSendID
  BY <1>9 DEF OpenSendID, OpenGoto, OpenPcs
<1>10. CASE OpenSendIDFails
  BY <1>10 DEF OpenSendIDFails, OpenGoto, OpenPcs
<1>11. CASE OpenLostID
  BY <1>11 DEF OpenLostID, OpenGoto, OpenPcs
<1>12. CASE OpenStoreID
  BY <1>12 DEF OpenStoreID, OpenGoto, OpenPcs
<1>13. CASE OpenClose
  BY <1>13 DEF OpenClose, OpenGoto, OpenPcs
<1>14. CASE OpenReset
  BY <1>14 DEF OpenReset, OpenGoto, OpenPcs
<1>15. CASE OpenLoop
  BY <1>15 DEF OpenLoop, OpenGoto, OpenPcs
<1>16. CASE OpenCloseAll
  BY <1>16 DEF OpenCloseAll, OpenGoto, OpenPcs
<1>17. CASE OpenRecvID
  BY <1>17 DEF OpenRecvID, OpenGoto, OpenPcs
<1>18. CASE OpenBadID
  BY <1>18 DEF OpenBadID, OpenGoto, OpenPcs
<1> QED
  BY <1>1, <1>2, <1>3, <1>4, <1>5, <1>6, <1>7, <1>8, <1>9, <1>10, <1>11, <1>12, <1>13,
     <1>14, <1>15, <1>16, <1>17, <1>18

\* The steps of the sender keep the types.
LEMMA SendTypes ==
    ASSUME TypeOK, SendMasked \/ SendAllowed \/ SendNotConnected \/ SendConnected \/
                   SendGetSocket \/ SendUnicast \/ SendEPipe \/ SendEPipeClose \/
                   SendEPipeReset \/ BroadcastSkips \/ BroadcastChooses \/
                   BroadcastSends \/ BroadcastEnds \/ SendReturn
    PROVE  TypeOK'
<1> USE ClientConstants DEF TypeOK, Slots, poolVars, openVars, sendVars, mainVars
<1>1. CASE SendMasked
  BY <1>1 DEF SendMasked, FreeAndReturn, SendPcs, Statuses, Returns
<1>2. CASE SendAllowed
  BY <1>2 DEF SendAllowed, SendPcs, Statuses, Returns
<1>3. CASE SendNotConnected
  BY <1>3 DEF SendNotConnected, FreeAndReturn, SendPcs, Statuses, Returns
<1>4. CASE SendConnected
  BY <1>4 DEF SendConnected, SendPcs, Statuses, Returns
<1>5. CASE SendGetSocket
  BY <1>5 DEF SendGetSocket, SendPcs, Statuses, Returns
<1>6. CASE SendUnicast
  BY <1>6 DEF SendUnicast, SendOn, SendPcs, Statuses, Returns
<1>7. CASE SendEPipe
  BY <1>7 DEF SendEPipe, SendPcs, Statuses, Returns
<1>8. CASE SendEPipeClose
  BY <1>8 DEF SendEPipeClose, SendPcs, Statuses, Returns
<1>9. CASE SendEPipeReset
  BY <1>9 DEF SendEPipeReset, SendPcs, Statuses, Returns
<1>10. CASE BroadcastSkips
  BY <1>10 DEF BroadcastSkips, SendPcs, Statuses, Returns
<1>11. CASE BroadcastChooses
  BY <1>11 DEF BroadcastChooses, SendPcs, Statuses, Returns
<1>12. CASE BroadcastSends
  BY <1>12 DEF BroadcastSends, SendOn, SendPcs, Statuses, Returns
<1>13. CASE BroadcastEnds
  BY <1>13 DEF BroadcastEnds, FreeAndReturn, SendPcs, Statuses, Returns
<1>14. CASE SendReturn
  BY <1>14 DEF SendReturn, SendPcs, Statuses, Returns
<1> QED
  BY <1>1, <1>2, <1>3, <1>4, <1>5, <1>6, <1>7, <1>8, <1>9, <1>10, <1>11, <1>12, <1>13,
     <1>14

\* The steps of the stopping thread keep the types.
LEMMA MainTypes ==
    ASSUME TypeOK, MainShutdown \/ MainClose \/ MainReset \/ MainClosedAll \/
                   MainStopSocketOpenTask \/ MainJoinSocketOpenTask
    PROVE  TypeOK'
<1> USE ClientConstants DEF TypeOK, Slots, poolVars, openVars, sendVars, mainVars
<1>1. CASE MainShutdown
  <2>1. mainK' \in 0 .. MAX_CLIENTS /\ mainPc' = "close" /\ fpOpen' = FALSE
    BY <1>1 DEF MainShutdown
  <2> QED
    BY <1>1, <2>1 DEF MainShutdown, MainPcs
<1>2. CASE MainClose
  BY <1>2 DEF MainClose, MainPcs
<1>3. CASE MainReset
  BY <1>3 DEF MainReset, MainPcs
<1>4. CASE MainClosedAll
  BY <1>4 DEF MainClosedAll, MainPcs
<1>5. CASE MainStopSocketOpenTask
  BY <1>5 DEF MainStopSocketOpenTask, MainPcs
<1>6. CASE MainJoinSocketOpenTask
  BY <1>6 DEF MainJoinSocketOpenTask, MainPcs
<1> QED
  BY <1>1, <1>2, <1>3, <1>4, <1>5, <1>6

LEMMA NextTypes == TypeOK /\ [Next]_vars => TypeOK'
<1> SUFFICES ASSUME TypeOK, [Next]_vars PROVE TypeOK'
  OBVIOUS
<1>1. ASSUME NEW s \in Slots, PeerDrop(s) PROVE TypeOK'
  BY <1>1 DEF PeerDrop, TypeOK, openVars, sendVars, mainVars
<1>2. ASSUME NEW d \in Dests, SendCall(d) PROVE TypeOK'
  BY <1>2, ClientConstants DEF SendCall, TypeOK, SendPcs, poolVars, openVars, mainVars
<1>3. CASE OpenTask
  BY <1>3, OpenTypes DEF OpenTask, OpenAlone
<1>4. CASE Sender
  BY <1>2, <1>4, SendTypes DEF Sender
<1>5. CASE MainShutdown \/ Stopping
  BY <1>5, MainTypes DEF Stopping
<1>6. CASE UNCHANGED vars
  BY <1>6 DEF vars, poolVars, openVars, sendVars, mainVars, TypeOK
<1> QED
  BY <1>1, <1>3, <1>4, <1>5, <1>6 DEF Next

\* Type correctness; every other theorem rests on it.
THEOREM TypeCorrect == Spec => []TypeOK
<1>1. Init => TypeOK
  <2> SUFFICES ASSUME Init PROVE TypeOK
    OBVIOUS
  <2>1. 0 \in Slots /\ 0 \in 0 .. MAX_CLIENTS
    BY ClientConstants DEF Slots
  <2>2. HOSTFILE # <<>> => 1 \in Lines
    BY ClientConstants DEF Lines
  <2>3. /\ openPc \in OpenPcs /\ sPc \in SendPcs /\ mainPc \in MainPcs
        /\ sStatus \in Statuses /\ sRet \in Returns
    BY DEF Init, OpenPcs, SendPcs, MainPcs, Statuses, Returns
  <2>4. /\ link \in [Slots -> {"none", "alive", "gone"}]
        /\ host \in [Slots -> Hosts \cup {NoHost}]
        /\ serverDeviceID \in [Slots -> Hosts \cup {NoHost}]
    BY DEF Init
  <2> QED
    BY <2>1, <2>2, <2>3, <2>4 DEF Init, TypeOK
<1> QED
  BY <1>1, NextTypes, PTL DEF Spec

-----------------------------------------------------------------------------
\* Only the open task opens sockets: the one it is about to open is closed, those
\* it passed in its last closeAll stay closed.
SocketInv ==
    /\ OpensClosedSocket
    /\ openPc = "closeAll" => \A s \in Slots : s < oSlot => ~Opened(s)
    /\ AllClosedWhenDone

\* Every other thread only closes.
LEMMA NextSocket == TypeOK /\ SocketInv /\ [Next]_vars => SocketInv'
<1> SUFFICES ASSUME TypeOK, SocketInv, [Next]_vars PROVE SocketInv'
  OBVIOUS
<1> USE ClientConstants DEF SocketInv, OpensClosedSocket, AllClosedWhenDone, Opened,
      poolVars, openVars, sendVars, mainVars
<1>1. CASE OpenGetLine
  BY <1>1 DEF OpenGetLine, TypeOK, OpenGoto
<1>2. CASE OpenSkipsConnected
  BY <1>2 DEF OpenSkipsConnected, TypeOK, OpenGoto
<1>3. CASE OpenFindsUnconnected
  BY <1>3 DEF OpenFindsUnconnected, TypeOK, OpenGoto
<1>4. CASE OpenNoFreeSocket
  BY <1>4 DEF OpenNoFreeSocket, TypeOK, OpenGoto
<1>5. CASE OpenSetHost
  BY <1>5 DEF OpenSetHost, TypeOK, OpenGoto, FirstFree
<1>6. CASE OpenRefused
  BY <1>6 DEF OpenRefused, TypeOK, OpenGoto
<1>7. CASE OpenConnects
  BY <1>7 DEF OpenConnects, TypeOK, OpenGoto
<1>8. CASE OpenPublish
  BY <1>8 DEF OpenPublish, TypeOK, OpenGoto
<1>9. CASE OpenSendID
  BY <1>9 DEF OpenSendID, TypeOK, OpenGoto
<1>10. CASE OpenSendIDFails
  BY <1>10 DEF OpenSendIDFails, TypeOK, OpenGoto
<1>11. CASE OpenLostID
  BY <1>11 DEF OpenLostID, TypeOK, OpenGoto
<1>12. CASE OpenStoreID
  BY <1>12 DEF OpenStoreID, TypeOK, OpenGoto
<1>13. CASE OpenClose
  BY <1>13 DEF OpenClose, TypeOK, OpenGoto
<1>14. CASE OpenReset
  BY <1>14 DEF OpenReset, TypeOK, OpenGoto
<1>15. CASE OpenLoop
  BY <1>15 DEF OpenLoop, TypeOK, OpenGoto, Slots
<1>16. CASE OpenCloseAll
  BY <1>16 DEF OpenCloseAll, TypeOK, OpenGoto, Slots
<1>17. CASE OpenRecvID
  BY <1>17 DEF OpenRecvID, TypeOK, OpenGoto
<1>18. CASE OpenBadID
  BY <1>18 DEF OpenBadID, TypeOK, OpenGoto
<1>19. CASE SendUnicast
  BY <1>19 DEF SendUnicast, SendOn, TypeOK
<1>20. CASE BroadcastSends
  BY <1>20 DEF BroadcastSends, SendOn, TypeOK
<1>21. CASE SendEPipeClose
  BY <1>21 DEF SendEPipeClose, TypeOK
<1>22. CASE MainClose
  BY <1>22 DEF MainClose, TypeOK
<1>23. ASSUME NEW s \in Slots, PeerDrop(s) PROVE SocketInv'
  BY <1>23 DEF PeerDrop, TypeOK
<1>24. ASSUME SendMasked \/ SendAllowed \/ SendNotConnected \/ SendConnected \/
            SendGetSocket \/ SendEPipe \/ SendEPipeReset \/ BroadcastSkips \/
            BroadcastChooses \/ BroadcastEnds \/ SendReturn
     PROVE  UNCHANGED <<link, openPc, oSlot>>
  BY <1>24 DEF FreeAndReturn, SendMasked, SendAllowed, SendNotConnected, SendConnected,
         SendGetSocket, SendEPipe, SendEPipeReset, BroadcastSkips, BroadcastChooses,
         BroadcastEnds, SendReturn
<1>25. ASSUME MainShutdown \/ MainReset \/ MainClosedAll \/ MainStopSocketOpenTask \/
            MainJoinSocketOpenTask
     PROVE  UNCHANGED <<link, openPc, oSlot>>
  BY <1>25 DEF MainShutdown, MainReset, MainClosedAll, MainStopSocketOpenTask,
         MainJoinSocketOpenTask
<1>26. ASSUME NEW d \in Dests, SendCall(d) PROVE UNCHANGED <<link, openPc, oSlot>>
  BY <1>26 DEF SendCall
<1>27. CASE UNCHANGED <<link, openPc, oSlot>>
  BY <1>27
<1>28. CASE UNCHANGED vars
  BY <1>28 DEF vars
<1> QED
  BY <1>1, <1>2, <1>3, <1>4, <1>5, <1>6, <1>7, <1>8, <1>9, <1>10, <1>11, <1>12, <1>13,
     <1>14, <1>15, <1>16, <1>17, <1>18, <1>19, <1>20, <1>21, <1>22, <1>23, <1>24, <1>25,
     <1>26, <1>27, <1>28
  DEF Next, OpenTask, OpenAlone, Sender, Stopping

\* IpSocket::open never finds the socket open that the open task chose.
THEOREM OpenAssertionHolds == Spec => []OpensClosedSocket
<1>1. Init => SocketInv
  BY DEF Init, SocketInv, OpensClosedSocket, AllClosedWhenDone
<1>2. TypeOK /\ SocketInv /\ [Next]_vars => SocketInv'
  BY NextSocket
<1>3. TypeOK /\ SocketInv => OpensClosedSocket
  BY DEF SocketInv
<1> QED
  BY <1>1, <1>2, <1>3, TypeCorrect, PTL DEF Spec

\* No socket outlives openTask, whatever it connected during the shutdown.
THEOREM NoSocketOutlivesOpenTask == Spec => []AllClosedWhenDone
<1>1. Init => SocketInv
  BY DEF Init, SocketInv, OpensClosedSocket, AllClosedWhenDone
<1>2. TypeOK /\ SocketInv /\ [Next]_vars => SocketInv'
  BY NextSocket
<1>3. TypeOK /\ SocketInv => AllClosedWhenDone
  BY DEF SocketInv
<1> QED
  BY <1>1, <1>2, <1>3, TypeCorrect, PTL DEF Spec

-----------------------------------------------------------------------------
\* From the check to the connection no open socket has the host the open task
\* works on, and the socket it has configured keeps that host.
HostInv ==
    /\ openPc \in {"free", "connect", "publish"} =>
           \A s \in Slots : Opened(s) => host[s] # oHost
    /\ openPc \in {"connect", "publish", "sendID", "recvID", "storeID"} =>
           host[oSlot] = oHost
    /\ OneSocketPerHost

\* The check of the host holds until the connection is made.
LEMMA NextHost == TypeOK /\ SocketInv /\ HostInv /\ [Next]_vars => HostInv'
<1> SUFFICES ASSUME TypeOK, SocketInv, HostInv, [Next]_vars PROVE HostInv'
  OBVIOUS
<1> USE ClientConstants DEF HostInv, OneSocketPerHost, Opened,
      poolVars, openVars, sendVars, mainVars
<1>1. CASE OpenGetLine
  BY <1>1 DEF OpenGetLine, TypeOK, OpenGoto
<1>2. CASE OpenSkipsConnected
  BY <1>2 DEF OpenSkipsConnected, TypeOK, OpenGoto
<1>3. CASE OpenFindsUnconnected
  BY <1>3 DEF OpenFindsUnconnected, TypeOK, OpenGoto, ConnectedToHost, CompareHost
<1>4. CASE OpenNoFreeSocket
  BY <1>4 DEF OpenNoFreeSocket, TypeOK, OpenGoto
<1>5. CASE OpenSetHost
  BY <1>5 DEF OpenSetHost, TypeOK, OpenGoto, FirstFree
<1>6. CASE OpenRefused
  BY <1>6 DEF OpenRefused, TypeOK, OpenGoto
<1>7. CASE OpenConnects
  BY <1>7 DEF OpenConnects, TypeOK, OpenGoto
<1>8. CASE OpenPublish
  BY <1>8 DEF OpenPublish, TypeOK, OpenGoto, SocketInv, OpensClosedSocket
<1>9. CASE OpenSendID
  BY <1>9 DEF OpenSendID, TypeOK, OpenGoto
<1>10. CASE OpenSendIDFails
  BY <1>10 DEF OpenSendIDFails, TypeOK, OpenGoto
<1>11. CASE OpenLostID
  BY <1>11 DEF OpenLostID, TypeOK, OpenGoto
<1>12. CASE OpenStoreID
  BY <1>12 DEF OpenStoreID, TypeOK, OpenGoto
<1>13. CASE OpenClose
  BY <1>13 DEF OpenClose, TypeOK, OpenGoto
<1>14. CASE OpenReset
  BY <1>14 DEF OpenReset, TypeOK, OpenGoto
<1>15. CASE OpenLoop
  BY <1>15 DEF OpenLoop, TypeOK, OpenGoto
<1>16. CASE OpenCloseAll
  BY <1>16 DEF OpenCloseAll, TypeOK, OpenGoto
<1>17. CASE OpenRecvID
  BY <1>17 DEF OpenRecvID, TypeOK, OpenGoto
<1>18. CASE OpenBadID
  BY <1>18 DEF OpenBadID, TypeOK, OpenGoto
<1>19. CASE SendUnicast
  BY <1>19 DEF SendUnicast, SendOn, TypeOK
<1>20. CASE BroadcastSends
  BY <1>20 DEF BroadcastSends, SendOn, TypeOK
<1>21. CASE SendEPipeClose
  BY <1>21 DEF SendEPipeClose, TypeOK
<1>22. CASE MainClose
  BY <1>22 DEF MainClose, TypeOK
<1>23. ASSUME NEW s \in Slots, PeerDrop(s) PROVE HostInv'
  BY <1>23 DEF PeerDrop, TypeOK
<1>24. ASSUME SendMasked \/ SendAllowed \/ SendNotConnected \/ SendConnected \/
            SendGetSocket \/ SendEPipe \/ SendEPipeReset \/ BroadcastSkips \/
            BroadcastChooses \/ BroadcastEnds \/ SendReturn
     PROVE  UNCHANGED <<link, host, openPc, oSlot, oHost>>
  BY <1>24 DEF FreeAndReturn, SendMasked, SendAllowed, SendNotConnected, SendConnected,
         SendGetSocket, SendEPipe, SendEPipeReset, BroadcastSkips, BroadcastChooses,
         BroadcastEnds, SendReturn
<1>25. ASSUME MainShutdown \/ MainReset \/ MainClosedAll \/ MainStopSocketOpenTask \/
            MainJoinSocketOpenTask
     PROVE  UNCHANGED <<link, host, openPc, oSlot, oHost>>
  BY <1>25 DEF MainShutdown, MainReset, MainClosedAll, MainStopSocketOpenTask,
         MainJoinSocketOpenTask
<1>26. ASSUME NEW d \in Dests, SendCall(d) PROVE UNCHANGED <<link, host, openPc, oSlot, oHost>>
  BY <1>26 DEF SendCall
<1>27. CASE UNCHANGED <<link, host, openPc, oSlot, oHost>>
  BY <1>27
<1>28. CASE UNCHANGED vars
  BY <1>28 DEF vars
<1> QED
  BY <1>1, <1>2, <1>3, <1>4, <1>5, <1>6, <1>7, <1>8, <1>9, <1>10, <1>11, <1>12, <1>13,
     <1>14, <1>15, <1>16, <1>17, <1>18, <1>19, <1>20, <1>21, <1>22, <1>23, <1>24, <1>25,
     <1>26, <1>27, <1>28
  DEF Next, OpenTask, OpenAlone, Sender, Stopping

\* No host is ever connected on two sockets.
THEOREM HostsConnectedOnce == Spec => []OneSocketPerHost
<1>1. Init => SocketInv /\ HostInv
  BY DEF Init, SocketInv, OpensClosedSocket, AllClosedWhenDone, HostInv, OneSocketPerHost,
         Opened
<1>2. TypeOK /\ SocketInv /\ HostInv /\ [Next]_vars => SocketInv' /\ HostInv'
  BY NextSocket, NextHost
<1>3. HostInv => OneSocketPerHost
  BY DEF HostInv
<1> QED
  BY <1>1, <1>2, <1>3, TypeCorrect, PTL DEF Spec

-----------------------------------------------------------------------------
\* An ID is stored for the host the socket was configured with; a reset, however
\* late, leaves no ID.
LEMMA NextID == TypeOK /\ SocketInv /\ HostInv /\ IDMatchesHost /\ [Next]_vars => IDMatchesHost'
<1> SUFFICES ASSUME TypeOK, SocketInv, HostInv, IDMatchesHost, [Next]_vars PROVE IDMatchesHost'
  OBVIOUS
<1> USE ClientConstants DEF IDMatchesHost, InHandshake, Opened,
      poolVars, openVars, sendVars, mainVars
<1>1. CASE OpenGetLine
  BY <1>1 DEF OpenGetLine, TypeOK, OpenGoto
<1>2. CASE OpenSkipsConnected
  BY <1>2 DEF OpenSkipsConnected, TypeOK, OpenGoto
<1>3. CASE OpenFindsUnconnected
  BY <1>3 DEF OpenFindsUnconnected, TypeOK, OpenGoto
<1>4. CASE OpenNoFreeSocket
  BY <1>4 DEF OpenNoFreeSocket, TypeOK, OpenGoto
<1>5. CASE OpenSetHost
  BY <1>5 DEF OpenSetHost, TypeOK, OpenGoto, FirstFree
<1>6. CASE OpenRefused
  BY <1>6 DEF OpenRefused, TypeOK, OpenGoto
<1>7. CASE OpenConnects
  BY <1>7 DEF OpenConnects, TypeOK, OpenGoto
<1>8. CASE OpenPublish
  BY <1>8 DEF OpenPublish, TypeOK, OpenGoto
<1>9. CASE OpenSendID
  BY <1>9 DEF OpenSendID, TypeOK, OpenGoto
<1>10. CASE OpenSendIDFails
  BY <1>10 DEF OpenSendIDFails, TypeOK, OpenGoto
<1>11. CASE OpenLostID
  BY <1>11 DEF OpenLostID, TypeOK, OpenGoto
<1>12. CASE OpenStoreID
  BY <1>12 DEF OpenStoreID, TypeOK, OpenGoto, HostInv
<1>13. CASE OpenClose
  BY <1>13 DEF OpenClose, TypeOK, OpenGoto
<1>14. CASE OpenReset
  BY <1>14 DEF OpenReset, TypeOK, OpenGoto
<1>15. CASE OpenLoop
  BY <1>15 DEF OpenLoop, TypeOK, OpenGoto
<1>16. CASE OpenCloseAll
  BY <1>16 DEF OpenCloseAll, TypeOK, OpenGoto
<1>17. CASE OpenRecvID
  BY <1>17 DEF OpenRecvID, TypeOK, OpenGoto
<1>18. CASE OpenBadID
  BY <1>18 DEF OpenBadID, TypeOK, OpenGoto
<1>19. CASE SendUnicast
  BY <1>19 DEF SendUnicast, SendOn, TypeOK
<1>20. CASE BroadcastSends
  BY <1>20 DEF BroadcastSends, SendOn, TypeOK
<1>21. CASE SendEPipeClose
  BY <1>21 DEF SendEPipeClose, TypeOK
<1>22. CASE MainClose
  BY <1>22 DEF MainClose, TypeOK
<1>23. ASSUME NEW s \in Slots, PeerDrop(s) PROVE IDMatchesHost'
  BY <1>23 DEF PeerDrop, TypeOK
<1>24. CASE SendEPipeReset
  BY <1>24 DEF SendEPipeReset, TypeOK
<1>25. CASE MainReset
  BY <1>25 DEF MainReset, TypeOK
<1>26. ASSUME SendMasked \/ SendAllowed \/ SendNotConnected \/ SendConnected \/
            SendGetSocket \/ SendEPipe \/ BroadcastSkips \/ BroadcastChooses \/
            BroadcastEnds \/ SendReturn
     PROVE  UNCHANGED <<link, host, serverDeviceID, openPc, oSlot>>
  BY <1>26 DEF FreeAndReturn, SendMasked, SendAllowed, SendNotConnected, SendConnected,
         SendGetSocket, SendEPipe, BroadcastSkips, BroadcastChooses, BroadcastEnds,
         SendReturn
<1>27. ASSUME MainShutdown \/ MainClosedAll \/ MainStopSocketOpenTask \/
            MainJoinSocketOpenTask
     PROVE  UNCHANGED <<link, host, serverDeviceID, openPc, oSlot>>
  BY <1>27 DEF MainShutdown, MainClosedAll, MainStopSocketOpenTask, MainJoinSocketOpenTask
<1>28. ASSUME NEW d \in Dests, SendCall(d) PROVE UNCHANGED <<link, host, serverDeviceID, openPc, oSlot>>
  BY <1>28 DEF SendCall
<1>29. CASE UNCHANGED <<link, host, serverDeviceID, openPc, oSlot>>
  BY <1>29
<1>30. CASE UNCHANGED vars
  BY <1>30 DEF vars
<1> QED
  BY <1>1, <1>2, <1>3, <1>4, <1>5, <1>6, <1>7, <1>8, <1>9, <1>10, <1>11, <1>12, <1>13,
     <1>14, <1>15, <1>16, <1>17, <1>18, <1>19, <1>20, <1>21, <1>22, <1>23, <1>24, <1>25,
     <1>26, <1>27, <1>28, <1>29, <1>30
  DEF Next, OpenTask, OpenAlone, Sender, Stopping

\* An open socket never stores the ID of a server other than its own.
THEOREM IDsMatchTheirHosts == Spec => []IDMatchesHost
<1>1. Init => SocketInv /\ HostInv /\ IDMatchesHost
  BY DEF Init, SocketInv, OpensClosedSocket, AllClosedWhenDone, HostInv, OneSocketPerHost,
         IDMatchesHost, Opened
<1>2. TypeOK /\ SocketInv /\ HostInv /\ IDMatchesHost /\ [Next]_vars
          => SocketInv' /\ HostInv' /\ IDMatchesHost'
  BY NextSocket, NextHost, NextID
<1> QED
  BY <1>1, <1>2, TypeCorrect, PTL DEF Spec

\* Outside a handshake no two open sockets store the same device ID, so the ID of a
\* packet names at most one connection that is there (TcpClientManager.cpp:73, 84).
THEOREM IDsNameOneSocket ==
    Spec => [](\A r, s \in Slots :
                  /\ Opened(r) /\ ~InHandshake(r) /\ Opened(s) /\ ~InHandshake(s)
                  /\ serverDeviceID[r] # NoHost /\ serverDeviceID[r] = serverDeviceID[s]
                  => r = s)
<1>1. IDMatchesHost /\ OneSocketPerHost =>
          \A r, s \in Slots :
              /\ Opened(r) /\ ~InHandshake(r) /\ Opened(s) /\ ~InHandshake(s)
              /\ serverDeviceID[r] # NoHost /\ serverDeviceID[r] = serverDeviceID[s]
              => r = s
  BY DEF IDMatchesHost, OneSocketPerHost
<1> QED
  BY <1>1, IDsMatchTheirHosts, HostsConnectedOnce, PTL

-----------------------------------------------------------------------------
\* The buffer is given back on the way to the return, and on no other way.
FreedInv ==
    sFreed = IF sPc \in {"ret", "epipe", "epipeClose", "epipeReset"} THEN 1 ELSE 0

\* No branch of send_handler frees twice or forgets to free.
LEMMA NextFreed == FreedInv /\ [Next]_vars => FreedInv'
<1> SUFFICES ASSUME FreedInv, [Next]_vars PROVE FreedInv'
  OBVIOUS
<1> USE ClientConstants DEF FreedInv,
      poolVars, openVars, sendVars, mainVars
<1>1. CASE SendMasked
  BY <1>1 DEF SendMasked, FreeAndReturn
<1>2. CASE SendAllowed
  BY <1>2 DEF SendAllowed
<1>3. CASE SendNotConnected
  BY <1>3 DEF SendNotConnected, FreeAndReturn
<1>4. CASE SendConnected
  BY <1>4 DEF SendConnected
<1>5. CASE SendGetSocket
  BY <1>5 DEF SendGetSocket
<1>6. CASE SendUnicast
  BY <1>6 DEF SendUnicast
<1>7. CASE SendEPipe
  BY <1>7 DEF SendEPipe
<1>8. CASE SendEPipeClose
  BY <1>8 DEF SendEPipeClose
<1>9. CASE SendEPipeReset
  BY <1>9 DEF SendEPipeReset
<1>10. CASE BroadcastSkips
  BY <1>10 DEF BroadcastSkips
<1>11. CASE BroadcastChooses
  BY <1>11 DEF BroadcastChooses
<1>12. CASE BroadcastSends
  BY <1>12 DEF BroadcastSends
<1>13. CASE BroadcastEnds
  BY <1>13 DEF BroadcastEnds, FreeAndReturn
<1>14. CASE SendReturn
  BY <1>14 DEF SendReturn
<1>15. ASSUME NEW d \in Dests, SendCall(d) PROVE FreedInv'
  BY <1>15 DEF SendCall
<1>16. ASSUME OpenGetLine \/ OpenSkipsConnected \/ OpenFindsUnconnected \/
            OpenNoFreeSocket \/ OpenSetHost \/ OpenRefused \/ OpenConnects \/
            OpenPublish \/ OpenSendID \/ OpenSendIDFails \/ OpenLostID \/ OpenStoreID \/
            OpenClose \/ OpenReset \/ OpenLoop \/ OpenCloseAll \/ OpenRecvID \/
            OpenBadID
     PROVE  UNCHANGED <<sPc, sFreed>>
  BY <1>16 DEF OpenGoto, OpenGetLine, OpenSkipsConnected, OpenFindsUnconnected,
         OpenNoFreeSocket, OpenSetHost, OpenRefused, OpenConnects, OpenPublish,
         OpenSendID, OpenSendIDFails, OpenLostID, OpenStoreID, OpenClose, OpenReset,
         OpenLoop, OpenCloseAll, OpenRecvID, OpenBadID
<1>17. ASSUME MainShutdown \/ MainClose \/ MainReset \/ MainClosedAll \/
            MainStopSocketOpenTask \/ MainJoinSocketOpenTask
     PROVE  UNCHANGED <<sPc, sFreed>>
  BY <1>17 DEF MainShutdown, MainClose, MainReset, MainClosedAll, MainStopSocketOpenTask,
         MainJoinSocketOpenTask
<1>18. ASSUME NEW s \in Slots, PeerDrop(s) PROVE UNCHANGED <<sPc, sFreed>>
  BY <1>18 DEF PeerDrop
<1>19. CASE UNCHANGED <<sPc, sFreed>>
  BY <1>19
<1>20. CASE UNCHANGED vars
  BY <1>20 DEF vars
<1> QED
  BY <1>1, <1>2, <1>3, <1>4, <1>5, <1>6, <1>7, <1>8, <1>9, <1>10, <1>11, <1>12, <1>13,
     <1>14, <1>15, <1>16, <1>17, <1>18, <1>19, <1>20
  DEF Next, OpenTask, OpenAlone, Sender, Stopping

\* When send_handler returns it has called deallocate_out exactly once.
THEOREM BufferFreedOnce == Spec => []FreedOnce
<1>1. Init => FreedInv
  BY DEF Init, FreedInv
<1>2. FreedInv => FreedOnce
  BY DEF FreedInv, FreedOnce
<1> QED
  BY <1>1, <1>2, NextFreed, PTL DEF Spec


-----------------------------------------------------------------------------
(* What compareHost leaves of the pool.                                      *)

\* No two open sockets have hosts that compareHost takes for the same.
OnePerPrefix ==
    \A r, s \in Slots : Opened(r) /\ Opened(s) /\ CompareHost(s, host[r]) => r = s

\* From the check to the connection no open socket has a host that compareHost takes
\* for the one the open task works on.
PrefixInv ==
    /\ openPc \in {"free", "connect", "publish"} => ~ConnectedToHost(oHost)
    /\ OnePerPrefix

\* The steps that open nothing and set no host: sockets close, or stay as they are.
LEMMA KeepsPrefixes ==
    ASSUME PrefixInv, host' = host, \A s \in Slots : Opened(s)' => Opened(s),
           openPc' \in {"free", "connect", "publish"} =>
               openPc \in {"free", "connect", "publish"} /\ oHost' = oHost
    PROVE  PrefixInv'
  BY DEF PrefixInv, OnePerPrefix, ConnectedToHost, CompareHost

LEMMA NextPrefix == TypeOK /\ SocketInv /\ HostInv /\ PrefixInv /\ [Next]_vars => PrefixInv'
<1> SUFFICES ASSUME TypeOK, SocketInv, HostInv, PrefixInv, [Next]_vars PROVE PrefixInv'
  OBVIOUS
<1> DEFINE Keeps ==
      /\ host' = host /\ \A s \in Slots : Opened(s)' => Opened(s)
      /\ openPc' \in {"free", "connect", "publish"} =>
             openPc \in {"free", "connect", "publish"} /\ oHost' = oHost
<1> USE DEF poolVars, openVars, sendVars, mainVars
<1>1. CASE OpenFindsUnconnected
  BY <1>1 DEF OpenFindsUnconnected, OpenGoto, PrefixInv, OnePerPrefix, ConnectedToHost,
       CompareHost, Opened
<1>2. CASE OpenSetHost
  <2>1. PICK s \in Slots : ~Opened(s) /\ host' = [host EXCEPT ![s] = oHost]
    BY <1>2 DEF OpenSetHost, FirstFree
  <2>2. /\ \A r \in Slots : Opened(r)' = Opened(r) /\ (Opened(r) => host'[r] = host[r])
        /\ openPc = "free" /\ oHost' = oHost
    BY <1>2, <2>1 DEF OpenSetHost, Opened, TypeOK
  <2> QED
    BY <2>2 DEF PrefixInv, OnePerPrefix, ConnectedToHost, CompareHost
<1>3. CASE OpenPublish
  <2>1. /\ openPc = "publish" /\ openPc' = "sendID" /\ host' = host /\ host[oSlot] = oHost
        /\ \A r \in Slots : Opened(r)' => Opened(r) \/ r = oSlot
    BY <1>3 DEF OpenPublish, OpenGoto, Opened, TypeOK, HostInv
  <2>2. \A r \in Slots : Opened(r) => Prefix[host[r]] # Prefix[oHost]
    BY <2>1 DEF PrefixInv, ConnectedToHost, CompareHost
  <2> QED
    BY <2>1, <2>2 DEF PrefixInv, OnePerPrefix, CompareHost
<1>4. CASE OpenTask /\ ~OpenFindsUnconnected /\ ~OpenSetHost /\ ~OpenPublish
  <2>1. CASE OpenGetLine
    BY <2>1, KeepsPrefixes DEF OpenGetLine, OpenGoto, Opened, TypeOK
  <2>2. CASE OpenSkipsConnected
    BY <2>2, KeepsPrefixes DEF OpenSkipsConnected, OpenGoto, Opened, TypeOK
  <2>3. CASE OpenNoFreeSocket
    BY <2>3, KeepsPrefixes DEF OpenNoFreeSocket, OpenGoto, Opened, TypeOK
  <2>4. CASE OpenRefused
    BY <2>4, KeepsPrefixes DEF OpenRefused, OpenGoto, Opened, TypeOK
  <2>5. CASE OpenConnects
    BY <2>5, KeepsPrefixes DEF OpenConnects, OpenGoto, Opened, TypeOK
  <2>6. CASE OpenSendID
    BY <2>6, KeepsPrefixes DEF OpenSendID, OpenGoto, Opened, TypeOK
  <2>7. CASE OpenSendIDFails
    BY <2>7, KeepsPrefixes DEF OpenSendIDFails, OpenGoto, Opened, TypeOK
  <2>8. CASE OpenLostID
    BY <2>8, KeepsPrefixes DEF OpenLostID, OpenGoto, Opened, TypeOK
  <2>9. CASE OpenStoreID
    BY <2>9, KeepsPrefixes DEF OpenStoreID, OpenGoto, Opened, TypeOK
  <2>10. CASE OpenClose
    BY <2>10, KeepsPrefixes DEF OpenClose, OpenGoto, Opened, TypeOK
  <2>11. CASE OpenReset
    BY <2>11, KeepsPrefixes DEF OpenReset, OpenGoto, Opened, TypeOK
  <2>12. CASE OpenLoop
    BY <2>12, KeepsPrefixes DEF OpenLoop, OpenGoto, Opened, TypeOK
  <2>13. CASE OpenCloseAll
    BY <2>13, KeepsPrefixes DEF OpenCloseAll, OpenGoto, Opened, TypeOK
  <2>14. CASE OpenRecvID
    BY <2>14, KeepsPrefixes DEF OpenRecvID, OpenGoto, Opened, TypeOK
  <2>15. CASE OpenBadID
    BY <2>15, KeepsPrefixes DEF OpenBadID, OpenGoto, Opened, TypeOK
  <2> QED
    BY <1>4, <2>1, <2>2, <2>3, <2>4, <2>5, <2>6, <2>7, <2>8, <2>9, <2>10, <2>11, <2>12, <2>13, <2>14, <2>15
    DEF OpenTask, OpenAlone
<1>5. CASE Sender
  <2>1. host' = host /\ openPc' = openPc /\ oHost' = oHost
    BY <1>5 DEF Sender, SendCall, FreeAndReturn, SendMasked, SendAllowed, SendNotConnected,
         SendConnected, SendGetSocket, SendUnicast, SendEPipe, SendEPipeClose, SendEPipeReset,
         BroadcastSkips, BroadcastChooses, BroadcastSends, BroadcastEnds, SendReturn
  <2>2. \A s \in Slots : Opened(s)' => Opened(s)
    <3>1. CASE SendUnicast \/ BroadcastSends
      BY <3>1 DEF SendUnicast, BroadcastSends, SendOn, Opened, TypeOK
    <3>2. CASE SendEPipeClose
      BY <3>2 DEF SendEPipeClose, Opened, TypeOK
    <3>3. CASE link' = link
      BY <3>3 DEF Opened
    <3> QED
      BY <1>5, <3>1, <3>2, <3>3 DEF Sender, SendCall, SendMasked, SendAllowed,
         SendNotConnected, SendConnected, SendGetSocket, SendEPipe, SendEPipeReset,
         BroadcastSkips, BroadcastChooses, BroadcastEnds, SendReturn
  <2> QED
    BY <2>1, <2>2, KeepsPrefixes
<1>6. CASE MainShutdown \/ Stopping
  <2>1. host' = host /\ openPc' = openPc /\ oHost' = oHost
    BY <1>6 DEF Stopping, MainShutdown, MainClose, MainReset, MainClosedAll,
         MainStopSocketOpenTask, MainJoinSocketOpenTask
  <2>2. \A s \in Slots : Opened(s)' => Opened(s)
    BY <1>6 DEF Stopping, MainShutdown, MainClose, MainReset, MainClosedAll,
         MainStopSocketOpenTask, MainJoinSocketOpenTask, Opened, TypeOK
  <2> QED
    BY <2>1, <2>2, KeepsPrefixes
<1>7. ASSUME NEW s \in Slots, PeerDrop(s) PROVE PrefixInv'
  BY <1>7, KeepsPrefixes DEF PeerDrop, Opened, TypeOK
<1>8. CASE UNCHANGED vars
  BY <1>8, KeepsPrefixes DEF vars, Opened
<1> QED
  BY <1>1, <1>2, <1>3, <1>4, <1>5, <1>6, <1>7, <1>8 DEF Next

\* compareHost looks at sizeof(pointer) characters of an address (MultiTcpClientSocket.cpp:112).
\* Whatever those are, the pool never has two connections to hosts that agree in them: of
\* the hosts with one prefix and one port at most one is connected at a time.
THEOREM OneHostPerPrefix == Spec => []OnePerPrefix
<1>1. Init => SocketInv /\ HostInv /\ PrefixInv
  BY DEF Init, SocketInv, OpensClosedSocket, AllClosedWhenDone, HostInv, OneSocketPerHost,
         PrefixInv, OnePerPrefix, Opened
<1>2. TypeOK /\ SocketInv /\ HostInv /\ PrefixInv /\ [Next]_vars
          => SocketInv' /\ HostInv' /\ PrefixInv'
  BY NextSocket, NextHost, NextPrefix
<1>3. PrefixInv => OnePerPrefix
  BY DEF PrefixInv
<1> QED
  BY <1>1, <1>2, <1>3, TypeCorrect, PTL DEF Spec

-----------------------------------------------------------------------------
(* What stopSocketOpenTask leaves to do.                                     *)

\* How far a place of openTask is from its return when m_stop is set.
OpenRank(pc) ==
    CASE pc = "done" -> 0
      [] pc = "closeAll" -> 1
      [] pc = "loop" -> 2
      [] pc \in {"reset", "storeID"} -> 3
      [] pc = "close" -> 4
      [] pc = "recvID" -> 5
      [] pc = "sendID" -> 6
      [] pc = "publish" -> 7
      [] pc = "connect" -> 8
      [] pc = "free" -> 9
      [] pc = "check" -> 10
      [] pc = "line" -> 11

LEMMA OpenRanks ==
  /\ OpenRank("done") = 0 /\ OpenRank("closeAll") = 1 /\ OpenRank("loop") = 2
  /\ OpenRank("reset") = 3 /\ OpenRank("storeID") = 3 /\ OpenRank("close") = 4
  /\ OpenRank("recvID") = 5 /\ OpenRank("sendID") = 6 /\ OpenRank("publish") = 7
  /\ OpenRank("connect") = 8 /\ OpenRank("free") = 9 /\ OpenRank("check") = 10
  /\ OpenRank("line") = 11
BY DEF OpenRank

\* m_stop stays set; every step of openTask takes it nearer to its return or on to the
\* next socket of closeAll.
OpenWindsDown ==
    m_stop => /\ m_stop'
              /\ <<openPc, oSlot>>' # <<openPc, oSlot>>
                    => \/ OpenRank(openPc') < OpenRank(openPc)
                       \/ openPc = "closeAll" /\ openPc' = openPc
                             /\ oSlot' = oSlot + 1 /\ oSlot' \in Slots

LEMMA OpenTaskWindsDown == ASSUME OpenTask, m_stop PROVE OpenWindsDown
<1> USE DEF OpenGoto, OpenWindsDown, mainVars
<1>1. CASE OpenGetLine
  BY <1>1, OpenRanks DEF OpenGetLine
<1>2. CASE OpenSkipsConnected
  BY <1>2, OpenRanks DEF OpenSkipsConnected
<1>3. CASE OpenFindsUnconnected
  BY <1>3, OpenRanks DEF OpenFindsUnconnected
<1>4. CASE OpenNoFreeSocket
  BY <1>4, OpenRanks DEF OpenNoFreeSocket
<1>5. CASE OpenSetHost
  BY <1>5, OpenRanks DEF OpenSetHost
<1>6. CASE OpenRefused
  BY <1>6, OpenRanks DEF OpenRefused
<1>7. CASE OpenConnects
  BY <1>7, OpenRanks DEF OpenConnects
<1>8. CASE OpenPublish
  BY <1>8, OpenRanks DEF OpenPublish
<1>9. CASE OpenSendID
  BY <1>9, OpenRanks DEF OpenSendID
<1>10. CASE OpenSendIDFails
  BY <1>10, OpenRanks DEF OpenSendIDFails
<1>11. CASE OpenLostID
  BY <1>11, OpenRanks DEF OpenLostID
<1>12. CASE OpenStoreID
  BY <1>12, OpenRanks DEF OpenStoreID
<1>13. CASE OpenClose
  BY <1>13, OpenRanks DEF OpenClose
<1>14. CASE OpenReset
  BY <1>14, OpenRanks DEF OpenReset
<1>15. CASE OpenLoop
  BY <1>15, OpenRanks DEF OpenLoop
<1>16. CASE OpenRecvID
  BY <1>16, OpenRanks DEF OpenRecvID
<1>17. CASE OpenBadID
  BY <1>17, OpenRanks DEF OpenBadID
<1>18. CASE OpenCloseAll
  BY <1>18, OpenRanks DEF OpenCloseAll
<1> QED
  BY <1>1, <1>2, <1>3, <1>4, <1>5, <1>6, <1>7, <1>8, <1>9, <1>10, <1>11, <1>12, <1>13, <1>14, <1>15, <1>16, <1>17, <1>18
  DEF OpenTask, OpenAlone

\* After stopSocketOpenTask the open task has a bounded number of steps left, whatever the
\* host file says, whatever servers answer and whatever the sender closes: it reads at most
\* one more line and connects at most once more.
THEOREM StopEndsOpenTask == Spec => [][OpenWindsDown]_vars
<1>1. [Next]_vars => [OpenWindsDown]_vars
  <2> SUFFICES ASSUME m_stop, Next PROVE OpenWindsDown
    BY DEF OpenWindsDown
  <2>1. CASE OpenTask
    BY <2>1, OpenTaskWindsDown
  <2>2. ASSUME Sender \/ \E s \in Slots : PeerDrop(s)
        PROVE  UNCHANGED <<openPc, oSlot, m_stop>>
    BY <2>2 DEF PeerDrop, Sender, SendCall, FreeAndReturn, SendMasked, SendAllowed,
         SendNotConnected, SendConnected, SendGetSocket, SendUnicast, SendEPipe,
         SendEPipeClose, SendEPipeReset, BroadcastSkips, BroadcastChooses, BroadcastSends,
         BroadcastEnds, SendReturn, openVars, mainVars
  <2>3. ASSUME MainShutdown \/ Stopping PROVE UNCHANGED <<openPc, oSlot>> /\ m_stop'
    BY <2>3 DEF Stopping, MainShutdown, MainClose, MainReset, MainClosedAll,
         MainStopSocketOpenTask, MainJoinSocketOpenTask, openVars
  <2> QED
    BY <2>1, <2>2, <2>3 DEF Next, OpenWindsDown
<1> QED
  BY <1>1, PTL DEF Spec
===============================================================================
