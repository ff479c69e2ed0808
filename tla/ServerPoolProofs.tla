-------------------------- MODULE ServerPoolProofs --------------------------
(***************************************************************************)
(* Proofs about ServerPool for every number of clients, sockets and tasks. *)
(***************************************************************************)
EXTENDS ServerPool, FiniteSetTheorems, TLAPS

\* The variables of every tuple that an UNCHANGED of ServerPool names.
USE DEF Slots, Tasks, ConstantsAssumption
-----------------------------------------------------------------------------
\* The initial values are in their types.
LEMMA InitType == Init => TypeOK
<1> SUFFICES ASSUME Init PROVE TypeOK
  OBVIOUS
<1>1. 0 \in Slots
  BY ConstantsAssumption
<1>2.
    /\ conn \in [Conns -> {"alive", "gone"}]
    /\ backlog \subseteq Conns
    /\ listening \in BOOLEAN
    /\ sock \in [Slots -> Conns \cup {NoConn}]
    /\ clientDeviceID \in [Slots -> Conns \cup {NoConn}]
    /\ nConnected \in Int
  BY DEF Init
<1>3.
    /\ accPc \in AccPcs
    /\ accPc \in {"publish", "incLoad", "incStore", "recvID", "sendID", "closeCheck",
                  "findTask"} => clientFd \in Slots
  BY DEF Init, AccPcs
<1>4. clientFd \in Slots \cup {-1}
  BY DEF Init
<1>5.
    /\ accFd \in Conns \cup {NoConn}
    /\ accTmp \in Int
    /\ cursor \in Nat
    /\ join_status \in {0, EBUSY}
    /\ params \in Slots
    /\ taskCount \in Nat
    /\ started \subseteq Tasks
  BY <1>1 DEF Init
<1>6.
    /\ rdPc \in [Tasks -> RdPcs]
    /\ rdIndex \in [Tasks -> Slots]
    /\ rdConn \in [Tasks -> Conns \cup {NoConn}]
    /\ \A t \in Tasks : rdPc[t] = "blocked" => rdConn[t] \in Conns
    /\ rdTmp \in [Tasks -> Int]
  BY <1>1 DEF Init, RdPcs
<1>7.
    /\ mainPc \in MainPcs
    /\ mainK \in Nat
    /\ mainPc = "reset" => mainK \in Slots
    /\ m_stop \in BOOLEAN
  BY DEF Init, MainPcs
<1> QED
  BY <1>2, <1>3, <1>4, <1>5, <1>6, <1>7 DEF TypeOK

\* No step takes a variable out of its type.
LEMMA NextType == TypeOK /\ [Next]_vars => TypeOK'
<1> SUFFICES ASSUME TypeOK, [Next]_vars PROVE TypeOK'
  OBVIOUS
<1> USE ConstantsAssumption DEF TypeOK, AccPcs, RdPcs, MainPcs, EBUSY,
      peerVars, slotVars, poolVars, accVars, rdVars, mainVars
<1>1. ASSUME NEW c \in Conns, PeerConnect(c) PROVE TypeOK'
  BY <1>1 DEF PeerConnect
<1>2. ASSUME NEW c \in Conns, PeerClose(c) PROVE TypeOK'
  BY <1>2 DEF PeerClose
<1>3. CASE AcceptLoop
  BY <1>3 DEF AcceptLoop
<1>4. CASE AcceptHead
  BY <1>4 DEF AcceptHead
<1>5. CASE AcceptNothing
  BY <1>5 DEF AcceptNothing
<1>6. CASE AcceptClient \/ AcceptNoTimeouts
  BY <1>6 DEF AcceptClient, AcceptNoTimeouts
<1>7. CASE AcceptPublish
  BY <1>7 DEF AcceptPublish
<1>8. CASE AcceptIncLoad
  BY <1>8 DEF AcceptIncLoad
<1>9. CASE AcceptIncStore
  BY <1>9 DEF AcceptIncStore
<1>10. CASE AcceptLostID
  BY <1>10 DEF AcceptLostID
<1>11. CASE AcceptCloseCheck
  BY <1>11 DEF AcceptCloseCheck
<1>12. CASE AcceptCloseLoad
  BY <1>12 DEF AcceptCloseLoad
<1>13. CASE AcceptCloseStore
  BY <1>13 DEF AcceptCloseStore
<1>14. CASE AcceptSendID
  BY <1>14 DEF AcceptSendID
<1>15. CASE AcceptSendIDFails
  BY <1>15 DEF AcceptSendIDFails
<1>16. CASE AcceptStartTask
  BY <1>16 DEF AcceptStartTask
<1>17. CASE AcceptNoTask
  BY <1>17 DEF AcceptNoTask
<1>18. CASE AcceptReap
  <2> USE <1>18 DEF AcceptReap
  <2>1. JoinAnswer(cursor) \in {0, EBUSY}
    BY DEF JoinAnswer
  <2>2. taskCount' \in Nat
    OBVIOUS
  <2>3. started' \subseteq Tasks
    OBVIOUS
  <2>4. rdPc' \in [Tasks -> RdPcs]
    OBVIOUS
  <2>5. \A t \in Tasks : rdPc'[t] = "blocked" => rdConn[t] \in Conns
    OBVIOUS
  <2> QED
    BY <2>1, <2>2, <2>3, <2>4, <2>5
<1>19. CASE AcceptReaped
  BY <1>19 DEF AcceptReaped
<1>20. CASE AcceptCloseAll
  BY <1>20 DEF AcceptCloseAll
<1>21. CASE AcceptDone
  BY <1>21 DEF AcceptDone
<1>22. CASE AcceptRecvID
  BY <1>22 DEF AcceptRecvID
<1>23. CASE AcceptBadID
  BY <1>23 DEF AcceptBadID
<1>24. ASSUME NEW t \in Tasks, ReaderStart(t) PROVE TypeOK'
  <2> USE <1>24 DEF ReaderStart, Goto
  <2>1. rdPc' \in [Tasks -> RdPcs]
    OBVIOUS
  <2>2. \A u \in Tasks : rdPc'[u] = "blocked" => rdConn'[u] \in Conns
    OBVIOUS
  <2> QED
    BY <2>1, <2>2
<1>25. ASSUME NEW t \in Tasks, ReaderCheck(t) PROVE TypeOK'
  <2> USE <1>25 DEF ReaderCheck, Goto
  <2>1. rdPc' \in [Tasks -> RdPcs]
    OBVIOUS
  <2>2. \A u \in Tasks : rdPc'[u] = "blocked" => rdConn'[u] \in Conns
    OBVIOUS
  <2> QED
    BY <2>1, <2>2
<1>26. ASSUME NEW t \in Tasks, ReaderRecv(t) PROVE TypeOK'
  <2> USE <1>26 DEF ReaderRecv, Goto, Opened
  <2>1. rdConn' \in [Tasks -> Conns \cup {NoConn}]
    OBVIOUS
  <2>2. rdPc' \in [Tasks -> RdPcs]
    OBVIOUS
  <2>3. \A u \in Tasks : rdPc'[u] = "blocked" => rdConn'[u] \in Conns
    OBVIOUS
  <2> QED
    BY <2>1, <2>2, <2>3
<1>27. ASSUME NEW t \in Tasks, ReaderData(t) PROVE TypeOK'
  <2> USE <1>27 DEF ReaderData, Goto
  <2>1. rdConn' \in [Tasks -> Conns \cup {NoConn}]
    OBVIOUS
  <2>2. rdPc' \in [Tasks -> RdPcs]
    OBVIOUS
  <2>3. \A u \in Tasks : rdPc'[u] = "blocked" => rdConn'[u] \in Conns
    OBVIOUS
  <2> QED
    BY <2>1, <2>2, <2>3
<1>28. ASSUME NEW t \in Tasks, ReaderDisconnected(t) PROVE TypeOK'
  <2> USE <1>28 DEF ReaderDisconnected, Goto, CloseOwn
  <2>1. sock' \in [Slots -> Conns \cup {NoConn}]
    OBVIOUS
  <2>2. rdConn' \in [Tasks -> Conns \cup {NoConn}]
    OBVIOUS
  <2>3. rdPc' \in [Tasks -> RdPcs]
    OBVIOUS
  <2>4. \A u \in Tasks : rdPc'[u] = "blocked" => rdConn'[u] \in Conns
    OBVIOUS
  <2> QED
    BY <2>1, <2>2, <2>3, <2>4
<1>29. ASSUME NEW t \in Tasks, ReaderHandlerClose(t) PROVE TypeOK'
  <2> USE <1>29 DEF ReaderHandlerClose, Goto, CloseOwn
  <2>1. sock' \in [Slots -> Conns \cup {NoConn}]
    OBVIOUS
  <2>2. rdPc' \in [Tasks -> RdPcs]
    OBVIOUS
  <2>3. \A u \in Tasks : rdPc'[u] = "blocked" => rdConn'[u] \in Conns
    OBVIOUS
  <2> QED
    BY <2>1, <2>2, <2>3
<1>30. ASSUME NEW t \in Tasks, ReaderHandlerReset(t) PROVE TypeOK'
  <2> USE <1>30 DEF ReaderHandlerReset, Goto
  <2>1. rdPc' \in [Tasks -> RdPcs]
    OBVIOUS
  <2>2. \A u \in Tasks : rdPc'[u] = "blocked" => rdConn'[u] \in Conns
    OBVIOUS
  <2> QED
    BY <2>1, <2>2
<1>31. ASSUME NEW t \in Tasks, ReaderClose(t) PROVE TypeOK'
  <2> USE <1>31 DEF ReaderClose, Goto, CloseOwn
  <2>1. sock' \in [Slots -> Conns \cup {NoConn}]
    OBVIOUS
  <2>2. rdPc' \in [Tasks -> RdPcs]
    OBVIOUS
  <2>3. \A u \in Tasks : rdPc'[u] = "blocked" => rdConn'[u] \in Conns
    OBVIOUS
  <2> QED
    BY <2>1, <2>2, <2>3
<1>32. ASSUME NEW t \in Tasks, ReaderCloseCheck(t) PROVE TypeOK'
  <2> USE <1>32 DEF ReaderCloseCheck, Goto
  <2>1. rdPc' \in [Tasks -> RdPcs]
    OBVIOUS
  <2>2. \A u \in Tasks : rdPc'[u] = "blocked" => rdConn'[u] \in Conns
    OBVIOUS
  <2> QED
    BY <2>1, <2>2
<1>33. ASSUME NEW t \in Tasks, ReaderCloseLoad(t) PROVE TypeOK'
  <2> USE <1>33 DEF ReaderCloseLoad, Goto
  <2>1. rdPc' \in [Tasks -> RdPcs]
    OBVIOUS
  <2>2. \A u \in Tasks : rdPc'[u] = "blocked" => rdConn'[u] \in Conns
    OBVIOUS
  <2> QED
    BY <2>1, <2>2
<1>34. ASSUME NEW t \in Tasks, ReaderCloseStore(t) PROVE TypeOK'
  <2> USE <1>34 DEF ReaderCloseStore, Goto
  <2>1. rdPc' \in [Tasks -> RdPcs]
    OBVIOUS
  <2>2. \A u \in Tasks : rdPc'[u] = "blocked" => rdConn'[u] \in Conns
    OBVIOUS
  <2> QED
    BY <2>1, <2>2
<1>35. CASE MainShutdown
  BY <1>35 DEF MainShutdown
<1>36. CASE MainClose
  BY <1>36 DEF MainClose
<1>37. CASE MainReset
  BY <1>37 DEF MainReset
<1>38. CASE MainClosedAll
  BY <1>38 DEF MainClosedAll
<1>39. CASE MainStopAcceptTask
  BY <1>39 DEF MainStopAcceptTask
<1>40. CASE MainJoinAcceptTask
  BY <1>40 DEF MainJoinAcceptTask
<1>41. CASE UNCHANGED vars
  BY <1>41 DEF vars
<1> QED
  BY <1>1, <1>2, <1>3, <1>4, <1>5, <1>6, <1>7, <1>8, <1>9, <1>10, <1>11, <1>12, <1>13, <1>14, <1>15, <1>16, <1>17, <1>18, <1>19, <1>20, <1>21, <1>22, <1>23, <1>24, <1>25, <1>26, <1>27, <1>28, <1>29, <1>30, <1>31, <1>32, <1>33, <1>34, <1>35, <1>36, <1>37, <1>38, <1>39, <1>40, <1>41
     DEF Next, Peer, AcceptTask, AcceptAlone, ReadTask, ReaderAlone, Stopping

THEOREM TypeCorrect == Spec => []TypeOK
<1>1. Init => TypeOK
  BY InitType
<1>2. TypeOK /\ [Next]_vars => TypeOK'
  BY NextType
<1> QED
  BY <1>1, <1>2, PTL DEF Spec
-----------------------------------------------------------------------------
\* Only startAcceptTask's start, the reaping loop and the threads themselves move a
\* task between "no thread" and "a thread".
LEMMA NextThreadPerStartedTask == TypeOK /\ ThreadPerStartedTask /\ [Next]_vars => ThreadPerStartedTask'
<1> SUFFICES ASSUME TypeOK, ThreadPerStartedTask, [Next]_vars PROVE ThreadPerStartedTask'
  OBVIOUS
<1> USE ConstantsAssumption DEF ThreadPerStartedTask,
      peerVars, slotVars, poolVars, accVars, rdVars, mainVars
<1>1. CASE AcceptStartTask
  BY <1>1 DEF AcceptStartTask, FirstNotStarted, TypeOK
<1>2. CASE AcceptReap
  BY <1>2 DEF AcceptReap, JoinAnswer, TypeOK, EBUSY
<1>3. ASSUME NEW t \in Tasks, ReaderStart(t) PROVE ThreadPerStartedTask'
  BY <1>3 DEF ReaderStart, Goto, TypeOK, RdPcs
<1>4. ASSUME NEW t \in Tasks, ReaderCheck(t) PROVE ThreadPerStartedTask'
  BY <1>4 DEF ReaderCheck, Goto, TypeOK, RdPcs
<1>5. ASSUME NEW t \in Tasks, ReaderRecv(t) PROVE ThreadPerStartedTask'
  BY <1>5 DEF ReaderRecv, Goto, TypeOK, RdPcs
<1>6. ASSUME NEW t \in Tasks, ReaderData(t) PROVE ThreadPerStartedTask'
  BY <1>6 DEF ReaderData, Goto, TypeOK, RdPcs
<1>7. ASSUME NEW t \in Tasks, ReaderDisconnected(t) PROVE ThreadPerStartedTask'
  BY <1>7 DEF ReaderDisconnected, Goto, TypeOK, RdPcs
<1>8. ASSUME NEW t \in Tasks, ReaderHandlerClose(t) PROVE ThreadPerStartedTask'
  BY <1>8 DEF ReaderHandlerClose, Goto, TypeOK, RdPcs
<1>9. ASSUME NEW t \in Tasks, ReaderHandlerReset(t) PROVE ThreadPerStartedTask'
  BY <1>9 DEF ReaderHandlerReset, Goto, TypeOK, RdPcs
<1>10. ASSUME NEW t \in Tasks, ReaderClose(t) PROVE ThreadPerStartedTask'
  BY <1>10 DEF ReaderClose, Goto, TypeOK, RdPcs
<1>11. ASSUME NEW t \in Tasks, ReaderCloseCheck(t) PROVE ThreadPerStartedTask'
  BY <1>11 DEF ReaderCloseCheck, Goto, TypeOK, RdPcs
<1>12. ASSUME NEW t \in Tasks, ReaderCloseLoad(t) PROVE ThreadPerStartedTask'
  BY <1>12 DEF ReaderCloseLoad, Goto, TypeOK, RdPcs
<1>13. ASSUME NEW t \in Tasks, ReaderCloseStore(t) PROVE ThreadPerStartedTask'
  BY <1>13 DEF ReaderCloseStore, Goto, TypeOK, RdPcs
<1>14. ASSUME AcceptLoop \/ AcceptHead \/ AcceptNothing \/ AcceptClient \/ AcceptPublish \/
            AcceptNoTimeouts \/ AcceptIncLoad \/ AcceptIncStore \/ AcceptLostID \/ AcceptCloseCheck \/
            AcceptCloseLoad \/ AcceptCloseStore \/ AcceptSendID \/ AcceptSendIDFails \/
            AcceptNoTask \/ AcceptReaped \/ AcceptCloseAll \/ AcceptDone \/ AcceptRecvID \/
            AcceptBadID \/ MainShutdown \/ MainClose \/ MainReset \/ MainClosedAll \/
            MainStopAcceptTask \/ MainJoinAcceptTask
     PROVE  UNCHANGED <<started, rdPc>>
  BY <1>14 DEF AcceptLoop, AcceptHead, AcceptNothing, AcceptClient, AcceptPublish,
         AcceptNoTimeouts, AcceptIncLoad, AcceptIncStore, AcceptLostID, AcceptCloseCheck, AcceptCloseLoad,
         AcceptCloseStore, AcceptSendID, AcceptSendIDFails, AcceptNoTask, AcceptReaped,
         AcceptCloseAll, AcceptDone, AcceptRecvID, AcceptBadID, MainShutdown, MainClose,
         MainReset, MainClosedAll, MainStopAcceptTask, MainJoinAcceptTask
<1>15. ASSUME NEW c \in Conns, PeerConnect(c) \/ PeerClose(c) PROVE UNCHANGED <<started, rdPc>>
  BY <1>15 DEF PeerConnect, PeerClose
<1>16. CASE UNCHANGED <<started, rdPc>>
  BY <1>16
<1>17. CASE UNCHANGED vars
  BY <1>17 DEF vars
<1> QED
  BY <1>1, <1>2, <1>3, <1>4, <1>5, <1>6, <1>7, <1>8, <1>9, <1>10, <1>11, <1>12, <1>13,
     <1>14, <1>15, <1>16, <1>17
  DEF Next, Peer, AcceptTask, AcceptAlone, ReadTask, ReaderAlone, Stopping

\* The handle of a thread is reused only after the thread was joined, and no thread
\* is joined twice, in every interleaving of the accept thread with the read threads.
THEOREM ThreadsJoinedBeforeReuse == Spec => []ThreadPerStartedTask
<1>1. Init => ThreadPerStartedTask
  BY DEF Init, ThreadPerStartedTask
<1>2. TypeOK /\ ThreadPerStartedTask /\ [Next]_vars => (ThreadPerStartedTask)'
  BY NextThreadPerStartedTask
<1> QED
  BY <1>1, <1>2, TypeCorrect, PTL DEF Spec


-----------------------------------------------------------------------------
\* Started tasks are counted by a natural number.
LEMMA StartedFinite ==
    TypeOK => IsFiniteSet(started) /\ Cardinality(started) \in Nat
<1> SUFFICES ASSUME TypeOK PROVE IsFiniteSet(started) /\ Cardinality(started) \in Nat
  OBVIOUS
<1>1. IsFiniteSet(Tasks)
  BY ConstantsAssumption, FS_Interval
<1>2. IsFiniteSet(started)
  BY <1>1, FS_Subset DEF TypeOK
<1> QED
  BY <1>2, FS_CardinalityType

\* One decrement for each task that stops being started, and possibly more.
LEMMA NextTaskCount == TypeOK /\ TaskCountBounded /\ [Next]_vars => TaskCountBounded'
<1> SUFFICES ASSUME TypeOK, TaskCountBounded, [Next]_vars PROVE TaskCountBounded'
  OBVIOUS
<1> USE ConstantsAssumption DEF TaskCountBounded,
      peerVars, slotVars, poolVars, accVars, rdVars, mainVars
<1>1. CASE AcceptStartTask
  <2>1. PICK t \in Tasks : /\ FirstNotStarted(t)
                           /\ taskCount' = taskCount + 1
                           /\ started' = started \cup {t}
    BY <1>1 DEF AcceptStartTask
  <2>2. t \notin started
    BY <2>1 DEF FirstNotStarted
  <2>3. Cardinality(started') = Cardinality(started) + 1
    BY <2>1, <2>2, StartedFinite, FS_AddElement
  <2> QED
    BY <2>1, <2>3, StartedFinite DEF TypeOK
<1>2. CASE AcceptReap
  <2>1. CASE JoinAnswer(cursor) = 0
    <3>1. /\ taskCount' = IF taskCount > 0 THEN taskCount - 1 ELSE taskCount
          /\ started' = started \ {cursor}
      BY <1>2, <2>1 DEF AcceptReap
    <3>2. Cardinality(started') =
             IF cursor \in started THEN Cardinality(started) - 1 ELSE Cardinality(started)
      BY <3>1, StartedFinite, FS_RemoveElement
    <3>3. Cardinality(started') \in Nat
      BY <3>1, StartedFinite, FS_RemoveElement, FS_CardinalityType
    <3> HIDE DEF TaskCountBounded
    <3>4. taskCount \in Nat /\ taskCount <= Cardinality(started)
      BY DEF TypeOK, TaskCountBounded
    <3>5. taskCount' <= Cardinality(started')
      BY <3>1, <3>2, <3>3, <3>4, StartedFinite
    <3> QED
      BY <3>5 DEF TaskCountBounded
  <2>2. CASE JoinAnswer(cursor) # 0
    BY <1>2, <2>2 DEF AcceptReap
  <2> QED
    BY <2>1, <2>2
<1>3. ASSUME AcceptLoop \/ AcceptHead \/ AcceptNothing \/ AcceptClient \/ AcceptPublish \/
            AcceptNoTimeouts \/ AcceptIncLoad \/ AcceptIncStore \/ AcceptLostID \/ AcceptCloseCheck \/
            AcceptCloseLoad \/ AcceptCloseStore \/ AcceptSendID \/ AcceptSendIDFails \/
            AcceptNoTask \/ AcceptReaped \/ AcceptCloseAll \/ AcceptDone \/ AcceptRecvID \/
            AcceptBadID \/ MainShutdown \/ MainClose \/ MainReset \/ MainClosedAll \/
            MainStopAcceptTask \/ MainJoinAcceptTask
     PROVE  UNCHANGED <<taskCount, started>>
  BY <1>3 DEF AcceptLoop, AcceptHead, AcceptNothing, AcceptClient, AcceptPublish,
         AcceptNoTimeouts, AcceptIncLoad, AcceptIncStore, AcceptLostID, AcceptCloseCheck, AcceptCloseLoad,
         AcceptCloseStore, AcceptSendID, AcceptSendIDFails, AcceptNoTask, AcceptReaped,
         AcceptCloseAll, AcceptDone, AcceptRecvID, AcceptBadID, MainShutdown, MainClose,
         MainReset, MainClosedAll, MainStopAcceptTask, MainJoinAcceptTask
<1>4. ASSUME NEW t \in Tasks,
             ReaderStart(t) \/ ReaderCheck(t) \/ ReaderRecv(t) \/ ReaderData(t) \/
             ReaderDisconnected(t) \/ ReaderHandlerClose(t) \/ ReaderHandlerReset(t) \/
             ReaderClose(t) \/ ReaderCloseCheck(t) \/ ReaderCloseLoad(t) \/
             ReaderCloseStore(t)
     PROVE  UNCHANGED <<taskCount, started>>
  BY <1>4 DEF Goto, CloseOwn, ReaderStart, ReaderCheck, ReaderRecv, ReaderData, ReaderDisconnected,
         ReaderHandlerClose, ReaderHandlerReset, ReaderClose, ReaderCloseCheck,
         ReaderCloseLoad, ReaderCloseStore
<1>5. ASSUME NEW c \in Conns, PeerConnect(c) \/ PeerClose(c) PROVE UNCHANGED <<taskCount, started>>
  BY <1>5 DEF PeerConnect, PeerClose
<1>6. CASE UNCHANGED <<taskCount, started>>
  BY <1>6
<1>7. CASE UNCHANGED vars
  BY <1>7 DEF vars
<1> QED
  BY <1>1, <1>2, <1>3, <1>4, <1>5, <1>6, <1>7
  DEF Next, Peer, AcceptTask, AcceptAlone, ReadTask, ReaderAlone, Stopping

\* The thread count never exceeds the threads that exist.  The reaping loop may
\* subtract more than it joins, so the two are not equal.
THEOREM TaskCountNeverExceedsThreads == Spec => []TaskCountBounded
<1>1. Init => TaskCountBounded
  BY FS_EmptySet DEF Init, TaskCountBounded
<1>2. TypeOK /\ TaskCountBounded /\ [Next]_vars => TaskCountBounded'
  BY NextTaskCount
<1> QED
  BY <1>1, <1>2, TypeCorrect, PTL DEF Spec

-----------------------------------------------------------------------------
\* Between the test of the accept loop and the store of the incremented count the
\* count is below the limit: other threads only store what they loaded minus one.
CountInv ==
    /\ nConnected <= MAX_CLIENTS
    /\ accPc \in {"select", "publish", "incLoad", "incStore"} => nConnected < MAX_CLIENTS
    /\ accPc = "incStore" => accTmp < MAX_CLIENTS
    /\ accPc = "closeStore" => accTmp <= MAX_CLIENTS
    /\ \A t \in Tasks : rdPc[t] = "mstore" => rdTmp[t] <= MAX_CLIENTS

\* No interleaving of loads and stores takes the count past the pool.
LEMMA NextCount == TypeOK /\ CountInv /\ [Next]_vars => CountInv'
<1> SUFFICES ASSUME TypeOK, CountInv, [Next]_vars PROVE CountInv'
  OBVIOUS
<1> USE ConstantsAssumption DEF CountInv,
      peerVars, slotVars, poolVars, accVars, rdVars, mainVars
<1>1. CASE AcceptLoop
  BY <1>1 DEF AcceptLoop, TypeOK
<1>2. CASE AcceptHead
  BY <1>2 DEF AcceptHead, TypeOK
<1>3. CASE AcceptNothing
  BY <1>3 DEF AcceptNothing, TypeOK
<1>4. CASE AcceptClient \/ AcceptNoTimeouts
  BY <1>4 DEF AcceptClient, AcceptNoTimeouts, TypeOK
<1>5. CASE AcceptPublish
  BY <1>5 DEF AcceptPublish, TypeOK
<1>6. CASE AcceptIncLoad
  BY <1>6 DEF AcceptIncLoad, TypeOK
<1>7. CASE AcceptIncStore
  BY <1>7 DEF AcceptIncStore, TypeOK
<1>8. CASE AcceptLostID
  BY <1>8 DEF AcceptLostID, TypeOK
<1>9. CASE AcceptCloseCheck
  BY <1>9 DEF AcceptCloseCheck, TypeOK
<1>10. CASE AcceptCloseLoad
  BY <1>10 DEF AcceptCloseLoad, TypeOK
<1>11. CASE AcceptCloseStore
  BY <1>11 DEF AcceptCloseStore, TypeOK
<1>12. CASE AcceptSendID
  BY <1>12 DEF AcceptSendID, TypeOK
<1>13. CASE AcceptSendIDFails
  BY <1>13 DEF AcceptSendIDFails, TypeOK
<1>14. CASE AcceptStartTask
  BY <1>14 DEF AcceptStartTask, TypeOK
<1>15. CASE AcceptNoTask
  BY <1>15 DEF AcceptNoTask, TypeOK
<1>16. CASE AcceptReap
  BY <1>16 DEF AcceptReap, TypeOK, JoinAnswer
<1>17. CASE AcceptReaped
  BY <1>17 DEF AcceptReaped, TypeOK
<1>18. CASE AcceptCloseAll
  BY <1>18 DEF AcceptCloseAll, TypeOK
<1>19. CASE AcceptDone
  BY <1>19 DEF AcceptDone, TypeOK
<1>20. CASE AcceptRecvID
  BY <1>20 DEF AcceptRecvID, TypeOK
<1>21. CASE AcceptBadID
  BY <1>21 DEF AcceptBadID, TypeOK
<1>22. CASE MainClosedAll
  BY <1>22 DEF MainClosedAll, TypeOK
<1>23. ASSUME NEW t \in Tasks, ReaderStart(t) PROVE CountInv'
  BY <1>23 DEF ReaderStart, TypeOK, Goto, RdPcs
<1>24. ASSUME NEW t \in Tasks, ReaderCheck(t) PROVE CountInv'
  BY <1>24 DEF ReaderCheck, TypeOK, Goto, RdPcs
<1>25. ASSUME NEW t \in Tasks, ReaderRecv(t) PROVE CountInv'
  BY <1>25 DEF ReaderRecv, TypeOK, Goto, RdPcs
<1>26. ASSUME NEW t \in Tasks, ReaderData(t) PROVE CountInv'
  BY <1>26 DEF ReaderData, TypeOK, Goto, RdPcs
<1>27. ASSUME NEW t \in Tasks, ReaderDisconnected(t) PROVE CountInv'
  BY <1>27 DEF ReaderDisconnected, TypeOK, Goto, RdPcs
<1>28. ASSUME NEW t \in Tasks, ReaderHandlerClose(t) PROVE CountInv'
  BY <1>28 DEF ReaderHandlerClose, TypeOK, Goto, RdPcs
<1>29. ASSUME NEW t \in Tasks, ReaderHandlerReset(t) PROVE CountInv'
  BY <1>29 DEF ReaderHandlerReset, TypeOK, Goto, RdPcs
<1>30. ASSUME NEW t \in Tasks, ReaderClose(t) PROVE CountInv'
  BY <1>30 DEF ReaderClose, TypeOK, Goto, RdPcs
<1>31. ASSUME NEW t \in Tasks, ReaderCloseCheck(t) PROVE CountInv'
  BY <1>31 DEF ReaderCloseCheck, TypeOK, Goto, RdPcs
<1>32. ASSUME NEW t \in Tasks, ReaderCloseLoad(t) PROVE CountInv'
  BY <1>32 DEF ReaderCloseLoad, TypeOK, Goto, RdPcs
<1>33. ASSUME NEW t \in Tasks, ReaderCloseStore(t) PROVE CountInv'
  BY <1>33 DEF ReaderCloseStore, TypeOK, Goto, RdPcs
<1>34. ASSUME MainShutdown \/ MainClose \/ MainReset \/ MainStopAcceptTask \/
            MainJoinAcceptTask
     PROVE  UNCHANGED <<nConnected, accPc, accTmp, rdPc, rdTmp>>
  BY <1>34 DEF MainShutdown, MainClose, MainReset, MainStopAcceptTask, MainJoinAcceptTask
<1>35. ASSUME NEW c \in Conns, PeerConnect(c) \/ PeerClose(c) PROVE UNCHANGED <<nConnected, accPc, accTmp, rdPc, rdTmp>>
  BY <1>35 DEF PeerConnect, PeerClose
<1>36. CASE UNCHANGED <<nConnected, accPc, accTmp, rdPc, rdTmp>>
  BY <1>36
<1>37. CASE UNCHANGED vars
  BY <1>37 DEF vars
<1> QED
  BY <1>1, <1>2, <1>3, <1>4, <1>5, <1>6, <1>7, <1>8, <1>9, <1>10, <1>11, <1>12, <1>13,
     <1>14, <1>15, <1>16, <1>17, <1>18, <1>19, <1>20, <1>21, <1>22, <1>23, <1>24, <1>25,
     <1>26, <1>27, <1>28, <1>29, <1>30, <1>31, <1>32, <1>33, <1>34, <1>35, <1>36, <1>37
  DEF Next, Peer, AcceptTask, AcceptAlone, ReadTask, ReaderAlone, Stopping

\* The count that admits clients never passes MAX_CLIENTS.
THEOREM CountNeverPassesPool == Spec => []ConnectionsBounded
<1>1. Init => CountInv
  BY ConstantsAssumption DEF Init, CountInv
<1>2. TypeOK /\ CountInv /\ [Next]_vars => CountInv'
  BY NextCount
<1>3. TypeOK /\ CountInv => ConnectionsBounded
  BY DEF CountInv, ConnectionsBounded
<1> QED
  BY <1>1, <1>2, <1>3, TypeCorrect, PTL DEF Spec

-----------------------------------------------------------------------------
\* Only the accept thread opens sockets: the one it is about to open is closed, and
\* those it has passed in its last closeAll stay closed.
SocketInv ==
    /\ OpensClosedSocket
    /\ accPc = "closeAll" => \A s \in Slots : s < cursor => ~Opened(s)
    /\ AllClosedWhenDone

\* Every other thread only closes.
LEMMA NextSocket == TypeOK /\ SocketInv /\ [Next]_vars => SocketInv'
<1> SUFFICES ASSUME TypeOK, SocketInv, [Next]_vars PROVE SocketInv'
  OBVIOUS
<1> USE ConstantsAssumption DEF SocketInv, OpensClosedSocket, AllClosedWhenDone, Opened,
      peerVars, slotVars, poolVars, accVars, rdVars, mainVars
<1>1. CASE AcceptLoop
  BY <1>1 DEF AcceptLoop, TypeOK
<1>2. CASE AcceptHead
  BY <1>2 DEF AcceptHead, TypeOK
<1>3. CASE AcceptNothing
  BY <1>3 DEF AcceptNothing, TypeOK
<1>4. CASE AcceptClient \/ AcceptNoTimeouts
  BY <1>4 DEF AcceptClient, AcceptNoTimeouts, FirstClosed, TypeOK
<1>5. CASE AcceptPublish
  BY <1>5 DEF AcceptPublish, TypeOK
<1>6. CASE AcceptIncLoad
  BY <1>6 DEF AcceptIncLoad, TypeOK
<1>7. CASE AcceptIncStore
  BY <1>7 DEF AcceptIncStore, TypeOK
<1>8. CASE AcceptLostID
  BY <1>8 DEF AcceptLostID, TypeOK
<1>9. CASE AcceptCloseCheck
  BY <1>9 DEF AcceptCloseCheck, TypeOK
<1>10. CASE AcceptCloseLoad
  BY <1>10 DEF AcceptCloseLoad, TypeOK
<1>11. CASE AcceptCloseStore
  BY <1>11 DEF AcceptCloseStore, TypeOK
<1>12. CASE AcceptSendID
  BY <1>12 DEF AcceptSendID, TypeOK
<1>13. CASE AcceptSendIDFails
  BY <1>13 DEF AcceptSendIDFails, TypeOK
<1>14. CASE AcceptStartTask
  BY <1>14 DEF AcceptStartTask, TypeOK
<1>15. CASE AcceptNoTask
  BY <1>15 DEF AcceptNoTask, TypeOK
<1>16. CASE AcceptReap
  BY <1>16 DEF AcceptReap, TypeOK, JoinAnswer
<1>17. CASE AcceptReaped
  BY <1>17 DEF AcceptReaped, TypeOK
<1>18. CASE AcceptCloseAll
  BY <1>18 DEF AcceptCloseAll, TypeOK
<1>19. CASE AcceptDone
  BY <1>19 DEF AcceptDone, TypeOK
<1>20. CASE AcceptRecvID
  BY <1>20 DEF AcceptRecvID, TypeOK
<1>21. CASE AcceptBadID
  BY <1>21 DEF AcceptBadID, TypeOK
<1>22. CASE MainClose
  BY <1>22 DEF MainClose, TypeOK
<1>23. ASSUME NEW t \in Tasks, ReaderDisconnected(t) PROVE SocketInv'
  BY <1>23 DEF ReaderDisconnected, TypeOK, CloseOwn
<1>24. ASSUME NEW t \in Tasks, ReaderHandlerClose(t) PROVE SocketInv'
  BY <1>24 DEF ReaderHandlerClose, TypeOK, CloseOwn
<1>25. ASSUME NEW t \in Tasks, ReaderClose(t) PROVE SocketInv'
  BY <1>25 DEF ReaderClose, TypeOK, CloseOwn
<1>26. ASSUME MainShutdown \/ MainReset \/ MainClosedAll \/ MainStopAcceptTask \/
            MainJoinAcceptTask
     PROVE  UNCHANGED <<sock, accPc, cursor, clientFd>>
  BY <1>26 DEF MainShutdown, MainReset, MainClosedAll, MainStopAcceptTask, MainJoinAcceptTask
<1>27. ASSUME NEW t \in Tasks,
             ReaderStart(t) \/ ReaderCheck(t) \/ ReaderRecv(t) \/ ReaderData(t) \/
             ReaderHandlerReset(t) \/ ReaderCloseCheck(t) \/ ReaderCloseLoad(t) \/
             ReaderCloseStore(t)
     PROVE  UNCHANGED <<sock, accPc, cursor, clientFd>>
  BY <1>27 DEF Goto, CloseOwn, ReaderStart, ReaderCheck, ReaderRecv, ReaderData, ReaderHandlerReset,
         ReaderCloseCheck, ReaderCloseLoad, ReaderCloseStore
<1>28. ASSUME NEW c \in Conns, PeerConnect(c) \/ PeerClose(c) PROVE UNCHANGED <<sock, accPc, cursor, clientFd>>
  BY <1>28 DEF PeerConnect, PeerClose
<1>29. CASE UNCHANGED <<sock, accPc, cursor, clientFd>>
  BY <1>29
<1>30. CASE UNCHANGED vars
  BY <1>30 DEF vars
<1> QED
  BY <1>1, <1>2, <1>3, <1>4, <1>5, <1>6, <1>7, <1>8, <1>9, <1>10, <1>11, <1>12, <1>13,
     <1>14, <1>15, <1>16, <1>17, <1>18, <1>19, <1>20, <1>21, <1>22, <1>23, <1>24, <1>25,
     <1>26, <1>27, <1>28, <1>29, <1>30
  DEF Next, Peer, AcceptTask, AcceptAlone, ReadTask, ReaderAlone, Stopping

\* IpSocket::open never finds the socket open that the accept thread chose.
THEOREM OpenAssertionHolds == Spec => []OpensClosedSocket
<1>1. Init => SocketInv
  BY DEF Init, SocketInv, OpensClosedSocket, AllClosedWhenDone
<1>2. TypeOK /\ SocketInv /\ [Next]_vars => SocketInv'
  BY NextSocket
<1>3. TypeOK /\ SocketInv => OpensClosedSocket
  BY DEF SocketInv
<1> QED
  BY <1>1, <1>2, <1>3, TypeCorrect, PTL DEF Spec

\* No socket outlives acceptTask, whatever was accepted during the shutdown.
THEOREM NoSocketOutlivesAcceptTask == Spec => []AllClosedWhenDone
<1>1. Init => SocketInv
  BY DEF Init, SocketInv, OpensClosedSocket, AllClosedWhenDone
<1>2. TypeOK /\ SocketInv /\ [Next]_vars => SocketInv'
  BY NextSocket
<1>3. TypeOK /\ SocketInv => AllClosedWhenDone
  BY DEF SocketInv
<1> QED
  BY <1>1, <1>2, <1>3, TypeCorrect, PTL DEF Spec

-----------------------------------------------------------------------------
\* An ID comes from a handshake only, and a handshake overwrites what was stored.
IDInv ==
    /\ ~ID_PROTOCOL => \A s \in Slots : clientDeviceID[s] = NoConn
    /\ accPc = "recvID" => ID_PROTOCOL
    /\ ClientIDMatches

\* Closing a socket and forgetting its ID, in either order, keeps the IDs right.
LEMMA NextID == TypeOK /\ IDInv /\ [Next]_vars => IDInv'
<1> SUFFICES ASSUME TypeOK, IDInv, [Next]_vars PROVE IDInv'
  OBVIOUS
<1> USE ConstantsAssumption DEF IDInv, ClientIDMatches, InHandshake, Opened,
      peerVars, slotVars, poolVars, accVars, rdVars, mainVars
<1>1. CASE AcceptLoop
  BY <1>1 DEF AcceptLoop, TypeOK
<1>2. CASE AcceptHead
  BY <1>2 DEF AcceptHead, TypeOK
<1>3. CASE AcceptNothing
  BY <1>3 DEF AcceptNothing, TypeOK
<1>4. CASE AcceptClient \/ AcceptNoTimeouts
  BY <1>4 DEF AcceptClient, AcceptNoTimeouts, TypeOK
<1>5. CASE AcceptPublish
  BY <1>5 DEF AcceptPublish, TypeOK
<1>6. CASE AcceptIncLoad
  BY <1>6 DEF AcceptIncLoad, TypeOK
<1>7. CASE AcceptIncStore
  BY <1>7 DEF AcceptIncStore, TypeOK
<1>8. CASE AcceptLostID
  BY <1>8 DEF AcceptLostID, TypeOK
<1>9. CASE AcceptCloseCheck
  BY <1>9 DEF AcceptCloseCheck, TypeOK
<1>10. CASE AcceptCloseLoad
  BY <1>10 DEF AcceptCloseLoad, TypeOK
<1>11. CASE AcceptCloseStore
  BY <1>11 DEF AcceptCloseStore, TypeOK
<1>12. CASE AcceptSendID
  BY <1>12 DEF AcceptSendID, TypeOK
<1>13. CASE AcceptSendIDFails
  BY <1>13 DEF AcceptSendIDFails, TypeOK
<1>14. CASE AcceptStartTask
  BY <1>14 DEF AcceptStartTask, TypeOK
<1>15. CASE AcceptNoTask
  BY <1>15 DEF AcceptNoTask, TypeOK
<1>16. CASE AcceptReap
  BY <1>16 DEF AcceptReap, TypeOK, JoinAnswer
<1>17. CASE AcceptReaped
  BY <1>17 DEF AcceptReaped, TypeOK
<1>18. CASE AcceptCloseAll
  BY <1>18 DEF AcceptCloseAll, TypeOK
<1>19. CASE AcceptDone
  BY <1>19 DEF AcceptDone, TypeOK
<1>20. CASE AcceptRecvID
  BY <1>20 DEF AcceptRecvID, TypeOK
<1>21. CASE AcceptBadID
  BY <1>21 DEF AcceptBadID, TypeOK
<1>22. CASE MainClose
  BY <1>22 DEF MainClose, TypeOK
<1>23. CASE MainReset
  BY <1>23 DEF MainReset, TypeOK
<1>24. ASSUME NEW t \in Tasks, ReaderDisconnected(t) PROVE IDInv'
  BY <1>24 DEF ReaderDisconnected, TypeOK, CloseOwn
<1>25. ASSUME NEW t \in Tasks, ReaderHandlerClose(t) PROVE IDInv'
  BY <1>25 DEF ReaderHandlerClose, TypeOK, CloseOwn
<1>26. ASSUME NEW t \in Tasks, ReaderClose(t) PROVE IDInv'
  BY <1>26 DEF ReaderClose, TypeOK, CloseOwn
<1>27. ASSUME NEW t \in Tasks, ReaderHandlerReset(t) PROVE IDInv'
  BY <1>27 DEF ReaderHandlerReset, TypeOK
<1>28. ASSUME NEW t \in Tasks, ReaderCloseCheck(t) PROVE IDInv'
  BY <1>28 DEF ReaderCloseCheck, TypeOK
<1>29. ASSUME MainShutdown \/ MainClosedAll \/ MainStopAcceptTask \/ MainJoinAcceptTask
     PROVE  UNCHANGED <<sock, clientDeviceID, accPc, clientFd>>
  BY <1>29 DEF MainShutdown, MainClosedAll, MainStopAcceptTask, MainJoinAcceptTask
<1>30. ASSUME NEW t \in Tasks,
             ReaderStart(t) \/ ReaderCheck(t) \/ ReaderRecv(t) \/ ReaderData(t) \/
             ReaderCloseLoad(t) \/ ReaderCloseStore(t)
     PROVE  UNCHANGED <<sock, clientDeviceID, accPc, clientFd>>
  BY <1>30 DEF Goto, CloseOwn, ReaderStart, ReaderCheck, ReaderRecv, ReaderData, ReaderCloseLoad,
         ReaderCloseStore
<1>31. ASSUME NEW c \in Conns, PeerConnect(c) \/ PeerClose(c) PROVE UNCHANGED <<sock, clientDeviceID, accPc, clientFd>>
  BY <1>31 DEF PeerConnect, PeerClose
<1>32. CASE UNCHANGED <<sock, clientDeviceID, accPc, clientFd>>
  BY <1>32
<1>33. CASE UNCHANGED vars
  BY <1>33 DEF vars
<1> QED
  BY <1>1, <1>2, <1>3, <1>4, <1>5, <1>6, <1>7, <1>8, <1>9, <1>10, <1>11, <1>12, <1>13,
     <1>14, <1>15, <1>16, <1>17, <1>18, <1>19, <1>20, <1>21, <1>22, <1>23, <1>24, <1>25,
     <1>26, <1>27, <1>28, <1>29, <1>30, <1>31, <1>32, <1>33
  DEF Next, Peer, AcceptTask, AcceptAlone, ReadTask, ReaderAlone, Stopping

\* After its handshake an open socket never carries the ID of an earlier client.
THEOREM IDsMatchTheirSockets == Spec => []ClientIDMatches
<1>1. Init => IDInv
  BY DEF Init, IDInv, ClientIDMatches, Opened
<1>2. TypeOK /\ IDInv /\ [Next]_vars => IDInv'
  BY NextID
<1>3. TypeOK /\ IDInv => ClientIDMatches
  BY DEF IDInv
<1> QED
  BY <1>1, <1>2, <1>3, TypeCorrect, PTL DEF Spec

-----------------------------------------------------------------------------
\* The ranks of the places a thread can be at.
LEMMA AcceptRanks ==
  /\ AcceptRank("done") = 0 /\ AcceptRank("closeAll") = 1 /\ AcceptRank("join") = 2
  /\ AcceptRank("loop") = 3 /\ AcceptRank("reap") = 4 /\ AcceptRank("findTask") = 4
  /\ AcceptRank("closeStore") = 4 /\ AcceptRank("sendID") = 5 /\ AcceptRank("closeLoad") = 5
  /\ AcceptRank("closeCheck") = 6 /\ AcceptRank("recvID") = 7 /\ AcceptRank("incStore") = 8
  /\ AcceptRank("incLoad") = 9 /\ AcceptRank("publish") = 10 /\ AcceptRank("select") = 11
  /\ AcceptRank("head") = 12
BY DEF AcceptRank

LEMMA ReaderRanks ==
  /\ ReaderRank("idle") = 0 /\ ReaderRank("exited") = 1 /\ ReaderRank("mstore") = 2
  /\ ReaderRank("mload") = 3 /\ ReaderRank("mcheck") = 4 /\ ReaderRank("mclose") = 5
  /\ ReaderRank("hreset") = 6 /\ ReaderRank("hclose") = 7 /\ ReaderRank("blocked") = 8
  /\ ReaderRank("recv") = 9 /\ ReaderRank("check") = 10 /\ ReaderRank("start") = 11
BY DEF ReaderRank

\* A step of the accept thread after m_stop was set takes it forward; a thread it
\* starts, or frees after a join, moves with it.
LEMMA AcceptWindsDown ==
    ASSUME TypeOK, ThreadPerStartedTask, m_stop, AcceptTask
    PROVE  /\ m_stop'
           /\ AcceptRank(accPc') < AcceptRank(accPc) \/ Iterates
           /\ \A t \in Tasks : rdPc'[t] # rdPc[t]
                  => \/ ReaderRank(rdPc'[t]) < ReaderRank(rdPc[t])
                     \/ rdPc[t] = "idle" /\ AcceptRank(accPc') < AcceptRank(accPc)
<1> USE DEF rdVars, mainVars
<1>1. CASE AcceptStartTask
  <2>1. accPc = "findTask" /\ accPc' = "loop" /\ m_stop'
    BY <1>1 DEF AcceptStartTask
  <2>2. \A t \in Tasks : rdPc'[t] # rdPc[t] => rdPc[t] = "idle"
    BY <1>1 DEF AcceptStartTask, FirstNotStarted, TypeOK, ThreadPerStartedTask
  <2>3. AcceptRank(accPc') < AcceptRank(accPc)
    BY <2>1, AcceptRanks
  <2> QED
    BY <2>1, <2>2, <2>3
<1>2. CASE AcceptReap
  <2>1. Iterates /\ m_stop'
    BY <1>2 DEF AcceptReap, Iterates
  <2>2. \A t \in Tasks : rdPc'[t] # rdPc[t] => rdPc[t] = "exited" /\ rdPc'[t] = "idle"
    BY <1>2 DEF AcceptReap, TypeOK
  <2> QED
    BY <2>1, <2>2, ReaderRanks
<1>3. ASSUME \/ AcceptLoop \/ AcceptHead \/ AcceptNothing \/ AcceptClient \/ AcceptPublish
             \/ AcceptNoTimeouts \/ AcceptIncLoad \/ AcceptIncStore \/ AcceptRecvID \/ AcceptBadID
             \/ AcceptLostID \/ AcceptCloseCheck \/ AcceptCloseLoad \/ AcceptCloseStore
             \/ AcceptSendID \/ AcceptSendIDFails \/ AcceptNoTask \/ AcceptReaped
             \/ AcceptDone
      PROVE  m_stop' /\ rdPc' = rdPc /\ AcceptRank(accPc') < AcceptRank(accPc)
  <2>1. CASE AcceptLoop
    BY <2>1, AcceptRanks DEF AcceptLoop
  <2>2. CASE AcceptHead
    BY <2>2, AcceptRanks DEF AcceptHead
  <2>3. CASE AcceptNothing
    BY <2>3, AcceptRanks DEF AcceptNothing
  <2>4. CASE AcceptClient
    BY <2>4, AcceptRanks DEF AcceptClient
  <2>5. CASE AcceptPublish
    BY <2>5, AcceptRanks DEF AcceptPublish
  <2>6. CASE AcceptIncLoad
    BY <2>6, AcceptRanks DEF AcceptIncLoad
  <2>7. CASE AcceptIncStore
    BY <2>7, AcceptRanks DEF AcceptIncStore
  <2>8. CASE AcceptRecvID
    BY <2>8, AcceptRanks DEF AcceptRecvID
  <2>9. CASE AcceptBadID
    BY <2>9, AcceptRanks DEF AcceptBadID
  <2>10. CASE AcceptLostID
    BY <2>10, AcceptRanks DEF AcceptLostID
  <2>11. CASE AcceptCloseCheck
    BY <2>11, AcceptRanks DEF AcceptCloseCheck
  <2>12. CASE AcceptCloseLoad
    BY <2>12, AcceptRanks DEF AcceptCloseLoad
  <2>13. CASE AcceptCloseStore
    BY <2>13, AcceptRanks DEF AcceptCloseStore
  <2>14. CASE AcceptSendID
    BY <2>14, AcceptRanks DEF AcceptSendID
  <2>15. CASE AcceptSendIDFails
    BY <2>15, AcceptRanks DEF AcceptSendIDFails
  <2>16. CASE AcceptNoTask
    BY <2>16, AcceptRanks DEF AcceptNoTask
  <2>17. CASE AcceptReaped
    BY <2>17, AcceptRanks DEF AcceptReaped
  <2>18. CASE AcceptDone
    BY <2>18, AcceptRanks DEF AcceptDone
  <2>19. CASE AcceptNoTimeouts
    BY <2>19, AcceptRanks DEF AcceptNoTimeouts
  <2> QED
    BY <1>3, <2>1, <2>2, <2>3, <2>4, <2>5, <2>6, <2>7, <2>8, <2>9,
       <2>10, <2>11, <2>12, <2>13, <2>14, <2>15, <2>16, <2>17, <2>18, <2>19
<1>4. ASSUME AcceptCloseAll PROVE m_stop' /\ rdPc' = rdPc /\ Iterates
  BY <1>4 DEF AcceptCloseAll, Iterates
<1> QED
  BY <1>1, <1>2, <1>3, <1>4 DEF AcceptTask, AcceptAlone

\* A step of a read thread after m_stop was set takes it, and nobody else, forward.
LEMMA ReaderWindsDown ==
    ASSUME TypeOK, m_stop, NEW t \in Tasks, ReadTask(t)
    PROVE  /\ UNCHANGED <<accPc, cursor, m_stop>>
           /\ \A u \in Tasks : rdPc'[u] # rdPc[u]
                  => ReaderRank(rdPc'[u]) < ReaderRank(rdPc[u])
<1>1. UNCHANGED <<accPc, cursor, m_stop>>
  BY DEF ReadTask, ReaderAlone, ReaderStart, ReaderCheck, ReaderRecv, ReaderData,
       ReaderDisconnected, ReaderHandlerClose, ReaderHandlerReset, ReaderClose,
       ReaderCloseCheck, ReaderCloseLoad, ReaderCloseStore, accVars, mainVars
<1>2. ASSUME NEW pc, Goto(t, pc), ReaderRank(pc) < ReaderRank(rdPc[t]), NEW u \in Tasks,
             rdPc'[u] # rdPc[u]
      PROVE  ReaderRank(rdPc'[u]) < ReaderRank(rdPc[u])
  <2>1. u = t /\ rdPc'[u] = pc
    BY <1>2 DEF Goto, TypeOK
  <2> QED
    BY <1>2, <2>1
<1>3. CASE ReaderStart(t)
  BY <1>1, <1>2, <1>3, ReaderRanks DEF ReaderStart
<1>4. CASE ReaderCheck(t)
  <2>1. rdPc[t] = "check" /\ Goto(t, "mclose")
    BY <1>4 DEF ReaderCheck
  <2> QED
    BY <1>1, <1>2, <2>1, ReaderRanks
<1>5. CASE ReaderRecv(t)
  <2>1. rdPc[t] = "recv" /\ (Goto(t, "blocked") \/ Goto(t, "hclose"))
    BY <1>5 DEF ReaderRecv
  <2> QED
    BY <1>1, <1>2, <2>1, ReaderRanks
<1>6. CASE ReaderData(t)
  <2>1. rdPc[t] = "blocked" /\ Goto(t, "mclose")
    BY <1>6 DEF ReaderData
  <2> QED
    BY <1>1, <1>2, <2>1, ReaderRanks
<1>7. CASE ReaderDisconnected(t)
  BY <1>1, <1>2, <1>7, ReaderRanks DEF ReaderDisconnected
<1>8. CASE ReaderHandlerClose(t)
  BY <1>1, <1>2, <1>8, ReaderRanks DEF ReaderHandlerClose
<1>9. CASE ReaderHandlerReset(t)
  BY <1>1, <1>2, <1>9, ReaderRanks DEF ReaderHandlerReset
<1>10. CASE ReaderClose(t)
  BY <1>1, <1>2, <1>10, ReaderRanks DEF ReaderClose
<1>11. CASE ReaderCloseCheck(t)
  <2>1. rdPc[t] = "mcheck" /\ (Goto(t, "mload") \/ Goto(t, "exited"))
    BY <1>11 DEF ReaderCloseCheck
  <2> QED
    BY <1>1, <1>2, <2>1, ReaderRanks
<1>12. CASE ReaderCloseLoad(t)
  BY <1>1, <1>2, <1>12, ReaderRanks DEF ReaderCloseLoad
<1>13. CASE ReaderCloseStore(t)
  BY <1>1, <1>2, <1>13, ReaderRanks DEF ReaderCloseStore
<1> QED
  BY <1>3, <1>4, <1>5, <1>6, <1>7, <1>8, <1>9, <1>10, <1>11, <1>12, <1>13
  DEF ReadTask, ReaderAlone

\* After stopAcceptTask nothing loops: the accept thread and the read threads have a
\* bounded number of steps left, however many clients, sockets and tasks there are.
THEOREM StopEndsLoops == Spec => StopWindsDown
<1> DEFINE Winds ==
      m_stop => /\ m_stop'
                /\ <<accPc, cursor>>' # <<accPc, cursor>>
                      => AcceptRank(accPc') < AcceptRank(accPc) \/ Iterates
                /\ \A t \in Tasks : rdPc'[t] # rdPc[t]
                      => \/ ReaderRank(rdPc'[t]) < ReaderRank(rdPc[t])
                         \/ rdPc[t] = "idle" /\ AcceptRank(accPc') < AcceptRank(accPc)
<1>1. TypeOK /\ ThreadPerStartedTask /\ [Next]_vars => [Winds]_vars
  <2> SUFFICES ASSUME TypeOK, ThreadPerStartedTask, m_stop, Next PROVE Winds
    OBVIOUS
  <2>1. CASE AcceptTask
    BY <2>1, AcceptWindsDown
  <2>2. ASSUME NEW t \in Tasks, ReadTask(t) PROVE Winds
    BY <2>2, ReaderWindsDown
  <2>3. ASSUME NEW c \in Conns, Peer(c) PROVE UNCHANGED <<accPc, cursor, rdPc, m_stop>>
    BY <2>3 DEF Peer, PeerConnect, PeerClose, accVars, rdVars, mainVars
  <2>4. ASSUME MainShutdown \/ Stopping PROVE UNCHANGED <<accPc, cursor, rdPc>> /\ m_stop'
    BY <2>4 DEF Stopping, MainShutdown, MainClose, MainReset, MainClosedAll,
         MainStopAcceptTask, MainJoinAcceptTask, accVars, rdVars
  <2> QED
    BY <2>1, <2>2, <2>3, <2>4 DEF Next
<1> QED
  BY <1>1, TypeCorrect, ThreadsJoinedBeforeReuse, PTL DEF Spec, StopWindsDown
=============================================================================
