------------------------------ MODULE ServerPool ------------------------------
(***************************************************************************)
(* The server half of Drv::MultiTcpServerComponentImpl: the pool of server *)
(* sockets (MultiTcpServerManager, MultiTcpServerSocket), the accept       *)
(* thread and its pool of read threads (AcceptClientTask), and the thread  *)
(* that tears the component down (shutdown, stopAcceptTask,                *)
(* joinAcceptTask).                                                        *)
(*                                                                         *)
(* No lock protects current_client_connections, clientDeviceID, the task   *)
(* pool or the parameters handed to a new thread, so every access to them  *)
(* is a step of its own.  The descriptor of one socket (m_fd, m_open) is   *)
(* read and written under the lock of IpSocket, so it is one variable and  *)
(* one step.                                                               *)
(*                                                                         *)
(* A connection is named by a member of Conns.  A client that has closed   *)
(* its end may connect again, under the same name, once nothing in the     *)
(* server refers to its previous connection: a behaviour has any number of *)
(* connections although Conns is finite.                                   *)
(***************************************************************************)
EXTENDS Integers, FiniteSets

CONSTANTS
    Conns,        \* the client connections that can exist at one time
    NoConn,       \* descriptor -1 of a closed socket, device ID 0
    MAX_CLIENTS,  \* sockets in the pool (Cfg.hpp)
    MAX_TASKS,    \* read threads in the pool (MTSTask.hpp)
    ID_PROTOCOL,  \* m_id_protocol: exchange device IDs after accept
    COUNT_FLOOR   \* bound: no client arrives while nConnected is below it

ASSUME ConstantsAssumption ==
    /\ IsFiniteSet(Conns)
    /\ NoConn \notin Conns
    /\ MAX_CLIENTS \in Nat \ {0}
    /\ MAX_TASKS \in Nat \ {0}
    /\ ID_PROTOCOL \in BOOLEAN
    /\ COUNT_FLOOR \in Int

Slots == 0 .. MAX_CLIENTS - 1
Tasks == 0 .. MAX_TASKS - 1

\* listen(serverFd, 1): the kernel queues a connection while at most one waits.
LISTEN_BACKLOG == 1

\* What pthread_tryjoin_np answers: 0 once the thread has ended.
EBUSY == 16

VARIABLES
    conn,               \* client's end of each connection: "alive", "gone" (or none yet)
    backlog,            \* connections the kernel completed and accept() has not returned
    listening,          \* the listening descriptor is open
    sock,               \* m_fd / m_open of each socket of the pool
    clientDeviceID,     \* ID stored in each socket, named by who presented it
    nConnected,         \* current_client_connections
    accPc,              \* accept thread: where it is
    clientFd,           \* accept thread: index of the socket it works on (-1 once unused)
    accFd,              \* accept thread: descriptor accept() returned, not yet stored
    accTmp,             \* accept thread: loaded value of nConnected
    cursor,             \* accept thread: i of its for loops
    join_status,        \* accept thread: last answer of pthread_tryjoin_np
    params,             \* accept thread: params.client_index, on its stack
    taskCount,          \* AcceptClientTask::taskCount
    started,            \* task_pool[i].isStarted()
    rdPc,               \* read threads: where each is; "idle" is no thread
    rdIndex,            \* read threads: index
    rdConn,             \* read threads: connection a blocked recv waits on
    rdTmp,              \* read threads: loaded value of nConnected
    mainPc,             \* stopping thread: where it is
    mainK,              \* stopping thread: i of closeAll
    m_stop              \* AcceptClientTask::m_stop

peerVars == <<conn, backlog, listening>>
slotVars == <<sock, clientDeviceID>>
poolVars == <<params, taskCount, started>>
accVars  == <<accPc, clientFd, accFd, accTmp, cursor, join_status>>
rdVars   == <<rdPc, rdIndex, rdConn, rdTmp>>
mainVars == <<mainPc, mainK, m_stop>>

vars == <<peerVars, slotVars, nConnected, poolVars, accVars, rdVars, mainVars>>

AccPcs == {"loop", "head", "select", "publish", "incLoad", "incStore", "recvID",
           "sendID", "closeCheck", "closeLoad", "closeStore", "findTask",
           "reap", "join", "closeAll", "done"}
RdPcs == {"idle", "start", "check", "recv", "blocked", "hclose", "hreset",
          "mclose", "mcheck", "mload", "mstore", "exited"}
MainPcs == {"run", "close", "reset", "stop", "joinAccept", "joined"}

-----------------------------------------------------------------------------
Opened(s) == sock[s] # NoConn                     \* IpSocket::isOpened

OpenFds == {sock[s] : s \in Slots} \ {NoConn}

\* Nothing in the server refers to connection c any more.
Forgotten(c) == /\ c \notin backlog \cup OpenFds \cup {accFd}
                /\ \A t \in Tasks : rdConn[t] # c

Init ==
    /\ conn = [c \in Conns |-> "gone"] /\ backlog = {} /\ listening = TRUE
    /\ sock = [s \in Slots |-> NoConn]
    /\ clientDeviceID = [s \in Slots |-> NoConn]
    /\ nConnected = 0
    /\ accPc = "head" /\ clientFd = -1 /\ accFd = NoConn /\ accTmp = 0
    /\ cursor = 0 /\ join_status = 0
    /\ params = 0 /\ taskCount = 0 /\ started = {}
    /\ rdPc = [t \in Tasks |-> "idle"] /\ rdIndex = [t \in Tasks |-> 0]
    /\ rdConn = [t \in Tasks |-> NoConn] /\ rdTmp = [t \in Tasks |-> 0]
    /\ mainPc = "run" /\ mainK = 0 /\ m_stop = FALSE

-----------------------------------------------------------------------------
(* Faults of the kind this code could have.  Next does not use them: each   *)
(* replaces the definition its name starts with, to see a property fail.    *)

FirstClosed_Untested(s) == s = 0                 \* isOpened() not asked

AcceptLoop_Forever ==                            \* m_stop not asked
    /\ accPc = "loop"
    /\ accPc' = "head"
    /\ cursor' = 0
    /\ UNCHANGED <<peerVars, slotVars, nConnected, poolVars, clientFd, accFd, accTmp,
                   join_status, rdVars, mainVars>>

AcceptHead_OffByOne ==                           \* <= for <
    /\ accPc = "head"
    /\ accPc' = IF taskCount # MAX_TASKS /\ nConnected <= MAX_CLIENTS
                THEN "select" ELSE "reap"
    /\ cursor' = 0
    /\ UNCHANGED <<peerVars, slotVars, nConnected, poolVars, clientFd, accFd, accTmp,
                   join_status, rdVars, mainVars>>

AcceptRecvID_KeepsOld ==                         \* an ID once stored is kept
    /\ accPc = "recvID" /\ Opened(clientFd) /\ conn[sock[clientFd]] = "alive"
    /\ clientDeviceID' = [clientDeviceID EXCEPT ![clientFd] =
                              IF @ = NoConn THEN sock[clientFd] ELSE @]
    /\ accPc' = "sendID"
    /\ UNCHANGED <<peerVars, sock, nConnected, poolVars, clientFd, accFd, accTmp, cursor,
                   join_status, rdVars, mainVars>>

AcceptLostID_NotWoken ==                         \* close() does not end a blocked recv
    /\ accPc = "recvID"
    /\ Opened(clientFd) /\ conn[sock[clientFd]] = "gone"
    /\ sock' = [sock EXCEPT ![clientFd] = NoConn]
    /\ accPc' = "closeCheck"
    /\ UNCHANGED <<peerVars, clientDeviceID, nConnected, poolVars, clientFd, accFd, accTmp,
                   cursor, join_status, rdVars, mainVars>>

JoinAnswer_Ignored(i) == IF i \notin started THEN join_status ELSE 0  \* EBUSY ignored

AcceptReap_Unguarded ==                          \* no taskCount > 0
    /\ accPc \in {"reap", "join"} /\ cursor < MAX_TASKS
    /\ LET answer == IF cursor \notin started THEN join_status
                     ELSE IF rdPc[cursor] = "exited" THEN 0 ELSE EBUSY
       IN  /\ join_status' = answer
           /\ IF answer = 0
              THEN /\ taskCount' = taskCount - 1
                   /\ started' = started \ {cursor}
                   /\ rdPc' = [rdPc EXCEPT ![cursor] = IF @ = "exited" THEN "idle" ELSE @]
              ELSE UNCHANGED <<taskCount, started, rdPc>>
    /\ cursor' = cursor + 1
    /\ UNCHANGED <<peerVars, slotVars, nConnected, params, accPc, clientFd, accFd, accTmp,
                   rdIndex, rdConn, rdTmp, mainVars>>

AcceptReap_KeepsLast ==                          \* taskCount > 1
    /\ accPc \in {"reap", "join"} /\ cursor < MAX_TASKS
    /\ LET answer == IF cursor \notin started THEN join_status
                     ELSE IF rdPc[cursor] = "exited" THEN 0 ELSE EBUSY
       IN  /\ join_status' = answer
           /\ IF answer = 0
              THEN /\ taskCount' = IF taskCount > 1 THEN taskCount - 1 ELSE taskCount
                   /\ started' = started \ {cursor}
                   /\ rdPc' = [rdPc EXCEPT ![cursor] = IF @ = "exited" THEN "idle" ELSE @]
              ELSE UNCHANGED <<taskCount, started, rdPc>>
    /\ cursor' = cursor + 1
    /\ UNCHANGED <<peerVars, slotVars, nConnected, params, accPc, clientFd, accFd, accTmp,
                   rdIndex, rdConn, rdTmp, mainVars>>

AcceptReaped_NoCloseAll ==                       \* no closeAll when acceptTask ends
    /\ accPc \in {"reap", "join"} /\ cursor = MAX_TASKS
    /\ accPc' = IF accPc = "reap" THEN "loop" ELSE "done"
    /\ cursor' = 0
    /\ UNCHANGED <<peerVars, slotVars, nConnected, poolVars, clientFd, accFd, accTmp,
                   join_status, rdVars, mainVars>>

ReaderDisconnected_NotWoken(t) ==                \* close() does not end a blocked recv
    /\ rdPc[t] = "blocked" /\ conn[rdConn[t]] = "gone"
    /\ sock' = [sock EXCEPT ![rdIndex[t]] = NoConn]
    /\ rdConn' = [rdConn EXCEPT ![t] = NoConn]
    /\ rdPc' = [rdPc EXCEPT ![t] = "hclose"]
    /\ UNCHANGED <<peerVars, clientDeviceID, nConnected, poolVars, accVars,
                   rdIndex, rdTmp, mainVars>>

ReaderDisconnected_ZeroIsData(t) ==              \* 0 bytes taken for SOCK_SUCCESS
    /\ rdPc[t] = "blocked"
    /\ rdConn[t] \in OpenFds => conn[rdConn[t]] = "gone"
    /\ rdConn' = [rdConn EXCEPT ![t] = NoConn]
    /\ rdPc' = [rdPc EXCEPT ![t] = IF m_stop THEN "mclose" ELSE "check"]
    /\ UNCHANGED <<peerVars, slotVars, nConnected, poolVars, accVars,
                   rdIndex, rdTmp, mainVars>>

-----------------------------------------------------------------------------
(* The clients.  "gone" is a FIN or RST that is next in the stream.         *)

\* COUNT_FLOOR bounds the behaviours, not the code: lost updates can take the
\* unlocked counter down without limit when clients come and go for ever.
PeerConnect(c) ==
    /\ listening /\ Cardinality(backlog) <= LISTEN_BACKLOG
    /\ conn[c] # "alive" /\ Forgotten(c) /\ nConnected >= COUNT_FLOOR
    /\ conn' = [conn EXCEPT ![c] = "alive"]
    /\ backlog' = backlog \cup {c}
    /\ UNCHANGED <<listening, slotVars, nConnected, poolVars, accVars, rdVars, mainVars>>

PeerClose(c) ==
    /\ conn[c] = "alive"
    /\ conn' = [conn EXCEPT ![c] = "gone"]
    /\ UNCHANGED <<backlog, listening, slotVars, nConnected, poolVars, accVars, rdVars, mainVars>>

-----------------------------------------------------------------------------
(* The accept thread (acceptTask).                                          *)

FirstClosed(s) == ~Opened(s) /\ \A r \in Slots : r < s => Opened(r)

FirstNotStarted(t) == t \notin started /\ \A u \in Tasks : u < t => u \in started

\* The condition of the do-while; status is SOCK_SUCCESS whenever it is read.
AcceptLoop ==
    /\ accPc = "loop"
    /\ accPc' = IF m_stop THEN "join" ELSE "head"
    /\ cursor' = 0
    /\ UNCHANGED <<peerVars, slotVars, nConnected, poolVars, clientFd, accFd, accTmp,
                   join_status, rdVars, mainVars>>

\* Accept another client, or reap finished read threads when a limit is reached.
AcceptHead ==
    /\ accPc = "head"
    /\ accPc' = IF taskCount # MAX_TASKS /\ nConnected < MAX_CLIENTS
                THEN "select" ELSE "reap"
    /\ cursor' = 0
    /\ UNCHANGED <<peerVars, slotVars, nConnected, poolVars, clientFd, accFd, accTmp,
                   join_status, rdVars, mainVars>>

\* select() times out, or finds no closed socket, or accept() fails because the
\* listening descriptor is gone.
AcceptNothing ==
    /\ accPc = "select"
    /\ backlog = {} \/ \A s \in Slots : Opened(s)
    /\ clientFd' = -1
    /\ accPc' = "loop"
    /\ UNCHANGED <<peerVars, slotVars, nConnected, poolVars, accFd, accTmp,
                   cursor, join_status, rdVars, mainVars>>

\* select() reports a client, the first closed socket is taken and accept()
\* returns a descriptor that the socket does not hold yet.
AcceptClient ==
    /\ accPc = "select"
    /\ \E s \in Slots, c \in backlog :
          /\ FirstClosed(s)
          /\ clientFd' = s
          /\ accFd' = c
          /\ backlog' = backlog \ {c}
    /\ accPc' = "publish"
    /\ UNCHANGED <<conn, listening, slotVars, nConnected, poolVars, accTmp, cursor,
                   join_status, rdVars, mainVars>>

\* setupTimeouts fails: the descriptor is closed again, and open() has failed.
AcceptNoTimeouts ==
    /\ accPc = "select"
    /\ \E s \in Slots : FirstClosed(s)
    /\ \E c \in backlog : backlog' = backlog \ {c}
    /\ clientFd' = -1
    /\ accPc' = "loop"
    /\ UNCHANGED <<conn, listening, slotVars, nConnected, poolVars, accFd, accTmp,
                   cursor, join_status, rdVars, mainVars>>

\* IpSocket::open stores the descriptor under the socket's lock.
AcceptPublish ==
    /\ accPc = "publish"
    /\ sock' = [sock EXCEPT ![clientFd] = accFd]
    /\ accFd' = NoConn
    /\ accPc' = "incLoad"
    /\ UNCHANGED <<peerVars, clientDeviceID, nConnected, poolVars, clientFd, accTmp,
                   cursor, join_status, rdVars, mainVars>>

\* current_client_connections += 1: load, then store.
AcceptIncLoad ==
    /\ accPc = "incLoad"
    /\ accTmp' = nConnected
    /\ accPc' = "incStore"
    /\ UNCHANGED <<peerVars, slotVars, nConnected, poolVars, clientFd, accFd, cursor,
                   join_status, rdVars, mainVars>>

AcceptIncStore ==
    /\ accPc = "incStore"
    /\ nConnected' = accTmp + 1
    /\ accTmp' = 0
    /\ accPc' = IF ID_PROTOCOL THEN "recvID" ELSE "findTask"
    /\ UNCHANGED <<peerVars, slotVars, poolVars, clientFd, accFd, cursor,
                   join_status, rdVars, mainVars>>

\* recvClientID gets a well formed ID from the client.
AcceptRecvID ==
    /\ accPc = "recvID" /\ Opened(clientFd) /\ conn[sock[clientFd]] = "alive"
    /\ clientDeviceID' = [clientDeviceID EXCEPT ![clientFd] = sock[clientFd]]
    /\ accPc' = "sendID"
    /\ UNCHANGED <<peerVars, sock, nConnected, poolVars, clientFd, accFd, accTmp, cursor,
                   join_status, rdVars, mainVars>>

\* recvClientID closes the socket and fails, because what the client sent is not
\* an ID ...
AcceptBadID ==
    /\ accPc = "recvID" /\ Opened(clientFd) /\ conn[sock[clientFd]] = "alive"
    /\ sock' = [sock EXCEPT ![clientFd] = NoConn]
    /\ accPc' = "closeCheck"
    /\ UNCHANGED <<peerVars, clientDeviceID, nConnected, poolVars, clientFd, accFd, accTmp,
                   cursor, join_status, rdVars, mainVars>>

\* ... or because the client is gone, or the socket was closed by another thread.
\* Only this thread opens sockets, so the first step of manager.close(clientFd),
\* which closes the socket again, finds it closed.
AcceptLostID ==
    /\ accPc = "recvID"
    /\ Opened(clientFd) => conn[sock[clientFd]] = "gone"
    /\ sock' = [sock EXCEPT ![clientFd] = NoConn]
    /\ accPc' = "closeCheck"
    /\ UNCHANGED <<peerVars, clientDeviceID, nConnected, poolVars, clientFd, accFd, accTmp,
                   cursor, join_status, rdVars, mainVars>>

\* The rest of manager.close(clientFd): forget the ID, test, load and store.
AcceptCloseCheck ==
    /\ accPc = "closeCheck"
    /\ clientDeviceID' = [clientDeviceID EXCEPT ![clientFd] = NoConn]
    /\ accPc' = IF nConnected > 0 THEN "closeLoad" ELSE "loop"
    /\ clientFd' = -1
    /\ UNCHANGED <<peerVars, sock, nConnected, poolVars, accFd, accTmp, cursor,
                   join_status, rdVars, mainVars>>

AcceptCloseLoad ==
    /\ accPc = "closeLoad"
    /\ accTmp' = nConnected
    /\ accPc' = "closeStore"
    /\ UNCHANGED <<peerVars, slotVars, nConnected, poolVars, clientFd, accFd, cursor,
                   join_status, rdVars, mainVars>>

AcceptCloseStore ==
    /\ accPc = "closeStore"
    /\ nConnected' = accTmp - 1
    /\ accTmp' = 0
    /\ accPc' = "loop"
    /\ UNCHANGED <<peerVars, slotVars, poolVars, clientFd, accFd, cursor,
                   join_status, rdVars, mainVars>>

\* sendSrvrID succeeds (the kernel may accept bytes for a client that is gone).
AcceptSendID ==
    /\ accPc = "sendID" /\ Opened(clientFd)
    /\ accPc' = "findTask"
    /\ UNCHANGED <<peerVars, slotVars, nConnected, poolVars, clientFd, accFd, accTmp, cursor,
                   join_status, rdVars, mainVars>>

\* sendSrvrID fails: TcpServerSocket::close, and no manager.close.
AcceptSendIDFails ==
    /\ accPc = "sendID"
    /\ Opened(clientFd) => conn[sock[clientFd]] = "gone"
    /\ sock' = [sock EXCEPT ![clientFd] = NoConn]
    /\ accPc' = "loop"
    /\ clientFd' = -1
    /\ UNCHANGED <<peerVars, clientDeviceID, nConnected, poolVars, accFd, accTmp,
                   cursor, join_status, rdVars, mainVars>>

\* The first task that is not started runs readTask(&params).
AcceptStartTask ==
    /\ accPc = "findTask"
    /\ \E t \in Tasks :
          /\ FirstNotStarted(t)
          /\ taskCount' = taskCount + 1
          /\ started' = started \cup {t}
          /\ params' = clientFd
          /\ rdPc' = [rdPc EXCEPT ![t] = "start"]
    /\ accPc' = "loop"
    /\ clientFd' = -1
    /\ UNCHANGED <<peerVars, slotVars, nConnected, accFd, accTmp, cursor,
                   join_status, rdIndex, rdConn, rdTmp, mainVars>>

\* Every task is started: the for loop ends without one for this client.
AcceptNoTask ==
    /\ accPc = "findTask" /\ started = Tasks
    /\ accPc' = "loop"
    /\ clientFd' = -1
    /\ UNCHANGED <<peerVars, slotVars, nConnected, poolVars, accFd, accTmp, cursor,
                   join_status, rdVars, mainVars>>

\* What pthread_tryjoin_np leaves in join_status at task i: nothing is asked,
\* and the previous answer stays, when the task is not started.
JoinAnswer(i) ==
    IF i \notin started THEN join_status ELSE IF rdPc[i] = "exited" THEN 0 ELSE EBUSY

\* One iteration of the reaping loop, the same code in the accept loop ("reap")
\* and in the shutdown sequence ("join").
AcceptReap ==
    /\ accPc \in {"reap", "join"} /\ cursor < MAX_TASKS
    /\ join_status' = JoinAnswer(cursor)
    /\ IF JoinAnswer(cursor) = 0
       THEN /\ taskCount' = IF taskCount > 0 THEN taskCount - 1 ELSE taskCount
            /\ started' = started \ {cursor}
            /\ rdPc' = [rdPc EXCEPT ![cursor] = IF @ = "exited" THEN "idle" ELSE @]
       ELSE UNCHANGED <<taskCount, started, rdPc>>
    /\ cursor' = cursor + 1
    /\ UNCHANGED <<peerVars, slotVars, nConnected, params, accPc, clientFd, accFd, accTmp,
                   rdIndex, rdConn, rdTmp, mainVars>>

AcceptReaped ==
    /\ accPc \in {"reap", "join"} /\ cursor = MAX_TASKS
    /\ accPc' = IF accPc = "reap" THEN "loop" ELSE "closeAll"
    /\ cursor' = 0
    /\ UNCHANGED <<peerVars, slotVars, nConnected, poolVars, clientFd, accFd, accTmp,
                   join_status, rdVars, mainVars>>

\* closeAll at the end of acceptTask, one socket a step: nothing can open one.
AcceptCloseAll ==
    /\ accPc = "closeAll" /\ cursor < MAX_CLIENTS
    /\ sock' = [sock EXCEPT ![cursor] = NoConn]
    /\ clientDeviceID' = [clientDeviceID EXCEPT ![cursor] = NoConn]
    /\ cursor' = cursor + 1
    /\ UNCHANGED <<peerVars, nConnected, poolVars, accPc, clientFd, accFd, accTmp,
                   join_status, rdVars, mainVars>>

AcceptDone ==
    /\ accPc = "closeAll" /\ cursor = MAX_CLIENTS
    /\ nConnected' = 0
    /\ accPc' = "done"
    /\ cursor' = 0
    /\ UNCHANGED <<peerVars, slotVars, poolVars, clientFd, accFd, accTmp,
                   join_status, rdVars, mainVars>>

-----------------------------------------------------------------------------
(* A read thread (readTask).                                                *)

Goto(t, pc) == rdPc' = [rdPc EXCEPT ![t] = pc]

\* IpSocket::close of the socket the thread works on.
CloseOwn(t) == sock' = [sock EXCEPT ![rdIndex[t]] = NoConn]

\* index = params->client_index, through a pointer into the accept thread's
\* stack: what it reads is arbitrary once acceptTask has returned (a value
\* outside the pool ends the process in getSocketHandler's assertion).
ReaderStart(t) ==
    /\ rdPc[t] = "start"
    /\ \E i \in IF accPc = "done" THEN Slots ELSE {params} :
          rdIndex' = [rdIndex EXCEPT ![t] = i]
    /\ Goto(t, "check")
    /\ UNCHANGED <<peerVars, slotVars, nConnected, poolVars, accVars, rdConn, rdTmp, mainVars>>

\* The tests at the head of the loop, and a buffer from getBuffer.  An iteration
\* that gets an empty buffer changes nothing here: it is a stuttering step.
ReaderCheck(t) ==
    /\ rdPc[t] = "check"
    /\ Goto(t, IF ~Opened(rdIndex[t]) \/ m_stop THEN "mclose" ELSE "recv")
    /\ UNCHANGED <<peerVars, slotVars, nConnected, poolVars, accVars,
                   rdIndex, rdConn, rdTmp, mainVars>>

\* IpSocket::recv reads the descriptor and blocks on it; -1 is SOCK_DISCONNECTED.
ReaderRecv(t) ==
    /\ rdPc[t] = "recv"
    /\ rdConn' = [rdConn EXCEPT ![t] = sock[rdIndex[t]]]
    /\ Goto(t, IF Opened(rdIndex[t]) THEN "blocked" ELSE "hclose")
    /\ UNCHANGED <<peerVars, slotVars, nConnected, poolVars, accVars, rdIndex, rdTmp, mainVars>>

\* recv returns bytes (or SOCK_INTERRUPTED_TRY_AGAIN): sendBuffer, loop condition.
ReaderData(t) ==
    /\ rdPc[t] = "blocked" /\ rdConn[t] \in OpenFds /\ conn[rdConn[t]] = "alive"
    /\ rdConn' = [rdConn EXCEPT ![t] = NoConn]
    /\ Goto(t, IF m_stop THEN "mclose" ELSE "check")
    /\ UNCHANGED <<peerVars, slotVars, nConnected, poolVars, accVars, rdIndex, rdTmp, mainVars>>

\* recv returns 0 bytes or an error, because the client is gone or because the
\* descriptor was shut down by another thread: IpSocket::recv closes the socket.
ReaderDisconnected(t) ==
    /\ rdPc[t] = "blocked"
    /\ rdConn[t] \in OpenFds => conn[rdConn[t]] = "gone"
    /\ CloseOwn(t)
    /\ rdConn' = [rdConn EXCEPT ![t] = NoConn]
    /\ Goto(t, "hclose")
    /\ UNCHANGED <<peerVars, clientDeviceID, nConnected, poolVars, accVars,
                   rdIndex, rdTmp, mainVars>>

\* getSocketHandler(index).close(): the descriptor, then the ID; then sendBuffer.
ReaderHandlerClose(t) ==
    /\ rdPc[t] = "hclose"
    /\ CloseOwn(t)
    /\ Goto(t, "hreset")
    /\ UNCHANGED <<peerVars, clientDeviceID, nConnected, poolVars, accVars,
                   rdIndex, rdConn, rdTmp, mainVars>>

ReaderHandlerReset(t) ==
    /\ rdPc[t] = "hreset"
    /\ clientDeviceID' = [clientDeviceID EXCEPT ![rdIndex[t]] = NoConn]
    /\ Goto(t, "mclose")
    /\ UNCHANGED <<peerVars, sock, nConnected, poolVars, accVars,
                   rdIndex, rdConn, rdTmp, mainVars>>

\* manager.close(index): the descriptor, the ID and the test, the load, the store.
ReaderClose(t) ==
    /\ rdPc[t] = "mclose"
    /\ CloseOwn(t)
    /\ Goto(t, "mcheck")
    /\ UNCHANGED <<peerVars, clientDeviceID, nConnected, poolVars, accVars,
                   rdIndex, rdConn, rdTmp, mainVars>>

ReaderCloseCheck(t) ==
    /\ rdPc[t] = "mcheck"
    /\ clientDeviceID' = [clientDeviceID EXCEPT ![rdIndex[t]] = NoConn]
    /\ rdIndex' = [rdIndex EXCEPT ![t] = 0]
    /\ Goto(t, IF nConnected > 0 THEN "mload" ELSE "exited")
    /\ UNCHANGED <<peerVars, sock, nConnected, poolVars, accVars, rdConn, rdTmp, mainVars>>

ReaderCloseLoad(t) ==
    /\ rdPc[t] = "mload"
    /\ rdTmp' = [rdTmp EXCEPT ![t] = nConnected]
    /\ Goto(t, "mstore")
    /\ UNCHANGED <<peerVars, slotVars, nConnected, poolVars, accVars,
                   rdIndex, rdConn, mainVars>>

ReaderCloseStore(t) ==
    /\ rdPc[t] = "mstore"
    /\ nConnected' = rdTmp[t] - 1
    /\ rdTmp' = [rdTmp EXCEPT ![t] = 0]
    /\ Goto(t, "exited")
    /\ UNCHANGED <<peerVars, slotVars, poolVars, accVars, rdIndex, rdConn, mainVars>>

-----------------------------------------------------------------------------
(* The stopping thread: shutdown, stopAcceptTask, joinAcceptTask in the     *)
(* order instances.fpp runs them.  closeAll runs once with m_stop FALSE     *)
(* (from shutdown) and once with m_stop TRUE (from stopAcceptTask).         *)

\* manager.shutdown closes the listening descriptor: queued clients are reset.
MainShutdown ==
    /\ mainPc = "run"
    /\ listening' = FALSE
    /\ backlog' = {}
    /\ conn' = [c \in Conns |-> IF c \in backlog THEN "gone" ELSE conn[c]]
    /\ mainPc' = "close" /\ mainK' = 0
    /\ UNCHANGED <<slotVars, nConnected, poolVars, accVars, rdVars, m_stop>>

MainClose ==
    /\ mainPc = "close" /\ mainK < MAX_CLIENTS
    /\ sock' = [sock EXCEPT ![mainK] = NoConn]
    /\ mainPc' = "reset"
    /\ UNCHANGED <<peerVars, clientDeviceID, nConnected, poolVars, accVars, rdVars,
                   mainK, m_stop>>

MainReset ==
    /\ mainPc = "reset"
    /\ clientDeviceID' = [clientDeviceID EXCEPT ![mainK] = NoConn]
    /\ mainK' = mainK + 1
    /\ mainPc' = "close"
    /\ UNCHANGED <<peerVars, sock, nConnected, poolVars, accVars, rdVars, m_stop>>

MainClosedAll ==
    /\ mainPc = "close" /\ mainK = MAX_CLIENTS
    /\ nConnected' = 0
    /\ mainK' = 0
    /\ mainPc' = IF m_stop THEN "joinAccept" ELSE "stop"
    /\ UNCHANGED <<peerVars, slotVars, poolVars, accVars, rdVars, m_stop>>

MainStopAcceptTask ==
    /\ mainPc = "stop"
    /\ m_stop' = TRUE
    /\ mainPc' = "close"
    /\ UNCHANGED <<peerVars, slotVars, nConnected, poolVars, accVars, rdVars, mainK>>

MainJoinAcceptTask ==
    /\ mainPc = "joinAccept" /\ accPc = "done"
    /\ mainPc' = "joined"
    /\ UNCHANGED <<peerVars, slotVars, nConnected, poolVars, accVars, rdVars, mainK, m_stop>>

-----------------------------------------------------------------------------
Peer(c) == PeerConnect(c) \/ PeerClose(c)

\* The steps of the accept thread that need no byte from a client.
AcceptAlone ==
    \/ AcceptLoop \/ AcceptHead \/ AcceptNothing \/ AcceptClient \/ AcceptNoTimeouts
    \/ AcceptPublish
    \/ AcceptIncLoad \/ AcceptIncStore \/ AcceptLostID
    \/ AcceptCloseCheck \/ AcceptCloseLoad \/ AcceptCloseStore
    \/ AcceptSendID \/ AcceptSendIDFails \/ AcceptStartTask \/ AcceptNoTask
    \/ AcceptReap \/ AcceptReaped \/ AcceptCloseAll \/ AcceptDone

AcceptTask == AcceptAlone \/ AcceptRecvID \/ AcceptBadID

\* The steps of a read thread that need no byte from its client.
ReaderAlone(t) ==
    \/ ReaderStart(t) \/ ReaderCheck(t) \/ ReaderRecv(t) \/ ReaderDisconnected(t)
    \/ ReaderHandlerClose(t) \/ ReaderHandlerReset(t) \/ ReaderClose(t)
    \/ ReaderCloseCheck(t) \/ ReaderCloseLoad(t) \/ ReaderCloseStore(t)

ReadTask(t) == ReaderAlone(t) \/ ReaderData(t)

Stopping ==
    \/ MainClose \/ MainReset \/ MainClosedAll
    \/ MainStopAcceptTask \/ MainJoinAcceptTask

Next ==
    \/ \E c \in Conns : Peer(c)
    \/ AcceptTask
    \/ \E t \in Tasks : ReadTask(t)
    \/ MainShutdown
    \/ Stopping

\* Every thread keeps running.  Nobody has to stop the component, and no client
\* has to connect, send or close.
ThreadFairness ==
    /\ WF_vars(AcceptAlone)
    /\ \A t \in Tasks : WF_vars(ReaderAlone(t))
    /\ WF_vars(Stopping)

Spec == Init /\ [][Next]_vars

ThreadSpec == Spec /\ ThreadFairness

\* In addition no client leaves the accept thread waiting in a handshake for ever:
\* it sends something or closes.
AnsweringSpec == ThreadSpec /\ WF_vars(AcceptRecvID \/ AcceptBadID)

-----------------------------------------------------------------------------
(* What holds.                                                              *)

\* The values the variables can have.
TypeOK ==
    /\ conn \in [Conns -> {"alive", "gone"}]
    /\ backlog \subseteq Conns
    /\ listening \in BOOLEAN
    /\ sock \in [Slots -> Conns \cup {NoConn}]
    /\ clientDeviceID \in [Slots -> Conns \cup {NoConn}]
    /\ nConnected \in Int
    /\ accPc \in AccPcs
    /\ clientFd \in Slots \cup {-1}
    /\ accPc \in {"publish", "incLoad", "incStore", "recvID", "sendID", "closeCheck",
                  "findTask"} => clientFd \in Slots
    /\ accFd \in Conns \cup {NoConn}
    /\ accTmp \in Int
    /\ cursor \in Nat
    /\ join_status \in {0, EBUSY}
    /\ params \in Slots
    /\ taskCount \in Nat
    /\ started \subseteq Tasks
    /\ rdPc \in [Tasks -> RdPcs]
    /\ rdIndex \in [Tasks -> Slots]
    /\ rdConn \in [Tasks -> Conns \cup {NoConn}]
    /\ \A t \in Tasks : rdPc[t] = "blocked" => rdConn[t] \in Conns
    /\ rdTmp \in [Tasks -> Int]
    /\ mainPc \in MainPcs
    /\ mainK \in Nat
    /\ mainPc = "reset" => mainK \in Slots
    /\ m_stop \in BOOLEAN

\* IpSocket::open asserts that the socket it opens is closed: between the scan
\* of the manager and the store of the descriptor no thread has opened it.
OpensClosedSocket == accPc = "publish" => ~Opened(clientFd)

\* A task is marked started exactly while it has a thread that was not joined:
\* startAcceptTask never overwrites the handle of a thread that still runs, and
\* pthread_tryjoin_np is never asked about a thread that was joined before.
ThreadPerStartedTask == \A t \in Tasks : t \in started <=> rdPc[t] # "idle"

\* taskCount never exceeds the threads that exist, and never wraps below zero,
\* although one reaping pass may subtract one thread several times.
TaskCountBounded == taskCount <= Cardinality(started)

\* However the unlocked increments and decrements interleave, the count of
\* connections that admits another client never passes the size of the pool.
ConnectionsBounded == nConnected <= MAX_CLIENTS

\* Once the handshake on a socket is over, an open socket that carries a device
\* ID carries the one its own client presented, not that of a client before it.
InHandshake(s) == accPc \in {"incLoad", "incStore", "recvID"} /\ clientFd = s

ClientIDMatches ==
    \A s \in Slots :
        Opened(s) /\ clientDeviceID[s] # NoConn /\ ~InHandshake(s)
            => clientDeviceID[s] = sock[s]

\* When acceptTask has returned no socket of the pool is open, also not one that
\* was accepted while the stopping thread was closing them.
AllClosedWhenDone == accPc = "done" => \A s \in Slots : ~Opened(s)

\* A connection is known by its device ID when the handshake on its socket is over
\* and the socket stores the ID its client presented.
KnownConns ==
    {sock[s] : s \in {r \in Slots : Opened(r) /\ clientDeviceID[r] = sock[r]
                                     /\ ~InHandshake(r)}}

Pool == INSTANCE ConnectionPool WITH
    Peers <- Conns, Capacity <- MAX_CLIENTS,
    open <- OpenFds, known <- KnownConns, done <- accPc = "done"

\* Whatever the threads do to the sockets, the IDs and the count, the pool behaves
\* as ConnectionPool: a slot is given to a new connection only after the old one was
\* closed, a new one never starts with the ID of another, and nothing opens once
\* acceptTask has returned.
RefinesConnectionPool == Pool!Spec

\* How many statements of acceptTask lie at most between pc and its return, and of
\* readTask between pc and the end of the thread, once m_stop is set.
AcceptRank(pc) ==
    CASE pc = "done" -> 0
      [] pc = "closeAll" -> 1
      [] pc = "join" -> 2
      [] pc = "loop" -> 3
      [] pc \in {"reap", "findTask", "closeStore"} -> 4
      [] pc \in {"sendID", "closeLoad"} -> 5
      [] pc = "closeCheck" -> 6
      [] pc = "recvID" -> 7
      [] pc = "incStore" -> 8
      [] pc = "incLoad" -> 9
      [] pc = "publish" -> 10
      [] pc = "select" -> 11
      [] pc = "head" -> 12

ReaderRank(pc) ==
    CASE pc = "idle" -> 0
      [] pc = "exited" -> 1
      [] pc = "mstore" -> 2
      [] pc = "mload" -> 3
      [] pc = "mcheck" -> 4
      [] pc = "mclose" -> 5
      [] pc = "hreset" -> 6
      [] pc = "hclose" -> 7
      [] pc = "blocked" -> 8
      [] pc = "recv" -> 9
      [] pc = "check" -> 10
      [] pc = "start" -> 11

\* The next iteration of a for loop over the tasks or over the sockets.
Iterates ==
    /\ accPc' = accPc /\ cursor' = cursor + 1
    /\ cursor < IF accPc = "closeAll" THEN MAX_CLIENTS ELSE MAX_TASKS

\* Once stopAcceptTask has set m_stop no thread goes round a loop for ever, whatever
\* clients connect and send and whatever the others do: it stays set, every step of the
\* accept thread takes it nearer to its return or is one of a bounded number of
\* iterations, every step of a read thread takes it nearer to its end, and a thread is
\* started only by a step that takes the accept thread forward.  So a bounded number of
\* steps is left; that they are taken is what JoinReturns and ReadersEnd add.
StopWindsDown ==
    [][m_stop =>
        /\ m_stop'
        /\ <<accPc, cursor>>' # <<accPc, cursor>>
               => AcceptRank(accPc') < AcceptRank(accPc) \/ Iterates
        /\ \A t \in Tasks : rdPc'[t] # rdPc[t]
               => \/ ReaderRank(rdPc'[t]) < ReaderRank(rdPc[t])
                  \/ rdPc[t] = "idle" /\ AcceptRank(accPc') < AcceptRank(accPc)]_vars

\* A read thread blocked on a client that went away ends.
DeadClientEndsReader ==
    \A t \in Tasks :
        (rdPc[t] = "blocked" /\ conn[rdConn[t]] = "gone") ~> rdPc[t] \in {"exited", "idle"}

\* After stopAcceptTask there comes a point from which no read thread runs.
ReadersEnd == m_stop ~> [](\A t \in Tasks : rdPc[t] \in {"exited", "idle"})

\* joinAcceptTask returns: the accept task ends once it was told to stop
\* (MTSTask.hpp: "this will block and return after the task has been stopped"),
\* whatever clients connect during the shutdown.
JoinReturns == (mainPc = "stop") ~> (mainPc = "joined")

-----------------------------------------------------------------------------
(* What the documents, comments and tests say, and the code does not do.    *)

\* sdd.md: the server opens "a thread to continuously read from the socket" of
\* each client, here once every new thread has fetched its parameters.
EveryClientIsRead ==
    /\ accPc \in {"loop", "head"} /\ started # Tasks
    /\ \A t \in Tasks : rdPc[t] # "start"
    /\ mainPc = "run"
    => \A s \in Slots : Opened(s) =>
            \E t \in Tasks : rdPc[t] \notin {"idle", "exited"} /\ rdIndex[t] = s

\* sdd.md: a read thread closes a connection when its client has closed it; so
\* while nobody stops the component it never closes the connection of another.
ClosesOnlyDeadClients ==
    [][(mainPc = "run" /\ \E t \in Tasks : ReadTask(t))
        => \A s \in Slots : (Opened(s) /\ sock'[s] = NoConn) => conn[sock[s]] = "gone"]_vars
=============================================================================
