-------------------------------- MODULE Mesh --------------------------------
(***************************************************************************)
(* The nodes of a mesh with both halves of their drivers: the open task of *)
(* each connects to every host of the host file, the accept task of each   *)
(* answers, while processes crash and are started again, connections are   *)
(* lost, and packets are sent.  It composes ServerPool and ClientPool at   *)
(* the granularity of a handshake: what a thread does between two waits    *)
(* for the other side is one step.  The races inside a node, which those   *)
(* modules are about, appear here by what they leave behind: a client that *)
(* no thread reads, and a count that missed an update.                     *)
(***************************************************************************)
EXTENDS Integers, Sequences, FiniteSets, SequencesExt

CONSTANTS
    Nodes,
    HOSTFILE,     \* the nodes in the order of node_hostfile_0.txt
    MAX_CLIENTS,  \* sockets of a server
    FAULTS,       \* bound: crashes and lost connections
    RACES,        \* bound: races inside a node
    NoEnd         \* the accept task has no connection in hand

LISTEN_BACKLOG == 2   \* listen(fd, 1)

ASSUME MeshConstants ==
    /\ IsFiniteSet(Nodes)
    /\ HOSTFILE \in Seq(Nodes) /\ HOSTFILE # <<>>
    /\ MAX_CLIENTS \in Nat \ {0} /\ FAULTS \in Nat /\ RACES \in Nat
    /\ \A n \in Nodes, s \in {"live", "named", "silent"} : NoEnd # [from |-> n, state |-> s]

\* A server's end of a connection: the client, and whether that client's end is
\* still there.  A dead end is one with bytes to read (the ID was sent) or without.
Ends == [from : Nodes, state : {"live", "named", "silent"}]

VARIABLES
    mode,      \* mode[n]: "down"; "deaf", running without a listening socket; "up"
    faults,    \* faults so far
    races,     \* races so far
    line,      \* line[n]: the line of the host file the open task is at
    link,      \* link[n][m]: n's client socket for host m: "none", "new" (connected),
               \*   "wait" (its ID is sent, it waits for the server's), "open"
    answered,  \* answered[n]: the servers whose IDs are under way to n
    queue,     \* queue[m]: connections not accepted yet
    acc,       \* acc[m]: the connection the accept task does the handshake with
    served,    \* served[m]: the clients past the handshake whose socket m holds
    unread,    \* unread[m]: those of them that no read thread reads
    zombies,   \* zombies[m]: read threads whose client is gone
    orphans,   \* orphans[m]: open sockets whose client is gone and that nobody closes
    count      \* count[m]: current_client_connections

clientVars == <<line, link, answered>>
serverVars == <<queue, acc, served, unread, zombies, orphans, count>>
vars == <<mode, faults, races, clientVars, serverVars>>

Init ==
    /\ mode = [n \in Nodes |-> "up"]
    /\ faults = 0 /\ races = 0
    /\ line = [n \in Nodes |-> 1]
    /\ link = [n \in Nodes |-> [m \in Nodes |-> "none"]]
    /\ answered = [n \in Nodes |-> {}]
    /\ queue = [m \in Nodes |-> <<>>]
    /\ acc = [m \in Nodes |-> NoEnd]
    /\ served = [m \in Nodes |-> {}] /\ unread = [m \in Nodes |-> {}]
    /\ zombies = [m \in Nodes |-> 0] /\ orphans = [m \in Nodes |-> 0]
    /\ count = [m \in Nodes |-> 0]

Running(n) == mode[n] # "down"
Live(n) == [from |-> n, state |-> "live"]

\* The server m has an end of the connection of n.
Alive(n, m) == Live(n) \in Range(queue[m]) \/ acc[m] = Live(n) \/ n \in served[m]

\* What is left of n's end in a server once n's side is gone.
Dead(e, n, m) ==
    IF e # Live(n) THEN e
    ELSE [from |-> n, state |-> IF link[n][m] = "new" THEN "silent" ELSE "named"]

-----------------------------------------------------------------------------
(* The open task of n, at host h of its file.                               *)

Host(n) == HOSTFILE[line[n]]
\* A fault: the file is not rewound at its end.
NextLine_NoRewind(n) == line' = [line EXCEPT ![n] = @ + 1]

\* getHostFileEntry rewinds the file at its end.
NextLine(n) == line' = [line EXCEPT ![n] = IF @ = Len(HOSTFILE) THEN 1 ELSE @ + 1]
SetLink(n, m, state) == link' = [link EXCEPT ![n][m] = state]

\* checkIfAlreadyConnected: a socket is open, whether or not its peer is there.
OpenSkips(n) ==
    /\ Running(n) /\ link[n][Host(n)] = "open"
    /\ NextLine(n)
    /\ UNCHANGED <<mode, faults, races, link, answered, serverVars>>

\* A fault: the same host again.
OpenRefused_Retries(n) ==
    /\ Running(n) /\ link[n][Host(n)] = "none"
    /\ mode[Host(n)] # "up" \/ Len(queue[Host(n)]) = LISTEN_BACKLOG
    /\ UNCHANGED vars

\* connect() is refused, or the backlog is full until it gives up.
OpenRefused(n) ==
    /\ Running(n) /\ link[n][Host(n)] = "none"
    /\ mode[Host(n)] # "up" \/ Len(queue[Host(n)]) = LISTEN_BACKLOG
    /\ NextLine(n)
    /\ UNCHANGED <<mode, faults, races, link, answered, serverVars>>

OpenConnects(n) ==
    /\ Running(n) /\ link[n][Host(n)] = "none"
    /\ mode[Host(n)] = "up" /\ Len(queue[Host(n)]) < LISTEN_BACKLOG
    /\ queue' = [queue EXCEPT ![Host(n)] = Append(@, Live(n))]
    /\ SetLink(n, Host(n), "new")
    /\ UNCHANGED <<mode, faults, races, line, answered, acc, served, unread, zombies, orphans,
                   count>>

\* A fault: the ID is not sent before the server's has come.
OpenSendsID_Later(n) ==
    /\ Running(n) /\ link[n][Host(n)] = "new" /\ Host(n) \in answered[n]
    /\ SetLink(n, Host(n), "wait")
    /\ UNCHANGED <<mode, faults, races, line, answered, serverVars>>

\* A fault: the answer is left to the next round through the host file.
OpenSendsID_MovesOn(n) ==
    /\ Running(n) /\ link[n][Host(n)] = "new"
    /\ SetLink(n, Host(n), "wait")
    /\ NextLine(n)
    /\ UNCHANGED <<mode, faults, races, answered, serverVars>>

OpenSendsID(n) ==
    /\ Running(n) /\ link[n][Host(n)] = "new"
    /\ SetLink(n, Host(n), "wait")
    /\ UNCHANGED <<mode, faults, races, line, answered, serverVars>>

\* A fault: the server's ID is not waited for.
OpenGetsID_AtOnce(n) ==
    /\ Running(n) /\ link[n][Host(n)] = "wait"
    /\ answered' = [answered EXCEPT ![n] = @ \ {Host(n)}]
    /\ SetLink(n, Host(n), "open")
    /\ NextLine(n)
    /\ UNCHANGED <<mode, faults, races, serverVars>>

\* recvSrvrID returns the ID; it may lie in the socket longer than its server lives.
OpenGetsID(n) ==
    /\ Running(n) /\ link[n][Host(n)] = "wait" /\ Host(n) \in answered[n]
    /\ answered' = [answered EXCEPT ![n] = @ \ {Host(n)}]
    /\ SetLink(n, Host(n), "open")
    /\ NextLine(n)
    /\ UNCHANGED <<mode, faults, races, serverVars>>

\* A fault: the open task gives up an answer that takes long.
OpenLosesPeer_TimesOut(n) ==
    /\ Running(n) /\ link[n][Host(n)] \in {"new", "wait"} /\ Host(n) \notin answered[n]
    /\ SetLink(n, Host(n), "none")
    /\ NextLine(n)
    /\ UNCHANGED <<mode, faults, races, answered, serverVars>>

\* sendClientID or recvSrvrID fails, for the server's end is gone: close.
OpenLosesPeer(n) ==
    /\ Running(n) /\ link[n][Host(n)] \in {"new", "wait"}
    /\ ~Alive(n, Host(n)) /\ Host(n) \notin answered[n]
    /\ SetLink(n, Host(n), "none")
    /\ NextLine(n)
    /\ UNCHANGED <<mode, faults, races, answered, serverVars>>

-----------------------------------------------------------------------------
(* The accept task and the read threads of m.                               *)

Occupied(m) ==
    Cardinality(served[m]) + zombies[m] + orphans[m] + (IF acc[m] = NoEnd THEN 0 ELSE 1)

Race == races < RACES /\ races' = races + 1

\* current_client_connections is updated without a lock.  The ++ may be lost in a -- ...
Add(m) ==
    \/ count' = [count EXCEPT ![m] = @ + 1] /\ UNCHANGED races
    \/ Race /\ UNCHANGED count

\* ... and the -- of MultiTcpServerManager::close in a ++ or in another --; it may take a
\* ++ with it, or follow a test that another -- has made stale (see ServerPool).
Subtract(m) ==
    \/ count' = [count EXCEPT ![m] = IF @ > 0 THEN @ - 1 ELSE @] /\ UNCHANGED races
    \/ Race /\ \E k \in 0 .. 2 : count' = [count EXCEPT ![m] = @ - k]

\* accept, when the count allows and a socket is free.  There are more read threads than
\* sockets, so taskCount = MAX_TASKS only says that ended ones are not joined yet.
AcceptTakes(m) ==
    /\ Running(m) /\ acc[m] = NoEnd /\ queue[m] # <<>>
    /\ count[m] < MAX_CLIENTS /\ Occupied(m) < MAX_CLIENTS
    /\ acc' = [acc EXCEPT ![m] = Head(queue[m])]
    /\ queue' = [queue EXCEPT ![m] = Tail(@)]
    /\ Add(m)
    /\ UNCHANGED <<mode, faults, clientVars, served, unread, zombies, orphans>>

\* recvClientID has the client's ID ...
HasID(m) ==
    \/ acc[m].state = "live" /\ link[acc[m].from][m] # "new"
    \/ acc[m].state = "named"

\* ... and sendSrvrID answers; a thread is started for the client.
AcceptAnswers(m) ==
    /\ Running(m) /\ acc[m] # NoEnd /\ HasID(m) /\ acc[m].state = "live"
    /\ answered' = [answered EXCEPT ![acc[m].from] = @ \cup {m}]
    /\ served' = [served EXCEPT ![m] = @ \cup {acc[m].from}]
    /\ acc' = [acc EXCEPT ![m] = NoEnd]
    /\ UNCHANGED <<mode, faults, races, line, link, queue, unread, zombies, orphans,
                   count>>

\* The kernel takes the answer for a client that is gone.
AcceptAnswersNobody(m) ==
    /\ Running(m) /\ acc[m] # NoEnd /\ HasID(m) /\ acc[m].state = "named"
    /\ zombies' = [zombies EXCEPT ![m] = @ + 1]
    /\ acc' = [acc EXCEPT ![m] = NoEnd]
    /\ UNCHANGED <<mode, faults, races, clientVars, queue, served, unread, orphans,
                   count>>

\* sendSrvrID answers, but no thread reads from the client: no task was free, or the new
\* thread found the params of the client after it.
AcceptLeavesUnread(m) ==
    /\ Running(m) /\ acc[m] # NoEnd /\ HasID(m)
    /\ Race
    /\ \/ /\ acc[m].state = "live"
          /\ answered' = [answered EXCEPT ![acc[m].from] = @ \cup {m}]
          /\ served' = [served EXCEPT ![m] = @ \cup {acc[m].from}]
          /\ unread' = [unread EXCEPT ![m] = @ \cup {acc[m].from}]
          /\ UNCHANGED orphans
       \/ /\ acc[m].state = "named"
          /\ orphans' = [orphans EXCEPT ![m] = @ + 1]
          /\ UNCHANGED <<answered, served, unread>>
    /\ acc' = [acc EXCEPT ![m] = NoEnd]
    /\ UNCHANGED <<mode, faults, line, link, queue, zombies, count>>

\* sendSrvrID fails and closes the socket itself, so nothing is subtracted.
AcceptAnswerFails(m) ==
    /\ Running(m) /\ acc[m] # NoEnd /\ HasID(m) /\ acc[m].state = "named"
    /\ acc' = [acc EXCEPT ![m] = NoEnd]
    /\ UNCHANGED <<mode, faults, races, clientVars, queue, served, unread, zombies,
                   orphans, count>>

\* recvClientID fails; close subtracts.
AcceptLosesID(m) ==
    /\ Running(m) /\ acc[m] # NoEnd /\ acc[m].state = "silent"
    /\ acc' = [acc EXCEPT ![m] = NoEnd]
    /\ Subtract(m)
    /\ UNCHANGED <<mode, faults, clientVars, queue, served, unread, zombies, orphans>>

\* The recv of a read thread reports that its client is gone; it closes and ends.
ReaderEnds(m) ==
    /\ Running(m) /\ zombies[m] > 0
    /\ zombies' = [zombies EXCEPT ![m] = @ - 1]
    /\ Subtract(m)
    /\ UNCHANGED <<mode, faults, clientVars, queue, acc, served, unread, orphans>>

AcceptTask(m) ==
    \/ AcceptTakes(m) \/ AcceptAnswers(m) \/ AcceptAnswersNobody(m)
    \/ AcceptLeavesUnread(m) \/ AcceptAnswerFails(m) \/ AcceptLosesID(m)

OpenTask(n) ==
    \/ OpenSkips(n) \/ OpenRefused(n) \/ OpenConnects(n) \/ OpenSendsID(n)
    \/ OpenGetsID(n) \/ OpenLosesPeer(n)

-----------------------------------------------------------------------------
(* send_handler, for a packet that meets a socket whose peer is gone.  A    *)
(* packet to a peer that is there changes nothing here.                     *)

\* Unicast: EPIPE and ECONNRESET both close the socket.
UnicastCloses(n, m) ==
    /\ Running(n) /\ link[n][m] = "open" /\ ~Alive(n, m)
    /\ SetLink(n, m, "none")
    /\ UNCHANGED <<mode, faults, races, line, answered, serverVars>>

\* Broadcast: a send that ends with ECONNRESET closes the socket itself, EPIPE is not
\* looked at.
Broadcasts(n) ==
    /\ Running(n)
    /\ \E closed \in SUBSET {m \in Nodes : link[n][m] = "open" /\ ~Alive(n, m)} :
          link' = [link EXCEPT ![n] = [m \in Nodes |-> IF m \in closed THEN "none" ELSE link[n][m]]]
    /\ UNCHANGED <<mode, faults, races, line, answered, serverVars>>

-----------------------------------------------------------------------------
(* Faults.                                                                  *)

\* A process ends: its sockets with it, and its peers' ends are dead.
Crash(n) ==
    /\ Running(n) /\ faults < FAULTS
    /\ faults' = faults + 1
    /\ mode' = [mode EXCEPT ![n] = "down"]
    /\ line' = [line EXCEPT ![n] = 1]
    /\ link' = [link EXCEPT ![n] = [m \in Nodes |-> "none"]]
    /\ answered' = [answered EXCEPT ![n] = {}]
    /\ queue' = [m \in Nodes |->
          IF m = n THEN <<>> ELSE [i \in DOMAIN queue[m] |-> Dead(queue[m][i], n, m)]]
    /\ acc' = [m \in Nodes |-> IF m = n THEN NoEnd ELSE Dead(acc[m], n, m)]
    /\ served' = [m \in Nodes |-> IF m = n THEN {} ELSE served[m] \ {n}]
    /\ unread' = [m \in Nodes |-> IF m = n THEN {} ELSE unread[m] \ {n}]
    /\ zombies' = [m \in Nodes |->
          IF m = n THEN 0 ELSE zombies[m] + (IF n \in served[m] \ unread[m] THEN 1 ELSE 0)]
    /\ orphans' = [m \in Nodes |->
          IF m = n THEN 0 ELSE orphans[m] + (IF n \in unread[m] THEN 1 ELSE 0)]
    /\ count' = [count EXCEPT ![n] = 0]
    /\ UNCHANGED races

\* It is started again.  bind fails while connections of the old process linger on
\* the port, and startTasks does not look at the result of startup.
Restart(n) ==
    /\ mode[n] = "down"
    /\ \E s \in {"up", "deaf"} : mode' = [mode EXCEPT ![n] = s]
    /\ UNCHANGED <<faults, races, clientVars, serverVars>>

\* The connection from n to m breaks while both run: the network lost it, or a read
\* thread of m closed the wrong socket (see ServerPool).  No FIN or RST need tell the
\* server of an established one.
Breaks(n, m) ==
    /\ faults < FAULTS /\ link[n][m] # "none" /\ Alive(n, m)
    /\ faults' = faults + 1
    /\ queue' = [queue EXCEPT ![m] = [i \in DOMAIN @ |-> Dead(@[i], n, m)]]
    /\ acc' = [acc EXCEPT ![m] = Dead(@, n, m)]
    /\ served' = [served EXCEPT ![m] = @ \ {n}]
    /\ unread' = [unread EXCEPT ![m] = @ \ {n}]
    /\ \E told \in BOOLEAN :
          /\ told \/ link[n][m] = "open"
          /\ zombies' = [zombies EXCEPT ![m] =
                @ + (IF told /\ n \in served[m] \ unread[m] THEN 1 ELSE 0)]
          /\ orphans' = [orphans EXCEPT ![m] =
                @ + (IF n \in unread[m] \/ (~told /\ n \in served[m]) THEN 1 ELSE 0)]
    /\ UNCHANGED <<mode, races, clientVars, count>>

-----------------------------------------------------------------------------
Next ==
    \/ \E n \in Nodes :
          \/ OpenTask(n) \/ AcceptTask(n) \/ ReaderEnds(n)
          \/ Broadcasts(n) \/ Crash(n) \/ Restart(n)
    \/ \E n, m \in Nodes : UnicastCloses(n, m) \/ Breaks(n, m)

Spec == Init /\ [][Next]_vars

\* Threads run, and somebody starts a node that is down.
Fairness ==
    \A n \in Nodes : WF_vars(OpenTask(n)) /\ WF_vars(AcceptTask(n))
                     /\ WF_vars(ReaderEnds(n)) /\ WF_vars(Restart(n))

\* In addition the application keeps sending to every node by its ID.
UnicastSpec == Spec /\ Fairness /\ \A n, m \in Nodes : WF_vars(UnicastCloses(n, m))

-----------------------------------------------------------------------------
(* Properties.                                                              *)

\* Types: lines stay in the file, queues within the backlog, counts within the pool; a
\* lost update can take a count below zero.
TypeOK ==
    /\ mode \in [Nodes -> {"down", "deaf", "up"}]
    /\ faults \in 0 .. FAULTS /\ races \in 0 .. RACES
    /\ line \in [Nodes -> 1 .. Len(HOSTFILE)]
    /\ link \in [Nodes -> [Nodes -> {"none", "new", "wait", "open"}]]
    /\ answered \in [Nodes -> SUBSET Nodes]
    /\ queue \in [Nodes -> Seq(Ends)]
    /\ acc \in [Nodes -> Ends \cup {NoEnd}]
    /\ served \in [Nodes -> SUBSET Nodes] /\ unread \in [Nodes -> SUBSET Nodes]
    /\ zombies \in [Nodes -> Nat] /\ orphans \in [Nodes -> Nat]
    /\ count \in [Nodes -> Int]
    /\ \A m \in Nodes : /\ Len(queue[m]) <= LISTEN_BACKLOG
                         /\ -(2 * races) <= count[m] /\ count[m] <= MAX_CLIENTS

\* The two ends agree on where their connection is, across crashes and restarts of
\* either node, lost connections and answers that outlive their sender.  A client that
\* takes its connection for open (SocketOpenTask.cpp:72) does not still wait for its turn
\* at the server, be it in the backlog or with the accept task: what it took was no answer
\* to an earlier connection.  And a server is past the handshake (MTSTask.cpp:126) only
\* with clients that sent their ID on this connection and still have the socket.  Whether
\* a thread then reads the client is another question: see EveryClientIsRead of ServerPool.
HandshakeAgreement ==
    \A n, m \in Nodes :
        /\ link[n][m] = "open" /\ Alive(n, m) => n \in served[m]
        /\ n \in served[m] => link[n][m] \in {"wait", "open"}

\* Whoever waits in a handshake waits for somebody at work on it.  The client whose ID
\* the accept task waits for (MTSTask.cpp:115), with its backlog behind it, is at this
\* very host, about to send it; and the server whose answer an open task waits for
\* (SocketOpenTask.cpp:72), with the rest of the host file behind it, still runs and
\* has not answered before: no two of them can wait for each other.
WaitsForPartner ==
    \A n, m \in Nodes :
        /\ acc[m] = Live(n) /\ ~HasID(m) => Running(n) /\ Host(n) = m /\ link[n][m] = "new"
        /\ link[n][m] = "wait" /\ m \notin answered[n] /\ Alive(n, m)
               => mode[m] = "up" /\ n \notin served[m] /\ Host(n) = m

\* Neither half waits for ever in a handshake: not the open task in recvSrvrID
\* (SocketOpenTask.cpp:72), for the server answers or its end goes away, and not the
\* accept task in recvClientID (MTSTask.cpp:115).  ServerPool and ClientPool each
\* assume this of the other side.
HandshakesEnd ==
    \A m \in Nodes :
        /\ \A n \in Nodes : link[n][m] \in {"new", "wait"} ~> link[n][m] \in {"none", "open"}
        /\ acc[m] # NoEnd ~> acc[m] = NoEnd

\* The backlog, the accept task's hand and the sockets of a server, as one client sees
\* them.
Link(n, m) == INSTANCE Handshake WITH
    client <- link[n][m],
    server <- IF n \in served[m] THEN "served" ELSE IF Alive(n, m) THEN "pending" ELSE "none",
    answer <- m \in answered[n]

\* Each pair of nodes keeps the protocol of Handshake: a client takes only the answer to
\* its own ID on this connection, never one left over from before a crash, and gives a
\* connection up only when the server's end is gone and has left no answer; a server
\* answers once, to a client that waits.  (This is Link(n, m)!Spec for every pair, in the
\* form that TLC takes.)
RefinesHandshake ==
    /\ \A n, m \in Nodes : Link(n, m)!Init
    /\ [][\A n, m \in Nodes : Link(n, m)!Next \/ UNCHANGED Link(n, m)!vars]_vars

\* Connections come back without help (MultiTcpServerComponentImpl.hpp:160): once faults
\* are over, every running node has its connection to every host that listens.
Reopens ==
    \A n, m \in Range(HOSTFILE) :
        <>[](Running(n) /\ mode[m] = "up" => link[n][m] = "open" /\ Alive(n, m))
=============================================================================
