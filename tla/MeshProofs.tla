----------------------------- MODULE MeshProofs -----------------------------
(***************************************************************************)
(* Theorems of Mesh, for any number of nodes, hosts, sockets, faults and   *)
(* races.                                                                  *)
(***************************************************************************)
EXTENDS Mesh, SequenceTheorems, TLAPS

-----------------------------------------------------------------------------
\* The host the open task is at is a node, and so is the next.
LEMMA HostIsNode ==
    ASSUME TypeOK, NEW n \in Nodes
    PROVE  Host(n) \in Nodes
  BY MeshConstants DEF TypeOK, Host

LEMMA NextLineInFile ==
    ASSUME TypeOK, NEW n \in Nodes, NextLine(n)
    PROVE  line' \in [Nodes -> 1 .. Len(HOSTFILE)]
<1>1. Len(HOSTFILE) \in Nat \ {0}
  BY MeshConstants
<1>2. line[n] \in 1 .. Len(HOSTFILE)
  BY DEF TypeOK
<1>3. (IF line[n] = Len(HOSTFILE) THEN 1 ELSE line[n] + 1) \in 1 .. Len(HOSTFILE)
  BY <1>1, <1>2
<1> QED
  BY <1>3 DEF NextLine, TypeOK

\* A client's socket takes another state.
LEMMA LinkTypes ==
    ASSUME TypeOK, NEW n \in Nodes, NEW m \in Nodes,
           NEW s \in {"none", "new", "wait", "open"}, SetLink(n, m, s)
    PROVE  link' \in [Nodes -> [Nodes -> {"none", "new", "wait", "open"}]]
  BY DEF TypeOK, SetLink

\* What is left of an end is an end, and it is not live.
LEMMA DeadEnds ==
    ASSUME NEW n \in Nodes, NEW m \in Nodes, NEW e \in Ends
    PROVE  /\ Dead(e, n, m) \in Ends
           /\ Dead(e, n, m) # Live(n)
           /\ \A x \in Nodes : x # n => (Dead(e, n, m) = Live(x) <=> e = Live(x))
  BY DEF Dead, Live, Ends

\* In a queue as well, which keeps its length.
LEMMA DeadQueue ==
    ASSUME NEW n \in Nodes, NEW m \in Nodes, NEW q \in Seq(Ends)
    PROVE  /\ [i \in DOMAIN q |-> Dead(q[i], n, m)] \in Seq(Ends)
           /\ Len([i \in DOMAIN q |-> Dead(q[i], n, m)]) = Len(q)
<1> DEFINE r == [i \in 1 .. Len(q) |-> Dead(q[i], n, m)]
<1>1. r \in [1 .. Len(q) -> Ends]
  BY DeadEnds
<1>2. r \in Seq(Ends) /\ Len(r) = Len(q)
  <2> HIDE DEF r
  <2> QED
    BY <1>1, LenProperties
<1> QED
  BY <1>2

LEMMA NoEndIsNoEnd == NoEnd \notin Ends
  BY MeshConstants DEF Ends

\* No connection stays no connection.
LEMMA DeadAcc ==
    ASSUME NEW n \in Nodes, NEW m \in Nodes, NEW e \in Ends \cup {NoEnd}
    PROVE  /\ Dead(e, n, m) \in Ends \cup {NoEnd}
           /\ Dead(e, n, m) = NoEnd <=> e = NoEnd
           /\ Dead(e, n, m) # Live(n)
           /\ \A x \in Nodes : x # n => (Dead(e, n, m) = Live(x) <=> e = Live(x))
<1>1. CASE e = NoEnd
  <2>1. \A x \in Nodes : Live(x) \in Ends
    BY DEF Live, Ends
  <2> QED
    BY <1>1, <2>1, NoEndIsNoEnd DEF Dead
<1>2. CASE e \in Ends
  BY <1>2, DeadEnds, NoEndIsNoEnd
<1> QED
  BY <1>1, <1>2

-----------------------------------------------------------------------------
LEMMA OpenTypes ==
    ASSUME TypeOK, NEW n \in Nodes, OpenTask(n)
    PROVE  TypeOK'
<1> USE DEF serverVars
<1>0. Host(n) \in Nodes
  BY HostIsNode
<1>1. CASE OpenSkips(n)
  BY <1>1, NextLineInFile DEF OpenSkips, TypeOK
<1>2. CASE OpenRefused(n)
  BY <1>2, NextLineInFile DEF OpenRefused, TypeOK
<1>3. CASE OpenConnects(n)
  <2> DEFINE m == Host(n)
  <2>1. link' \in [Nodes -> [Nodes -> {"none", "new", "wait", "open"}]]
    BY <1>3, <1>0, LinkTypes DEF OpenConnects
  <2>2. /\ Append(queue[m], Live(n)) \in Seq(Ends)
        /\ Len(Append(queue[m], Live(n))) = Len(queue[m]) + 1
    <3>1. queue[m] \in Seq(Ends)
      BY <1>0 DEF TypeOK
    <3>2. Live(n) \in Ends
      BY DEF Live, Ends
    <3> HIDE DEF m
    <3> QED
      BY <3>1, <3>2
  <2>3. Len(queue[m]) < LISTEN_BACKLOG /\ Len(queue[m]) \in Nat
    BY <1>0, <1>3 DEF OpenConnects, TypeOK
  <2>4. Len(Append(queue[m], Live(n))) <= LISTEN_BACKLOG
    BY <2>2, <2>3 DEF LISTEN_BACKLOG
  <2>5. queue' = [queue EXCEPT ![m] = Append(queue[m], Live(n))]
    BY <1>3 DEF OpenConnects
  <2>6. queue' \in [Nodes -> Seq(Ends)] /\ \A k \in Nodes : Len(queue'[k]) <= LISTEN_BACKLOG
    <3> HIDE DEF m
    <3> QED
      BY <2>2, <2>4, <2>5 DEF TypeOK
  <2> QED
    BY <1>3, <2>1, <2>6 DEF OpenConnects, TypeOK
<1>4. CASE OpenSendsID(n)
  BY <1>4, <1>0, LinkTypes DEF OpenSendsID, TypeOK
<1>5. CASE OpenGetsID(n)
  BY <1>5, <1>0, LinkTypes, NextLineInFile DEF OpenGetsID, TypeOK
<1>6. CASE OpenLosesPeer(n)
  BY <1>6, <1>0, LinkTypes, NextLineInFile DEF OpenLosesPeer, TypeOK
<1> QED
  BY <1>1, <1>2, <1>3, <1>4, <1>5, <1>6 DEF OpenTask

\* The bounds of the count of one server.
CountBounds(c, r) == c \in Int /\ -(2 * r) <= c /\ c <= MAX_CLIENTS

\* A race takes the count down by two at most, an update one at most.
LEMMA SubtractTypes ==
    ASSUME TypeOK, NEW m \in Nodes, Subtract(m)
    PROVE  /\ races' \in 0 .. RACES /\ count' \in [Nodes -> Int]
           /\ \A k \in Nodes : CountBounds(count'[k], races')
<1>0. /\ RACES \in Nat /\ races \in 0 .. RACES /\ MAX_CLIENTS \in Nat
      /\ \A k \in Nodes : CountBounds(count[k], races)
  BY MeshConstants DEF TypeOK, CountBounds
<1>1. CASE count' = [count EXCEPT ![m] = IF @ > 0 THEN @ - 1 ELSE @] /\ UNCHANGED races
  <2>1. CountBounds(IF count[m] > 0 THEN count[m] - 1 ELSE count[m], races)
    BY <1>0 DEF CountBounds
  <2>2. count' = [count EXCEPT ![m] = IF count[m] > 0 THEN count[m] - 1 ELSE count[m]]
    BY <1>1
  <2>3. ASSUME NEW k \in Nodes
        PROVE  count'[k] = IF k = m THEN IF count[m] > 0 THEN count[m] - 1 ELSE count[m]
                                    ELSE count[k]
    BY <2>2 DEF TypeOK
  <2>4. \A k \in Nodes : CountBounds(count'[k], races)
    BY <1>0, <2>1, <2>3
  <2>5. (IF count[m] > 0 THEN count[m] - 1 ELSE count[m]) \in Int
    BY <2>1 DEF CountBounds
  <2> QED
    BY <1>0, <1>1, <2>2, <2>4, <2>5 DEF TypeOK
<1>2. CASE Race /\ \E k \in 0 .. 2 : count' = [count EXCEPT ![m] = @ - k]
  <2>1. PICK d \in 0 .. 2 : count' = [count EXCEPT ![m] = count[m] - d]
    BY <1>2
  <2>2. races' = races + 1 /\ races + 1 \in 0 .. RACES
    BY <1>0, <1>2 DEF Race
  <2>3. \A c \in Int : CountBounds(c, races) =>
           CountBounds(c, races + 1) /\ CountBounds(c - d, races + 1)
    BY <1>0, <2>1 DEF CountBounds
  <2>4. count[m] \in Int /\ count[m] - d \in Int
    BY <2>1 DEF TypeOK
  <2>5. ASSUME NEW k \in Nodes PROVE CountBounds(count'[k], races + 1)
    <3>1. count'[k] = (IF k = m THEN count[m] - d ELSE count[k]) /\ count[k] \in Int
      BY <2>1 DEF TypeOK
    <3> QED
      BY <1>0, <2>3, <3>1
  <2> QED
    BY <2>1, <2>2, <2>4, <2>5 DEF TypeOK
<1> QED
  BY <1>1, <1>2 DEF Subtract

\* The accept task adds only below the limit.
LEMMA AddTypes ==
    ASSUME TypeOK, NEW m \in Nodes, Add(m), count[m] < MAX_CLIENTS
    PROVE  /\ races' \in 0 .. RACES /\ count' \in [Nodes -> Int]
           /\ \A k \in Nodes : CountBounds(count'[k], races')
<1>0. /\ RACES \in Nat /\ races \in 0 .. RACES /\ MAX_CLIENTS \in Nat
      /\ \A k \in Nodes : CountBounds(count[k], races)
  BY MeshConstants DEF TypeOK, CountBounds
<1>1. CASE count' = [count EXCEPT ![m] = @ + 1] /\ UNCHANGED races
  <2>1. CountBounds(count[m] + 1, races) /\ count[m] + 1 \in Int
    BY <1>0 DEF CountBounds
  <2>2. ASSUME NEW k \in Nodes PROVE count'[k] = IF k = m THEN count[m] + 1 ELSE count[k]
    BY <1>1 DEF TypeOK
  <2>3. \A k \in Nodes : CountBounds(count'[k], races)
    BY <1>0, <2>1, <2>2
  <2> QED
    BY <1>0, <1>1, <2>1, <2>3 DEF TypeOK
<1>2. CASE Race /\ UNCHANGED count
  <2>1. races' = races + 1 /\ races + 1 \in 0 .. RACES
    BY <1>0, <1>2 DEF Race
  <2>2. \A k \in Nodes : CountBounds(count[k], races + 1)
    BY <1>0 DEF CountBounds
  <2> QED
    BY <1>2, <2>1, <2>2 DEF TypeOK
<1> QED
  BY <1>1, <1>2 DEF Add

LEMMA AcceptTypes ==
    ASSUME TypeOK, NEW m \in Nodes, AcceptTask(m) \/ ReaderEnds(m)
    PROVE  TypeOK'
<1> USE DEF clientVars, CountBounds
<1>1. CASE AcceptTakes(m)
  <2>1. /\ Head(queue[m]) \in Ends /\ Tail(queue[m]) \in Seq(Ends)
        /\ Len(Tail(queue[m])) = Len(queue[m]) - 1 /\ Len(queue[m]) \in Nat
    BY <1>1, HeadTailProperties DEF AcceptTakes, TypeOK
  <2>2. Len(Tail(queue[m])) <= LISTEN_BACKLOG
    BY <2>1 DEF TypeOK, LISTEN_BACKLOG
  <2>3. queue' \in [Nodes -> Seq(Ends)] /\ \A k \in Nodes : Len(queue'[k]) <= LISTEN_BACKLOG
    BY <1>1, <2>1, <2>2 DEF AcceptTakes, TypeOK
  <2> QED
    BY <1>1, <2>1, <2>3, AddTypes DEF AcceptTakes, TypeOK
<1>2. CASE AcceptAnswers(m)
  <2>1. acc[m].from \in Nodes
    BY <1>2 DEF AcceptAnswers, TypeOK, Ends
  <2> QED
    BY <1>2, <2>1 DEF AcceptAnswers, TypeOK
<1>3. CASE AcceptAnswersNobody(m)
  BY <1>3 DEF AcceptAnswersNobody, TypeOK
<1>4. CASE AcceptAnswerFails(m)
  BY <1>4 DEF AcceptAnswerFails, TypeOK
<1>5. CASE AcceptLeavesUnread(m)
  <2>1. acc[m].from \in Nodes
    BY <1>5 DEF AcceptLeavesUnread, TypeOK, Ends
  <2>2. /\ answered' \in [Nodes -> SUBSET Nodes] /\ served' \in [Nodes -> SUBSET Nodes]
        /\ unread' \in [Nodes -> SUBSET Nodes] /\ orphans' \in [Nodes -> Nat]
    <3>1. orphans' = orphans \/ orphans' = [orphans EXCEPT ![m] = orphans[m] + 1]
      BY <1>5 DEF AcceptLeavesUnread
    <3>2. orphans' \in [Nodes -> Nat]
      <4>1. orphans \in [Nodes -> Nat] /\ orphans[m] + 1 \in Nat
        BY DEF TypeOK
      <4> QED
        BY <3>1, <4>1
    <3>3. CASE UNCHANGED <<answered, served, unread>>
      BY <3>2, <3>3 DEF TypeOK
    <3>4. CASE /\ answered' = [answered EXCEPT ![acc[m].from] = @ \cup {m}]
               /\ served' = [served EXCEPT ![m] = @ \cup {acc[m].from}]
               /\ unread' = [unread EXCEPT ![m] = @ \cup {acc[m].from}]
      BY <2>1, <3>2, <3>4 DEF TypeOK
    <3> QED
      BY <1>5, <3>3, <3>4 DEF AcceptLeavesUnread
  <2>3. RACES \in Nat /\ races \in 0 .. RACES /\ races' = races + 1 /\ races < RACES
    BY <1>5, MeshConstants DEF AcceptLeavesUnread, Race, TypeOK
  <2>4. races' \in 0 .. RACES
    BY <2>3
  <2>5. \A k \in Nodes : -(2 * races') <= count[k]
    <3>1. \A c \in Int : -(2 * races) <= c => -(2 * races') <= c
      BY <2>3
    <3> QED
      BY <3>1 DEF TypeOK
  <2> QED
    BY <1>5, <2>2, <2>4, <2>5 DEF AcceptLeavesUnread, TypeOK
<1>6. CASE AcceptLosesID(m)
  BY <1>6, SubtractTypes DEF AcceptLosesID, TypeOK
<1>7. CASE ReaderEnds(m)
  <2>1. zombies' \in [Nodes -> Nat]
    <3>1. zombies[m] \in Nat /\ zombies[m] > 0 /\ zombies' = [zombies EXCEPT ![m] = zombies[m] - 1]
      BY <1>7 DEF ReaderEnds, TypeOK
    <3>2. zombies[m] - 1 \in Nat
      BY <3>1
    <3> QED
      BY <3>1, <3>2 DEF TypeOK
  <2>2. /\ races' \in 0 .. RACES /\ count' \in [Nodes -> Int]
        /\ \A k \in Nodes : -(2 * races') <= count'[k] /\ count'[k] <= MAX_CLIENTS
    BY <1>7, SubtractTypes DEF ReaderEnds
  <2> QED
    BY <1>7, <2>1, <2>2 DEF ReaderEnds, TypeOK
<1> QED
  BY <1>1, <1>2, <1>3, <1>4, <1>5, <1>6, <1>7 DEF AcceptTask

LEMMA FaultTypes ==
    ASSUME TypeOK, NEW n \in Nodes, NEW m \in Nodes,
           Crash(n) \/ Restart(n) \/ Breaks(n, m)
    PROVE  TypeOK'
<1>0. FAULTS \in Nat /\ faults \in 0 .. FAULTS /\ MAX_CLIENTS \in Nat /\ Len(HOSTFILE) \in Nat \ {0}
  BY MeshConstants DEF TypeOK
<1>00. faults < FAULTS => faults + 1 \in 0 .. FAULTS
  BY <1>0
<1>1. CASE Crash(n)
  <2>1. queue' \in [Nodes -> Seq(Ends)] /\ \A k \in Nodes : Len(queue'[k]) <= LISTEN_BACKLOG
    <3>1. ASSUME NEW k \in Nodes
          PROVE  queue'[k] \in Seq(Ends) /\ Len(queue'[k]) <= LISTEN_BACKLOG
      <4>1. CASE k = n
        <5>1. queue'[k] = <<>>
          BY <1>1, <4>1 DEF Crash
        <5> QED
          BY <5>1 DEF LISTEN_BACKLOG
      <4>2. CASE k # n
        <5>1. queue'[k] = [i \in DOMAIN queue[k] |-> Dead(queue[k][i], n, k)]
          BY <1>1, <4>2 DEF Crash
        <5>2. queue[k] \in Seq(Ends) /\ Len(queue[k]) <= LISTEN_BACKLOG
          BY DEF TypeOK
        <5> QED
          BY <5>1, <5>2, DeadQueue
      <4> QED
        BY <4>1, <4>2
    <3>2. DOMAIN queue' = Nodes /\ queue' = [k \in Nodes |-> queue'[k]]
      BY <1>1 DEF Crash
    <3> QED
      BY <3>1, <3>2
  <2>2. acc' \in [Nodes -> Ends \cup {NoEnd}]
    BY <1>1, DeadAcc DEF Crash, TypeOK
  <2>3. zombies' \in [Nodes -> Nat] /\ orphans' \in [Nodes -> Nat]
    <3>1. ASSUME NEW k \in Nodes
          PROVE  /\ zombies[k] + (IF n \in served[k] \ unread[k] THEN 1 ELSE 0) \in Nat
                 /\ orphans[k] + (IF n \in unread[k] THEN 1 ELSE 0) \in Nat
      <4>1. zombies[k] \in Nat /\ orphans[k] \in Nat
        BY DEF TypeOK
      <4> QED
        BY <4>1
    <3>2. /\ zombies' = [k \in Nodes |-> IF k = n THEN 0 ELSE
                 zombies[k] + (IF n \in served[k] \ unread[k] THEN 1 ELSE 0)]
          /\ orphans' = [k \in Nodes |-> IF k = n THEN 0 ELSE
                 orphans[k] + (IF n \in unread[k] THEN 1 ELSE 0)]
      BY <1>1 DEF Crash
    <3> QED
      BY <3>1, <3>2
  <2>4. /\ count' \in [Nodes -> Int] /\ line' \in [Nodes -> 1 .. Len(HOSTFILE)]
        /\ \A k \in Nodes : -(2 * races) <= count'[k] /\ count'[k] <= MAX_CLIENTS
    <3>1. count' = [count EXCEPT ![n] = 0] /\ line' = [line EXCEPT ![n] = 1]
      BY <1>1 DEF Crash
    <3>2. races \in Nat
      BY MeshConstants DEF TypeOK
    <3>3. -(2 * races) <= 0
      BY <3>2
    <3> QED
      BY <1>0, <3>1, <3>3 DEF TypeOK
  <2>5. served' \in [Nodes -> SUBSET Nodes] /\ unread' \in [Nodes -> SUBSET Nodes]
    BY <1>1 DEF Crash, TypeOK
  <2> QED
    BY <1>1, <1>00, <2>1, <2>2, <2>3, <2>4, <2>5 DEF Crash, TypeOK
<1>2. CASE Restart(n)
  BY <1>2 DEF Restart, TypeOK, clientVars, serverVars
<1>3. CASE Breaks(n, m)
  <2>1. queue' \in [Nodes -> Seq(Ends)] /\ \A k \in Nodes : Len(queue'[k]) <= LISTEN_BACKLOG
    <3> DEFINE q == [i \in DOMAIN queue[m] |-> Dead(queue[m][i], n, m)]
    <3>1. queue[m] \in Seq(Ends) /\ Len(queue[m]) <= LISTEN_BACKLOG
      BY DEF TypeOK
    <3>2. q \in Seq(Ends) /\ Len(q) <= LISTEN_BACKLOG
      BY <3>1, DeadQueue
    <3>3. queue' = [queue EXCEPT ![m] = q]
      BY <1>3 DEF Breaks
    <3> HIDE DEF q
    <3> QED
      BY <3>2, <3>3 DEF TypeOK
  <2>2. acc' \in [Nodes -> Ends \cup {NoEnd}]
    BY <1>3, DeadAcc DEF Breaks, TypeOK
  <2>3. zombies' \in [Nodes -> Nat] /\ orphans' \in [Nodes -> Nat]
    <3>1. PICK told \in BOOLEAN :
            /\ zombies' = [zombies EXCEPT ![m] =
                  zombies[m] + (IF told /\ n \in served[m] \ unread[m] THEN 1 ELSE 0)]
            /\ orphans' = [orphans EXCEPT ![m] =
                  orphans[m] + (IF n \in unread[m] \/ (~told /\ n \in served[m]) THEN 1 ELSE 0)]
      BY <1>3 DEF Breaks
    <3>2. zombies[m] \in Nat /\ orphans[m] \in Nat
      BY DEF TypeOK
    <3>3. zombies[m] + (IF told /\ n \in served[m] \ unread[m] THEN 1 ELSE 0) \in Nat
      BY <3>2
    <3>4. orphans[m] + (IF n \in unread[m] \/ (~told /\ n \in served[m]) THEN 1 ELSE 0) \in Nat
      BY <3>2
    <3> QED
      BY <3>1, <3>3, <3>4 DEF TypeOK
  <2>4. served' \in [Nodes -> SUBSET Nodes] /\ unread' \in [Nodes -> SUBSET Nodes]
    BY <1>3 DEF Breaks, TypeOK
  <2> QED
    BY <1>3, <1>00, <2>1, <2>2, <2>3, <2>4 DEF Breaks, TypeOK, clientVars
<1> QED
  BY <1>1, <1>2, <1>3

-----------------------------------------------------------------------------
\* The variables of every node keep their types: the line stays in the host file, the
\* queue within the backlog and the unlocked count within the pool, below zero only by
\* what races took from it.
THEOREM TypeCorrect == Spec => []TypeOK
<1>1. Init => TypeOK
  <2>1. Len(HOSTFILE) \in Nat \ {0} /\ MAX_CLIENTS \in Nat /\ FAULTS \in Nat /\ RACES \in Nat
    BY MeshConstants
  <2> QED
    BY <2>1 DEF Init, TypeOK, LISTEN_BACKLOG
<1>2. TypeOK /\ [Next]_vars => TypeOK'
  <2> SUFFICES ASSUME TypeOK, [Next]_vars PROVE TypeOK'
    OBVIOUS
  <2>1. ASSUME NEW n \in Nodes, OpenTask(n) \/ AcceptTask(n) \/ ReaderEnds(n) PROVE TypeOK'
    BY <2>1, OpenTypes, AcceptTypes
  <2>2. ASSUME NEW n \in Nodes, Broadcasts(n) PROVE TypeOK'
    BY <2>2 DEF Broadcasts, TypeOK, serverVars
  <2>3. ASSUME NEW n \in Nodes, Crash(n) \/ Restart(n) PROVE TypeOK'
    BY <2>3, FaultTypes
  <2>4. ASSUME NEW n \in Nodes, NEW m \in Nodes, UnicastCloses(n, m) PROVE TypeOK'
    BY <2>4, LinkTypes DEF UnicastCloses, TypeOK, serverVars
  <2>5. ASSUME NEW n \in Nodes, NEW m \in Nodes, Breaks(n, m) PROVE TypeOK'
    BY <2>5, FaultTypes
  <2>6. CASE UNCHANGED vars
    BY <2>6 DEF vars, clientVars, serverVars, TypeOK
  <2> QED
    BY <2>1, <2>2, <2>3, <2>4, <2>5, <2>6 DEF Next
<1> QED
  BY <1>1, <1>2, PTL DEF Spec

-----------------------------------------------------------------------------
\* The live end of n waits in the backlog of m.
Queued(n, m) == \E i \in 1 .. Len(queue[m]) : queue[m][i] = Live(n)

\* A client has one live end in a server.  Until it is answered it is in the backlog or
\* with the accept task, while the client is in its half of the handshake; an answer
\* under way finds the client waiting for it.
ConnOf(n, m) ==
    /\ \A i, j \in 1 .. Len(queue[m]) :
          queue[m][i] = Live(n) /\ queue[m][j] = Live(n) => i = j
    /\ acc[m] = Live(n) => ~Queued(n, m)
    /\ n \in served[m] => ~Queued(n, m) /\ acc[m] # Live(n)
    /\ Queued(n, m) \/ acc[m] = Live(n) =>
          link[n][m] \in {"new", "wait"} /\ m \notin answered[n]
    /\ n \in served[m] => link[n][m] \in {"wait", "open"}
    /\ m \in answered[n] => link[n][m] = "wait"

ConnInv == \A n, m \in Nodes : ConnOf(n, m)

LEMMA LiveDiffer ==
    ASSUME NEW n \in Nodes, NEW x \in Nodes
    PROVE  (Live(n) = Live(x) <=> n = x) /\ Live(n) \in Ends /\ Live(n) # NoEnd
  BY NoEndIsNoEnd DEF Live, Ends

LEMMA AliveSomewhere ==
    ASSUME TypeOK, NEW n \in Nodes, NEW m \in Nodes
    PROVE  Alive(n, m) <=> Queued(n, m) \/ acc[m] = Live(n) \/ n \in served[m]
<1>1. DOMAIN queue[m] = 1 .. Len(queue[m])
  BY DEF TypeOK
<1> QED
  BY <1>1 DEF Alive, Queued, Range

\* A pair of nodes of which a step changes nothing keeps the invariant.
LEMMA ConnKept ==
    ASSUME NEW n, NEW m, ConnOf(n, m),
           queue'[m] = queue[m], acc'[m] = acc[m], n \in served'[m] <=> n \in served[m],
           link'[n][m] = link[n][m], m \in answered'[n] <=> m \in answered[n]
    PROVE  ConnOf(n, m)'
  BY DEF ConnOf, Queued, Live

\* A pair without a live end, and without an answer under way, has it trivially.
LEMMA ConnDead ==
    ASSUME NEW n, NEW m,
           \A i \in 1 .. Len(queue'[m]) : queue'[m][i] # Live(n),
           acc'[m] # Live(n), n \notin served'[m],
           m \in answered'[n] => link'[n][m] = "wait"
    PROVE  ConnOf(n, m)'
  BY DEF ConnOf, Queued, Live

LEMMA OpenKeepsConn ==
    ASSUME TypeOK, ConnInv, NEW n \in Nodes, OpenTask(n)
    PROVE  ConnInv'
<1> DEFINE h == Host(n)
<1>0. h \in Nodes
  BY HostIsNode
<1>1. SUFFICES ASSUME NEW x \in Nodes, NEW y \in Nodes PROVE ConnOf(x, y)'
  BY DEF ConnInv
<1>2. ConnOf(x, y) /\ ConnOf(n, h)
  BY <1>0 DEF ConnInv
<1>3. CASE OpenSkips(n) \/ OpenRefused(n)
  BY <1>2, <1>3, ConnKept DEF OpenSkips, OpenRefused, serverVars
<1> HIDE DEF h
\* The other pairs see no more than somebody else's end at the tail of the backlog.
<1>4. ASSUME NEW s, SetLink(n, h, s), x # n \/ y # h
      PROVE  link'[x][y] = link[x][y]
  <2>1. link \in [Nodes -> [Nodes -> {"none", "new", "wait", "open"}]]
    BY DEF TypeOK
  <2>2. link' = [link EXCEPT ![n][h] = s]
    BY <1>4 DEF SetLink
  <2> QED
    BY <1>0, <1>4, <2>1, <2>2
<1>5. CASE OpenConnects(n)
  <2>1. /\ queue' = [queue EXCEPT ![h] = Append(queue[h], Live(n))]
        /\ SetLink(n, h, "new") /\ link[n][h] = "none"
        /\ UNCHANGED <<answered, acc, served>>
    BY <1>5 DEF OpenConnects, h
  <2>2. /\ queue[y] \in Seq(Ends) /\ Len(queue[y]) \in Nat
        /\ queue \in [Nodes -> Seq(Ends)]
    <3>1. queue \in [Nodes -> Seq(Ends)]
      BY DEF TypeOK
    <3> QED
      BY <3>1
  <2>3. CASE y # h
    BY <1>2, <1>4, <2>1, <2>2, <2>3, ConnKept
  <2>4. CASE y = h
    <3>1. queue'[y] = Append(queue[y], Live(n))
      BY <2>1, <2>2, <2>4
    <3>2. /\ Len(queue'[y]) = Len(queue[y]) + 1
          /\ queue'[y][Len(queue[y]) + 1] = Live(n)
          /\ \A i \in 1 .. Len(queue[y]) : queue'[y][i] = queue[y][i]
      <4>1. Live(n) \in Ends
        BY LiveDiffer
      <4> QED
        BY <2>2, <3>1, <4>1, AppendProperties
    <3>3. CASE x # n
      <4>1. Live(x) # Live(n)
        BY <3>3, LiveDiffer
      <4>0. \A i \in 1 .. Len(queue'[y]) :
               queue'[y][i] = Live(x) => i \in 1 .. Len(queue[y]) /\ queue[y][i] = Live(x)
        BY <2>2, <3>2, <4>1
      <4>2. Queued(x, y)' <=> Queued(x, y)
        <5>1. Live(x)' = Live(x)
          BY DEF Live
        <5>2. \A i \in 1 .. Len(queue[y]) : i \in 1 .. Len(queue'[y])
          BY <2>2, <3>2
        <5> QED
          BY <3>2, <4>0, <5>1, <5>2 DEF Queued
      <4>3. link'[x][y] = link[x][y]
        BY <1>4, <2>1, <3>3
      <4>4. \A i, j \in 1 .. Len(queue'[y]) :
               queue'[y][i] = Live(x) /\ queue'[y][j] = Live(x) => i = j
        BY <1>2, <4>0 DEF ConnOf
      <4> QED
        BY <1>2, <2>1, <4>2, <4>3, <4>4 DEF ConnOf, Live
    <3>4. CASE x = n
      <4>1. ~Queued(n, h) /\ acc[h] # Live(n) /\ n \notin served[h] /\ h \notin answered[n]
        BY <1>2, <2>1 DEF ConnOf
      <4>2. \A i \in 1 .. Len(queue[y]) : queue[y][i] # Live(n)
        BY <4>1, <2>4 DEF Queued
      <4>3. \A i, j \in 1 .. Len(queue'[y]) :
               queue'[y][i] = Live(n) /\ queue'[y][j] = Live(n) => i = j
        <5>1. \A i \in 1 .. Len(queue'[y]) : queue'[y][i] = Live(n) => i = Len(queue[y]) + 1
          BY <2>2, <3>2, <4>2
        <5> QED
          BY <5>1
      <4>4. link'[n][h] = "new"
        BY <1>0, <2>1 DEF SetLink, TypeOK
      <4> QED
        BY <2>1, <2>4, <3>4, <4>1, <4>3, <4>4 DEF ConnOf, Live
    <3> QED
      BY <3>3, <3>4
  <2> QED
    BY <2>3, <2>4
<1>6. CASE OpenSendsID(n)
  <2>1. /\ SetLink(n, h, "wait") /\ link[n][h] = "new"
        /\ UNCHANGED <<answered, queue, acc, served>>
    BY <1>6 DEF OpenSendsID, serverVars, h
  <2>2. CASE x # n \/ y # h
    BY <1>2, <1>4, <2>1, <2>2, ConnKept
  <2>3. CASE x = n /\ y = h
    <3>1. link'[n][h] = "wait"
      BY <1>0, <2>1 DEF SetLink, TypeOK
    <3> QED
      BY <1>2, <2>1, <2>3, <3>1 DEF ConnOf, Queued, Live
  <2> QED
    BY <2>2, <2>3
<1>7. CASE OpenGetsID(n)
  <2>1. /\ SetLink(n, h, "open") /\ h \in answered[n]
        /\ answered' = [answered EXCEPT ![n] = answered[n] \ {h}]
        /\ UNCHANGED <<queue, acc, served>>
    BY <1>7 DEF OpenGetsID, serverVars, h
  <2>2. CASE x # n \/ y # h
    <3>1. y \in answered'[x] <=> y \in answered[x]
      BY <2>1, <2>2 DEF TypeOK
    <3> QED
      BY <1>2, <1>4, <2>1, <2>2, <3>1, ConnKept
  <2>3. CASE x = n /\ y = h
    <3>1. link'[n][h] = "open" /\ h \notin answered'[n]
      BY <1>0, <2>1 DEF SetLink, TypeOK
    <3> QED
      BY <1>2, <2>1, <2>3, <3>1 DEF ConnOf, Queued, Live
  <2> QED
    BY <2>2, <2>3
<1>8. CASE OpenLosesPeer(n)
  <2>1. /\ SetLink(n, h, "none") /\ ~Alive(n, h) /\ h \notin answered[n]
        /\ UNCHANGED <<answered, queue, acc, served>>
    BY <1>8 DEF OpenLosesPeer, serverVars, h
  <2>2. CASE x # n \/ y # h
    BY <1>2, <1>4, <2>1, <2>2, ConnKept
  <2>3. CASE x = n /\ y = h
    <3>1. ~Queued(n, h) /\ acc[h] # Live(n) /\ n \notin served[h]
      BY <1>0, <2>1, AliveSomewhere
    <3> QED
      BY <2>1, <2>3, <3>1, ConnDead DEF Queued
  <2> QED
    BY <2>2, <2>3
<1> QED
  BY <1>3, <1>5, <1>6, <1>7, <1>8 DEF OpenTask, h

LEMMA AcceptKeepsConn ==
    ASSUME TypeOK, ConnInv, NEW h \in Nodes, AcceptTask(h) \/ ReaderEnds(h)
    PROVE  ConnInv'
<1>1. SUFFICES ASSUME NEW x \in Nodes, NEW y \in Nodes PROVE ConnOf(x, y)'
  BY DEF ConnInv
<1>2. ConnOf(x, y) /\ ConnOf(x, h)
  BY DEF ConnInv
<1>3. CASE ReaderEnds(h)
  BY <1>2, <1>3, ConnKept DEF ReaderEnds, clientVars
<1>4. CASE AcceptTakes(h)
  <2>1. /\ acc' = [acc EXCEPT ![h] = Head(queue[h])] /\ acc[h] = NoEnd
        /\ queue' = [queue EXCEPT ![h] = Tail(queue[h])] /\ queue[h] # <<>>
        /\ UNCHANGED <<link, answered, served>>
    BY <1>4 DEF AcceptTakes, clientVars
  <2>2. CASE y # h
    BY <1>2, <2>1, <2>2, ConnKept DEF TypeOK
  <2>3. CASE y = h
    <3>1. queue[h] \in Seq(Ends) /\ Len(queue[h]) \in Nat
      BY DEF TypeOK
    <3>2. queue'[h] = Tail(queue[h]) /\ acc'[h] = Head(queue[h])
      BY <2>1 DEF TypeOK
    <3>3. /\ Len(queue[h]) \in Nat \ {0} /\ acc'[h] = queue[h][1]
          /\ Len(queue'[h]) = Len(queue[h]) - 1
          /\ \A i \in 1 .. Len(queue'[h]) : queue'[h][i] = queue[h][i + 1]
      <4>1. queue[h] \in Seq(Ends) \ {<<>>}
        BY <2>1, <3>1
      <4>2. /\ Head(queue[h]) = queue[h][1] /\ Len(queue[h]) \in Nat \ {0}
            /\ Len(Tail(queue[h])) = Len(queue[h]) - 1
            /\ \A i \in 1 .. Len(Tail(queue[h])) : Tail(queue[h])[i] = queue[h][i + 1]
        BY <4>1, HeadTailProperties, ElementOfSeq, EmptySeq
      <4> QED
        BY <3>2, <4>2
    <3>4. \A i \in 1 .. Len(queue'[h]) : i + 1 \in 1 .. Len(queue[h]) /\ i + 1 # 1
      BY <3>3
    <3>5. 1 \in 1 .. Len(queue[h])
      BY <3>3
    <3>6. Live(x)' = Live(x)
      BY DEF Live
    <3>7. Queued(x, h)' \/ acc'[h] = Live(x) => Queued(x, h)
      BY <3>3, <3>4, <3>5, <3>6 DEF Queued
    <3>8. acc'[h] = Live(x) => ~Queued(x, h)'
      BY <1>2, <3>3, <3>4, <3>5, <3>6 DEF Queued, ConnOf
    <3>9. \A i, j \in 1 .. Len(queue'[h]) :
             queue'[h][i] = Live(x) /\ queue'[h][j] = Live(x) => i = j
      <4>1. SUFFICES ASSUME NEW i \in 1 .. Len(queue'[h]), NEW j \in 1 .. Len(queue'[h]),
                            queue'[h][i] = Live(x), queue'[h][j] = Live(x)
                     PROVE  i = j
        OBVIOUS
      <4>2. i + 1 = j + 1
        BY <1>2, <3>3, <3>4, <4>1 DEF ConnOf
      <4> QED
        BY <3>3, <4>2
    <3> QED
      BY <1>2, <2>1, <2>3, <3>6, <3>7, <3>8, <3>9 DEF ConnOf
  <2> QED
    BY <2>2, <2>3
<1>5. CASE AcceptAnswers(h) \/ (AcceptLeavesUnread(h) /\ acc[h].state = "live")
  <2> DEFINE c == acc[h].from
  <2>1. /\ acc[h].state = "live" /\ acc[h] # NoEnd /\ HasID(h)
        /\ answered' = [answered EXCEPT ![c] = answered[c] \cup {h}]
        /\ served' = [served EXCEPT ![h] = served[h] \cup {c}]
        /\ acc' = [acc EXCEPT ![h] = NoEnd]
        /\ UNCHANGED <<link, queue>>
    BY <1>5 DEF AcceptAnswers, AcceptLeavesUnread
  <2>2. c \in Nodes /\ acc[h] = Live(c) /\ acc[h] \in Ends
    BY <2>1 DEF TypeOK, Ends, Live
  <2>3. link[c][h] # "new"
    BY <2>1, <2>2 DEF HasID
  <2>4. ConnOf(c, h)
    BY <2>2 DEF ConnInv
  <2>5. link[c][h] = "wait" /\ ~Queued(c, h)
    BY <2>2, <2>3, <2>4 DEF ConnOf
  <2> HIDE DEF c
  <2>6. CASE y # h
    <3>1. y \in answered'[x] <=> y \in answered[x]
      BY <2>1, <2>2, <2>6 DEF TypeOK
    <3>2. acc'[y] = acc[y] /\ served'[y] = served[y]
      BY <2>1, <2>6 DEF TypeOK
    <3> QED
      BY <1>2, <2>1, <3>1, <3>2, ConnKept
  <2>7. acc'[h] = NoEnd /\ served'[h] = served[h] \cup {c}
    BY <2>1 DEF TypeOK
  <2>8. Live(x) # NoEnd /\ Live(x)' = Live(x)
    BY LiveDiffer DEF Live
  <2>9. Queued(x, h)' <=> Queued(x, h)
    BY <2>1, <2>8 DEF Queued
  <2>10. CASE y = h /\ x # c
    <3>1. h \in answered'[x] <=> h \in answered[x]
      BY <2>1, <2>2, <2>10 DEF TypeOK
    <3>2. x \in served'[h] <=> x \in served[h]
      BY <2>7, <2>10
    <3> QED
      BY <1>2, <2>1, <2>7, <2>8, <2>9, <2>10, <3>1, <3>2 DEF ConnOf
  <2>11. CASE y = h /\ x = c
    BY <2>1, <2>4, <2>5, <2>7, <2>8, <2>9, <2>11 DEF ConnOf
  <2> QED
    BY <2>6, <2>10, <2>11
<1>6. CASE \/ AcceptAnswersNobody(h) \/ AcceptAnswerFails(h) \/ AcceptLosesID(h)
           \/ AcceptLeavesUnread(h) /\ acc[h].state # "live"
  <2>1. /\ acc' = [acc EXCEPT ![h] = NoEnd]
        /\ UNCHANGED <<link, answered, queue, served>>
    BY <1>6 DEF AcceptAnswersNobody, AcceptAnswerFails, AcceptLosesID, AcceptLeavesUnread,
       clientVars
  <2>2. acc'[y] = acc[y] \/ acc'[y] = NoEnd
    BY <2>1 DEF TypeOK
  <2>3. Live(x) # NoEnd /\ Live(x)' = Live(x)
    BY LiveDiffer DEF Live
  <2>4. Queued(x, y)' <=> Queued(x, y)
    BY <2>1, <2>3 DEF Queued
  <2> QED
    BY <1>2, <2>1, <2>2, <2>3, <2>4 DEF ConnOf
<1> QED
  BY <1>3, <1>4, <1>5, <1>6 DEF AcceptTask

\* Whatever ends a connection ends it on both sides.
LEMMA FaultKeepsConn ==
    ASSUME TypeOK, ConnInv, NEW n \in Nodes, NEW m \in Nodes, Crash(n) \/ Breaks(n, m)
    PROVE  ConnInv'
<1>1. SUFFICES ASSUME NEW x \in Nodes, NEW y \in Nodes PROVE ConnOf(x, y)'
  BY DEF ConnInv
<1>2. ConnOf(x, y)
  BY DEF ConnInv
<1>3. queue[y] \in Seq(Ends) /\ DOMAIN queue[y] = 1 .. Len(queue[y]) /\ Len(queue[y]) \in Nat
  BY DEF TypeOK
<1>4. acc[y] \in Ends \cup {NoEnd}
  BY DEF TypeOK
<1>5. Live(x)' = Live(x) /\ Live(x) # NoEnd
  BY LiveDiffer DEF Live
\* A server whose ends of n are dead afterwards.
<1>6. ASSUME queue'[y] = [i \in DOMAIN queue[y] |-> Dead(queue[y][i], n, y)],
             acc'[y] = Dead(acc[y], n, y), served'[y] = served[y] \ {n},
             y \in answered'[x] => link'[x][y] = "wait",
             x # n => link'[x][y] = link[x][y] /\ (y \in answered'[x] <=> y \in answered[x])
      PROVE  ConnOf(x, y)'
  <2>1. Len(queue'[y]) = Len(queue[y])
    BY <1>3, <1>6, DeadQueue
  <2>2. \A i \in 1 .. Len(queue[y]) : queue[y][i] \in Ends /\ queue'[y][i] = Dead(queue[y][i], n, y)
    BY <1>3, <1>6
  <2>3. CASE x = n
    <3>1. \A i \in 1 .. Len(queue'[y]) : queue'[y][i] # Live(x)
      BY <2>1, <2>2, <2>3, DeadEnds
    <3>2. acc'[y] # Live(x)
      BY <1>4, <1>6, <2>3, DeadAcc
    <3> QED
      BY <1>6, <2>3, <3>1, <3>2, ConnDead
  <2>4. CASE x # n
    <3>1. \A i \in 1 .. Len(queue[y]) : queue'[y][i] = Live(x) <=> queue[y][i] = Live(x)
      BY <2>2, <2>4, DeadEnds
    <3>2. acc'[y] = Live(x) <=> acc[y] = Live(x)
      BY <1>4, <1>6, <2>4, DeadAcc
    <3>3. Queued(x, y)' <=> Queued(x, y)
      BY <1>5, <2>1, <3>1 DEF Queued
    <3>4. x \in served'[y] <=> x \in served[y]
      BY <1>6, <2>4
    <3> QED
      BY <1>2, <1>5, <1>6, <2>1, <2>4, <3>1, <3>2, <3>3, <3>4 DEF ConnOf
  <2> QED
    BY <2>3, <2>4
<1>7. CASE Crash(n)
  <2>1. /\ link' = [link EXCEPT ![n] = [k \in Nodes |-> "none"]]
        /\ answered' = [answered EXCEPT ![n] = {}]
    BY <1>7 DEF Crash
  <2>2. /\ y \in answered'[x] => y \in answered[x] /\ x # n
        /\ x # n => link'[x][y] = link[x][y] /\ answered'[x] = answered[x]
    BY <2>1 DEF TypeOK
  <2>3. y \in answered'[x] => link'[x][y] = "wait"
    BY <1>2, <2>2 DEF ConnOf
  <2>4. CASE y = n
    <3>1. queue'[y] = <<>> /\ acc'[y] = NoEnd /\ served'[y] = {}
      BY <1>7, <2>4 DEF Crash
    <3>2. Len(queue'[y]) = 0
      BY <3>1
    <3>3. \A i \in 1 .. Len(queue'[y]) : queue'[y][i] # Live(x)
      BY <3>2
    <3> QED
      BY <1>5, <2>3, <3>1, <3>3, ConnDead
  <2>5. CASE y # n
    <3>1. /\ queue'[y] = [i \in DOMAIN queue[y] |-> Dead(queue[y][i], n, y)]
          /\ acc'[y] = Dead(acc[y], n, y) /\ served'[y] = served[y] \ {n}
      BY <1>7, <2>5 DEF Crash
    <3> QED
      BY <1>6, <2>2, <2>3, <3>1
  <2> QED
    BY <2>4, <2>5
<1>8. CASE Breaks(n, m)
  <2>1. /\ queue' = [queue EXCEPT ![m] = [i \in DOMAIN queue[m] |-> Dead(queue[m][i], n, m)]]
        /\ acc' = [acc EXCEPT ![m] = Dead(acc[m], n, m)]
        /\ served' = [served EXCEPT ![m] = served[m] \ {n}]
        /\ UNCHANGED <<link, answered>>
    BY <1>8 DEF Breaks, clientVars
  <2>2. CASE y # m
    BY <1>2, <2>1, <2>2, ConnKept DEF TypeOK
  <2>3. CASE y = m
    <3>1. /\ queue'[y] = [i \in DOMAIN queue[y] |-> Dead(queue[y][i], n, y)]
          /\ acc'[y] = Dead(acc[y], n, y) /\ served'[y] = served[y] \ {n}
      BY <2>1, <2>3 DEF TypeOK
    <3>2. y \in answered'[x] => link'[x][y] = "wait"
      BY <1>2, <2>1 DEF ConnOf
    <3> QED
      BY <1>6, <2>1, <3>1, <3>2
  <2> QED
    BY <2>2, <2>3
<1> QED
  BY <1>7, <1>8

\* send_handler closes only sockets whose peer is gone.
LEMMA SendKeepsConn ==
    ASSUME TypeOK, ConnInv, NEW n \in Nodes, NEW m \in Nodes,
           UnicastCloses(n, m) \/ Broadcasts(n)
    PROVE  ConnInv'
<1>1. SUFFICES ASSUME NEW x \in Nodes, NEW y \in Nodes PROVE ConnOf(x, y)'
  BY DEF ConnInv
<1>2. ConnOf(x, y)
  BY DEF ConnInv
<1>3. UNCHANGED <<answered, queue, acc, served>>
  BY DEF UnicastCloses, Broadcasts, serverVars
<1>4. link'[x][y] = link[x][y] \/ (link[x][y] = "open" /\ ~Alive(x, y))
  <2>1. link \in [Nodes -> [Nodes -> {"none", "new", "wait", "open"}]]
    BY DEF TypeOK
  <2>2. CASE UnicastCloses(n, m)
    <3>1. link' = [link EXCEPT ![n][m] = "none"] /\ link[n][m] = "open" /\ ~Alive(n, m)
      BY <2>2 DEF UnicastCloses, SetLink
    <3>2. CASE x = n /\ y = m
      BY <3>1, <3>2
    <3>3. CASE x # n \/ y # m
      BY <2>1, <3>1, <3>3
    <3> QED
      BY <3>2, <3>3
  <2>3. CASE Broadcasts(n)
    <3>1. PICK closed \in SUBSET {k \in Nodes : link[n][k] = "open" /\ ~Alive(n, k)} :
             link' = [link EXCEPT ![n] = [k \in Nodes |->
                        IF k \in closed THEN "none" ELSE link[n][k]]]
      BY <2>3 DEF Broadcasts
    <3>2. CASE x # n
      BY <2>1, <3>1, <3>2
    <3>3. CASE x = n
      <4>1. link'[x][y] = IF y \in closed THEN "none" ELSE link[n][y]
        BY <2>1, <3>1, <3>3
      <4> QED
        BY <3>1, <3>3, <4>1
    <3> QED
      BY <3>2, <3>3
  <2> QED
    BY <2>2, <2>3
<1>5. CASE link'[x][y] = link[x][y]
  BY <1>2, <1>3, <1>5, ConnKept
<1>6. CASE link[x][y] = "open" /\ ~Alive(x, y)
  <2>1. ~Queued(x, y) /\ acc[y] # Live(x) /\ x \notin served[y]
    BY <1>6, AliveSomewhere
  <2>2. y \notin answered[x]
    BY <1>2, <1>6 DEF ConnOf
  <2> QED
    BY <1>3, <2>1, <2>2, ConnDead DEF Queued
<1> QED
  BY <1>4, <1>5, <1>6

LEMMA ConnInvariant == Spec => []ConnInv
<1>1. Init => ConnInv
  <2> SUFFICES ASSUME Init, NEW n \in Nodes, NEW m \in Nodes PROVE ConnOf(n, m)
    BY DEF ConnInv
  <2>1. /\ queue[m] = <<>> /\ acc[m] = NoEnd /\ served[m] = {}
        /\ answered[n] = {} /\ Live(n) # NoEnd
    BY LiveDiffer DEF Init
  <2>2. Len(queue[m]) = 0
    BY <2>1
  <2> QED
    BY <2>1, <2>2 DEF ConnOf, Queued
<1>2. TypeOK /\ ConnInv /\ [Next]_vars => ConnInv'
  <2> SUFFICES ASSUME TypeOK, ConnInv, [Next]_vars PROVE ConnInv'
    OBVIOUS
  <2>1. ASSUME NEW n \in Nodes, OpenTask(n) PROVE ConnInv'
    BY <2>1, OpenKeepsConn
  <2>2. ASSUME NEW n \in Nodes, AcceptTask(n) \/ ReaderEnds(n) PROVE ConnInv'
    BY <2>2, AcceptKeepsConn
  <2>3. ASSUME NEW n \in Nodes, Broadcasts(n) PROVE ConnInv'
    BY <2>3, SendKeepsConn
  <2>4. ASSUME NEW n \in Nodes, Crash(n) PROVE ConnInv'
    BY <2>4, FaultKeepsConn
  <2>5. ASSUME NEW n \in Nodes, NEW m \in Nodes, UnicastCloses(n, m) PROVE ConnInv'
    BY <2>5, SendKeepsConn
  <2>6. ASSUME NEW n \in Nodes, NEW m \in Nodes, Breaks(n, m) PROVE ConnInv'
    BY <2>6, FaultKeepsConn
  <2>7. CASE UNCHANGED <<clientVars, serverVars>>
    BY <2>7, ConnKept DEF ConnInv, clientVars, serverVars
  <2> QED
    BY <2>1, <2>2, <2>3, <2>4, <2>5, <2>6, <2>7 DEF Next, Restart, vars
<1> QED
  BY <1>1, <1>2, TypeCorrect, PTL DEF Spec

\* The two ends agree on where their connection is, across crashes, restarts and broken
\* connections: a client that takes its connection for open is past the handshake at a
\* server that still has the other end, and a server is past it only with clients that
\* sent their ID and still have the socket.
THEOREM EndsAgree == Spec => []HandshakeAgreement
<1>1. TypeOK /\ ConnInv => HandshakeAgreement
  <2> SUFFICES ASSUME TypeOK, ConnInv, NEW n \in Nodes, NEW m \in Nodes
               PROVE  /\ link[n][m] = "open" /\ Alive(n, m) => n \in served[m]
                      /\ n \in served[m] => link[n][m] \in {"wait", "open"}
    BY DEF HandshakeAgreement
  <2> QED
    BY AliveSomewhere DEF ConnInv, ConnOf
<1> QED
  BY <1>1, TypeCorrect, ConnInvariant, PTL

=============================================================================
