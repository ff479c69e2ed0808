--------------------------- MODULE MeshRefinement ---------------------------
(***************************************************************************)
(* Mesh implements Handshake for every pair of nodes, for any number of    *)
(* nodes, hosts, sockets, faults and races; and what follows from it for   *)
(* those who wait in a handshake.                                          *)
(***************************************************************************)
EXTENDS MeshProofs

-----------------------------------------------------------------------------
(* The ends of one pair of nodes.                                           *)

\* The server has n's connection and has not answered on it.
Pending(n, m) == Queued(n, m) \/ acc[m] = Live(n)

\* What the server does with n's connection.
ServerOf(n, m) ==
    IF n \in served[m] THEN "served" ELSE IF Pending(n, m) THEN "pending" ELSE "none"

\* A step of the pair, or none.
PairStep(n, m) == Link(n, m)!Next \/ UNCHANGED Link(n, m)!vars

LEMMA ServerValue ==
    ASSUME TypeOK, NEW n \in Nodes, NEW m \in Nodes
    PROVE  ServerOf(n, m) =
             IF n \in served[m] THEN "served" ELSE IF Alive(n, m) THEN "pending" ELSE "none"
  BY AliveSomewhere DEF ServerOf, Pending

LEMMA ServerValueNext ==
    ASSUME TypeOK', NEW n \in Nodes, NEW m \in Nodes
    PROVE  ServerOf(n, m)' =
             IF n \in served'[m] THEN "served" ELSE IF Alive(n, m)' THEN "pending" ELSE "none"
<1>1. DOMAIN queue'[m] = 1 .. Len(queue'[m])
  BY DEF TypeOK
<1>2. Alive(n, m)' <=> Pending(n, m)' \/ n \in served'[m]
  BY <1>1 DEF Alive, Pending, Queued, Range, Live
<1> QED
  BY <1>2 DEF ServerOf

\* Nothing of a pair changes.
LEMMA PairStutters ==
    ASSUME TypeOK, TypeOK', NEW n \in Nodes, NEW m \in Nodes,
           link'[n][m] = link[n][m], ServerOf(n, m)' = ServerOf(n, m),
           m \in answered'[n] <=> m \in answered[n]
    PROVE  PairStep(n, m)
<1>1. (m \in answered[n])' = (m \in answered[n])
  OBVIOUS
<1>2. UNCHANGED Link(n, m)!vars
  BY <1>1, ServerValue, ServerValueNext DEF Link!vars
<1> QED
  BY <1>2 DEF PairStep

\* The server's end of a connection goes away.
LEMMA PairLosesServer ==
    ASSUME TypeOK, TypeOK', NEW n \in Nodes, NEW m \in Nodes,
           link'[n][m] = link[n][m], ServerOf(n, m)' = "none",
           m \in answered'[n] <=> m \in answered[n]
    PROVE  PairStep(n, m)
<1>1. (m \in answered[n])' = (m \in answered[n])
  OBVIOUS
<1>2. Link(n, m)!LoseServer
  BY <1>1, ServerValue, ServerValueNext DEF Link!LoseServer
<1> QED
  BY <1>2 DEF PairStep, Link!Next

\* The client closes its socket when the server's end is gone.
LEMMA PairCloses ==
    ASSUME TypeOK, TypeOK', ConnInv, NEW n \in Nodes, NEW m \in Nodes,
           link'[n][m] = "none", ~Alive(n, m), m \notin answered[n],
           UNCHANGED <<answered, queue, acc, served>>
    PROVE  PairStep(n, m)
<1>1. ServerOf(n, m) = "none" /\ ServerOf(n, m)' = "none"
  <2>1. ~Pending(n, m) /\ n \notin served[m]
    BY AliveSomewhere DEF Pending
  <2> QED
    BY <2>1 DEF ServerOf, Pending, Queued, Live
<1>2. (m \in answered[n])' = (m \in answered[n])
  OBVIOUS
<1>3. Link(n, m)!Close
  BY <1>1, <1>2, ServerValue, ServerValueNext DEF Link!Close
<1> QED
  BY <1>3 DEF PairStep, Link!Next

\* The server's end is where it was.
LEMMA SameServer ==
    ASSUME NEW n, NEW m,
           queue'[m] = queue[m], acc'[m] = acc[m], n \in served'[m] <=> n \in served[m]
    PROVE  ServerOf(n, m)' = ServerOf(n, m)
  BY DEF ServerOf, Pending, Queued, Live

-----------------------------------------------------------------------------
(* The steps of the tasks.                                                  *)

\* Only the open task's own host sees it move.
LEMMA OtherLinks ==
    ASSUME TypeOK, NEW n \in Nodes, NEW h \in Nodes, NEW s, SetLink(n, h, s),
           NEW x \in Nodes, NEW y \in Nodes
    PROVE  link'[x][y] = IF x = n /\ y = h THEN s ELSE link[x][y]
<1>1. link \in [Nodes -> [Nodes -> {"none", "new", "wait", "open"}]]
  BY DEF TypeOK
<1>2. link' = [link EXCEPT ![n][h] = s]
  BY DEF SetLink
<1> QED
  BY <1>1, <1>2

LEMMA OpenTaskIsPairStep ==
    ASSUME TypeOK, TypeOK', ConnInv, NEW n \in Nodes, OpenTask(n),
           NEW x \in Nodes, NEW y \in Nodes
    PROVE  PairStep(x, y)
<1> DEFINE h == Host(n)
<1>0. h \in Nodes
  BY HostIsNode
<1>1. ConnOf(x, y)
  BY DEF ConnInv
<1>2. CASE OpenSkips(n) \/ OpenRefused(n)
  BY <1>2, SameServer, PairStutters DEF OpenSkips, OpenRefused, serverVars
<1> HIDE DEF h
<1>3. CASE OpenConnects(n)
  <2>1. /\ queue' = [queue EXCEPT ![h] = Append(queue[h], Live(n))]
        /\ SetLink(n, h, "new") /\ link[n][h] = "none"
        /\ UNCHANGED <<answered, acc, served>>
    BY <1>3 DEF OpenConnects, h
  <2>2. link'[x][y] = IF x = n /\ y = h THEN "new" ELSE link[x][y]
    BY <1>0, <2>1, OtherLinks
  <2>3. CASE y # h
    <3>1. queue'[y] = queue[y]
      BY <2>1, <2>3 DEF TypeOK
    <3> QED
      BY <2>1, <2>2, <2>3, <3>1, SameServer, PairStutters
  <2>4. CASE y = h
    <3>0. queue \in [Nodes -> Seq(Ends)] /\ Live(n) \in Ends
      BY LiveDiffer DEF TypeOK
    <3>1. /\ queue[y] \in Seq(Ends) /\ Len(queue[y]) \in Nat /\ Live(n) \in Ends
          /\ queue'[y] = Append(queue[y], Live(n))
      BY <2>1, <2>4, <3>0
    <3>2. /\ Len(queue'[y]) = Len(queue[y]) + 1
          /\ queue'[y][Len(queue[y]) + 1] = Live(n)
          /\ \A i \in 1 .. Len(queue[y]) : queue'[y][i] = queue[y][i]
      BY <3>1, AppendProperties
    <3>3. CASE x = n
      <4>1. Len(queue[y]) + 1 \in 1 .. Len(queue'[y])
        BY <3>1, <3>2
      <4>2. Pending(x, y)'
        BY <3>2, <3>3, <4>1 DEF Pending, Queued, Live
      <4>3. ~Pending(x, y) /\ x \notin served[y] /\ y \notin answered[x]
        BY <1>1, <2>1, <2>4, <3>3 DEF ConnOf, Pending
      <4>4. ServerOf(x, y) = "none" /\ ServerOf(x, y)' = "pending"
        BY <2>1, <4>2, <4>3 DEF ServerOf
      <4>5. (y \in answered[x])' = (y \in answered[x])
        BY <2>1
      <4>6. Link(x, y)!Connect
        BY <2>1, <2>2, <2>4, <3>3, <4>3, <4>4, <4>5, ServerValue, ServerValueNext
           DEF Link!Connect
      <4> QED
        BY <4>6 DEF PairStep, Link!Next
    <3>4. CASE x # n
      <4>1. Live(x) # Live(n) /\ Live(x)' = Live(x)
        BY <3>4, LiveDiffer DEF Live
      <4>2. \A i \in 1 .. Len(queue'[y]) :
               queue'[y][i] = Live(x) => i \in 1 .. Len(queue[y]) /\ queue[y][i] = Live(x)
        BY <3>1, <3>2, <4>1
      <4>3. \A i \in 1 .. Len(queue[y]) : i \in 1 .. Len(queue'[y])
        BY <3>1, <3>2
      <4>4. Queued(x, y)' <=> Queued(x, y)
        BY <3>2, <4>1, <4>2, <4>3 DEF Queued
      <4>5. ServerOf(x, y)' = ServerOf(x, y)
        BY <2>1, <4>1, <4>4 DEF ServerOf, Pending
      <4> QED
        BY <2>1, <2>2, <3>4, <4>5, PairStutters
    <3> QED
      BY <3>3, <3>4
  <2> QED
    BY <2>3, <2>4
<1>4. CASE OpenSendsID(n)
  <2>1. /\ SetLink(n, h, "wait") /\ link[n][h] = "new"
        /\ UNCHANGED <<answered, queue, acc, served>>
    BY <1>4 DEF OpenSendsID, serverVars, h
  <2>2. link'[x][y] = IF x = n /\ y = h THEN "wait" ELSE link[x][y]
    BY <1>0, <2>1, OtherLinks
  <2>3. ServerOf(x, y)' = ServerOf(x, y)
    BY <2>1, SameServer
  <2>4. CASE x = n /\ y = h
    <3>1. (y \in answered[x])' = (y \in answered[x])
      BY <2>1
    <3>2. Link(x, y)!SendID
      BY <2>1, <2>2, <2>3, <2>4, <3>1, ServerValue, ServerValueNext DEF Link!SendID
    <3> QED
      BY <3>2 DEF PairStep, Link!Next
  <2> QED
    BY <2>1, <2>2, <2>3, <2>4, PairStutters
<1>5. CASE OpenGetsID(n)
  <2>1. /\ SetLink(n, h, "open") /\ link[n][h] = "wait" /\ h \in answered[n]
        /\ answered' = [answered EXCEPT ![n] = answered[n] \ {h}]
        /\ UNCHANGED <<queue, acc, served>>
    BY <1>5 DEF OpenGetsID, serverVars, h
  <2>2. link'[x][y] = IF x = n /\ y = h THEN "open" ELSE link[x][y]
    BY <1>0, <2>1, OtherLinks
  <2>3. ServerOf(x, y)' = ServerOf(x, y)
    BY <2>1, SameServer
  <2>4. y \in answered'[x] <=> y \in answered[x] /\ ~(x = n /\ y = h)
    BY <2>1 DEF TypeOK
  <2>5. CASE x = n /\ y = h
    <3>1. (y \in answered[x])' = FALSE
      BY <2>4, <2>5
    <3>2. Link(x, y)!GetID
      BY <2>1, <2>2, <2>3, <2>5, <3>1, ServerValue, ServerValueNext DEF Link!GetID
    <3> QED
      BY <3>2 DEF PairStep, Link!Next
  <2> QED
    BY <2>2, <2>3, <2>4, <2>5, PairStutters
<1>6. CASE OpenLosesPeer(n)
  <2>1. /\ SetLink(n, h, "none") /\ ~Alive(n, h) /\ h \notin answered[n]
        /\ UNCHANGED <<answered, queue, acc, served>>
    BY <1>6 DEF OpenLosesPeer, serverVars, h
  <2>2. link'[x][y] = IF x = n /\ y = h THEN "none" ELSE link[x][y]
    BY <1>0, <2>1, OtherLinks
  <2>3. CASE x = n /\ y = h
    BY <2>1, <2>2, <2>3, PairCloses
  <2>4. CASE ~(x = n /\ y = h)
    BY <2>1, <2>2, <2>4, SameServer, PairStutters
  <2> QED
    BY <2>3, <2>4
<1> QED
  BY <1>2, <1>3, <1>4, <1>5, <1>6 DEF OpenTask

LEMMA AcceptTaskIsPairStep ==
    ASSUME TypeOK, TypeOK', ConnInv, NEW h \in Nodes, AcceptTask(h) \/ ReaderEnds(h),
           NEW x \in Nodes, NEW y \in Nodes
    PROVE  PairStep(x, y)
<1>1. ConnOf(x, y)
  BY DEF ConnInv
<1>2. Live(x)' = Live(x) /\ Live(x) # NoEnd
  BY LiveDiffer DEF Live
<1>3. CASE ReaderEnds(h)
  BY <1>3, SameServer, PairStutters DEF ReaderEnds, clientVars
<1>4. CASE AcceptTakes(h)
  <2>1. /\ acc' = [acc EXCEPT ![h] = Head(queue[h])] /\ acc[h] = NoEnd
        /\ queue' = [queue EXCEPT ![h] = Tail(queue[h])] /\ queue[h] # <<>>
        /\ UNCHANGED <<link, answered, served>>
    BY <1>4 DEF AcceptTakes, clientVars
  <2>2. CASE y # h
    <3>1. queue'[y] = queue[y] /\ acc'[y] = acc[y]
      BY <2>1, <2>2 DEF TypeOK
    <3> QED
      BY <2>1, <3>1, SameServer, PairStutters
  <2>3. CASE y = h
    <3>1. queue[h] \in Seq(Ends) \ {<<>>} /\ Len(queue[h]) \in Nat
      BY <2>1 DEF TypeOK
    <3>2. queue'[h] = Tail(queue[h]) /\ acc'[h] = Head(queue[h])
      BY <2>1 DEF TypeOK
    <3>3. /\ acc'[h] = queue[h][1] /\ Len(queue[h]) \in Nat \ {0}
          /\ Len(queue'[h]) = Len(queue[h]) - 1
          /\ \A i \in 1 .. Len(queue'[h]) : queue'[h][i] = queue[h][i + 1]
      <4>1. /\ Head(queue[h]) = queue[h][1] /\ Len(queue[h]) \in Nat \ {0}
            /\ Len(Tail(queue[h])) = Len(queue[h]) - 1
            /\ \A i \in 1 .. Len(Tail(queue[h])) : Tail(queue[h])[i] = queue[h][i + 1]
        BY <3>1, HeadTailProperties, ElementOfSeq, EmptySeq
      <4> QED
        BY <3>2, <4>1
    <3>4. Pending(x, h)' => Pending(x, h)
      <4>1. \A i \in 1 .. Len(queue'[h]) : i + 1 \in 1 .. Len(queue[h])
        BY <3>3
      <4>2. 1 \in 1 .. Len(queue[h])
        BY <3>3
      <4> QED
        BY <1>2, <3>3, <4>1, <4>2 DEF Pending, Queued
    <3>5. Pending(x, h) => Pending(x, h)'
      <4>1. SUFFICES ASSUME NEW i \in 1 .. Len(queue[h]), queue[h][i] = Live(x)
                     PROVE  Pending(x, h)'
        BY <1>2, <2>1 DEF Pending, Queued
      <4>2. CASE i = 1
        BY <1>2, <3>3, <4>1, <4>2 DEF Pending
      <4>3. CASE i # 1
        <5>1. i - 1 \in 1 .. Len(queue'[h]) /\ (i - 1) + 1 = i
          BY <3>1, <3>3, <4>3
        <5>2. queue'[h][i - 1] = Live(x)
          BY <3>3, <4>1, <5>1
        <5> QED
          BY <1>2, <5>1, <5>2 DEF Pending, Queued
      <4> QED
        BY <4>2, <4>3
    <3>6. ServerOf(x, y)' = ServerOf(x, y)
      BY <2>1, <2>3, <3>4, <3>5 DEF ServerOf
    <3> QED
      BY <2>1, <3>6, PairStutters
  <2> QED
    BY <2>2, <2>3
<1>5. CASE AcceptAnswers(h) \/ (AcceptLeavesUnread(h) /\ acc[h].state = "live")
  <2>0. PICK c \in Nodes : acc[h].from = c /\ acc[h] = Live(c)
    BY <1>5 DEF AcceptAnswers, AcceptLeavesUnread, TypeOK, Ends, Live
  <2>1. /\ HasID(h)
        /\ answered' = [answered EXCEPT ![c] = answered[c] \cup {h}]
        /\ served' = [served EXCEPT ![h] = served[h] \cup {c}]
        /\ acc' = [acc EXCEPT ![h] = NoEnd]
        /\ UNCHANGED <<link, queue>>
    BY <1>5, <2>0 DEF AcceptAnswers, AcceptLeavesUnread
  <2>2. link[c][h] # "new"
    BY <2>0, <2>1 DEF HasID, Live
  <2>3. y \in answered'[x] <=> y \in answered[x] \/ (x = c /\ y = h)
    BY <2>1 DEF TypeOK
  <2>4. x \in served'[y] <=> x \in served[y] \/ (x = c /\ y = h)
    BY <2>1 DEF TypeOK
  <2>5. CASE x = c /\ y = h
    <3>1. Pending(x, y) /\ x \notin served[y] /\ link[x][y] = "wait"
      BY <1>1, <2>0, <2>2, <2>5 DEF ConnOf, Pending
    <3>2. ServerOf(x, y) = "pending" /\ ServerOf(x, y)' = "served"
      BY <2>4, <2>5, <3>1 DEF ServerOf
    <3>3. (y \in answered[x])' = TRUE
      BY <2>3, <2>5
    <3>4. Link(x, y)!Answer
      BY <2>1, <3>1, <3>2, <3>3, ServerValue, ServerValueNext DEF Link!Answer
    <3> QED
      BY <3>4 DEF PairStep, Link!Next
  <2>6. CASE ~(x = c /\ y = h)
    <3>1. acc'[y] = Live(x) <=> acc[y] = Live(x)
      <4>1. y = h => acc'[y] = NoEnd /\ acc[y] # Live(x)
        BY <2>0, <2>1, <2>6, LiveDiffer DEF TypeOK
      <4>2. y # h => acc'[y] = acc[y]
        BY <2>1 DEF TypeOK
      <4> QED
        BY <1>2, <4>1, <4>2
    <3>2. Queued(x, y)' <=> Queued(x, y)
      BY <1>2, <2>1 DEF Queued
    <3>3. ServerOf(x, y)' = ServerOf(x, y)
      BY <1>2, <2>4, <2>6, <3>1, <3>2 DEF ServerOf, Pending
    <3> QED
      BY <2>1, <2>3, <2>6, <3>3, PairStutters
  <2> QED
    BY <2>5, <2>6
<1>6. CASE \/ AcceptAnswersNobody(h) \/ AcceptAnswerFails(h) \/ AcceptLosesID(h)
           \/ AcceptLeavesUnread(h) /\ acc[h].state # "live"
  <2>1. /\ acc' = [acc EXCEPT ![h] = NoEnd] /\ acc[h].state # "live"
        /\ UNCHANGED <<link, answered, queue, served>>
    BY <1>6 DEF AcceptAnswersNobody, AcceptAnswerFails, AcceptLosesID, AcceptLeavesUnread,
       clientVars
  <2>2. acc'[y] = Live(x) <=> acc[y] = Live(x)
    <3>1. acc[h] # Live(x)
      BY <2>1 DEF Live
    <3>2. acc'[y] = IF y = h THEN NoEnd ELSE acc[y]
      BY <2>1 DEF TypeOK
    <3> QED
      BY <1>2, <3>1, <3>2
  <2>3. Queued(x, y)' <=> Queued(x, y)
    BY <1>2, <2>1 DEF Queued
  <2>4. ServerOf(x, y)' = ServerOf(x, y)
    BY <1>2, <2>1, <2>2, <2>3 DEF ServerOf, Pending
  <2> QED
    BY <2>1, <2>4, PairStutters
<1> QED
  BY <1>3, <1>4, <1>5, <1>6 DEF AcceptTask

\* send_handler changes nothing but a socket whose peer is gone.
LEMMA SendIsPairStep ==
    ASSUME TypeOK, TypeOK', ConnInv, NEW n \in Nodes, NEW m \in Nodes,
           UnicastCloses(n, m) \/ Broadcasts(n),
           NEW x \in Nodes, NEW y \in Nodes
    PROVE  PairStep(x, y)
<1>1. UNCHANGED <<answered, queue, acc, served>>
  BY DEF UnicastCloses, Broadcasts, serverVars
<1>2. \/ link'[x][y] = link[x][y]
      \/ link'[x][y] = "none" /\ link[x][y] = "open" /\ ~Alive(x, y)
  <2>1. link \in [Nodes -> [Nodes -> {"none", "new", "wait", "open"}]]
    BY DEF TypeOK
  <2>2. CASE UnicastCloses(n, m)
    <3>1. SetLink(n, m, "none") /\ link[n][m] = "open" /\ ~Alive(n, m)
      BY <2>2 DEF UnicastCloses
    <3>2. link'[x][y] = IF x = n /\ y = m THEN "none" ELSE link[x][y]
      BY <3>1, OtherLinks
    <3> QED
      BY <3>1, <3>2
  <2>3. CASE Broadcasts(n)
    <3>1. PICK closed \in SUBSET {k \in Nodes : link[n][k] = "open" /\ ~Alive(n, k)} :
             link' = [link EXCEPT ![n] = [k \in Nodes |->
                        IF k \in closed THEN "none" ELSE link[n][k]]]
      BY <2>3 DEF Broadcasts
    <3>2. CASE x # n
      BY <2>1, <3>1, <3>2
    <3>3. CASE x = n
      <4>1. link'[x][y] = IF y \in closed THEN "none" ELSE link[n][y]
        BY <2>1, <3>1, <3>3
      <4> QED
        BY <3>1, <3>3, <4>1
    <3> QED
      BY <3>2, <3>3
  <2> QED
    BY <2>2, <2>3
<1>3. CASE link'[x][y] = link[x][y]
  BY <1>1, <1>3, SameServer, PairStutters
<1>4. CASE link'[x][y] = "none" /\ link[x][y] = "open" /\ ~Alive(x, y)
  <2>1. y \notin answered[x]
    BY <1>4 DEF ConnInv, ConnOf
  <2> QED
    BY <1>1, <1>4, <2>1, PairCloses
<1> QED
  BY <1>2, <1>3, <1>4

\* When n's ends in a server die, n has none there, and the others keep theirs.
LEMMA EndsDie ==
    ASSUME TypeOK, NEW n \in Nodes, NEW x \in Nodes, NEW y \in Nodes,
           queue'[y] = [i \in DOMAIN queue[y] |-> Dead(queue[y][i], n, y)],
           acc'[y] = Dead(acc[y], n, y), served'[y] = served[y] \ {n}
    PROVE  ServerOf(x, y)' = IF x = n THEN "none" ELSE ServerOf(x, y)
<1>1. queue[y] \in Seq(Ends) /\ DOMAIN queue[y] = 1 .. Len(queue[y]) /\ Len(queue[y]) \in Nat
  BY DEF TypeOK
<1>2. acc[y] \in Ends \cup {NoEnd}
  BY DEF TypeOK
<1>3. Live(x)' = Live(x)
  BY DEF Live
<1>4. Len(queue'[y]) = Len(queue[y])
  BY <1>1, DeadQueue
<1>5. \A i \in 1 .. Len(queue[y]) : queue[y][i] \in Ends /\ queue'[y][i] = Dead(queue[y][i], n, y)
  BY <1>1
<1>6. CASE x = n
  <2>1. ASSUME NEW i \in 1 .. Len(queue[y]) PROVE queue'[y][i] # Live(x)
    <3>1. queue[y][i] \in Ends /\ queue'[y][i] = Dead(queue[y][i], n, y)
      BY <1>5
    <3>2. Dead(queue[y][i], n, y) # Live(n)
      BY <3>1, DeadEnds
    <3> QED
      BY <1>6, <3>1, <3>2
  <2>2. acc'[y] # Live(x)
    BY <1>2, <1>6, DeadAcc
  <2>3. ~Pending(x, y)' /\ x \notin served'[y]
    BY <1>3, <1>4, <1>6, <2>1, <2>2 DEF Pending, Queued
  <2> QED
    BY <1>6, <2>3 DEF ServerOf
<1>7. CASE x # n
  <2>1. \A i \in 1 .. Len(queue[y]) : queue'[y][i] = Live(x) <=> queue[y][i] = Live(x)
    BY <1>5, <1>7, DeadEnds
  <2>2. acc'[y] = Live(x) <=> acc[y] = Live(x)
    BY <1>2, <1>7, DeadAcc
  <2>3. Pending(x, y)' <=> Pending(x, y)
    BY <1>3, <1>4, <2>1, <2>2 DEF Pending, Queued
  <2> QED
    BY <1>7, <2>3 DEF ServerOf
<1> QED
  BY <1>6, <1>7

\* A crash ends the pairs of which the process is the client and takes the server from
\* those of which it is the server; a broken connection takes the server from its client.
LEMMA FaultIsPairStep ==
    ASSUME TypeOK, TypeOK', NEW n \in Nodes, NEW m \in Nodes, Crash(n) \/ Breaks(n, m),
           NEW x \in Nodes, NEW y \in Nodes
    PROVE  PairStep(x, y)
<1>1. CASE Crash(n)
  <2>1. /\ link' = [link EXCEPT ![n] = [k \in Nodes |-> "none"]]
        /\ answered' = [answered EXCEPT ![n] = {}]
    BY <1>1 DEF Crash
  <2>2. x # n => link'[x][y] = link[x][y] /\ answered'[x] = answered[x]
    BY <2>1 DEF TypeOK
  <2>3. y = n => ServerOf(x, y)' = "none"
    <3>1. y = n => queue'[y] = <<>> /\ acc'[y] = NoEnd /\ served'[y] = {}
      BY <1>1 DEF Crash
    <3>2. Live(x)' = Live(x) /\ Live(x) # NoEnd
      BY LiveDiffer DEF Live
    <3>3. y = n => Len(queue'[y]) = 0
      BY <3>1
    <3>4. y = n => ~Pending(x, y)' /\ x \notin served'[y]
      BY <3>1, <3>2, <3>3 DEF Pending, Queued
    <3> QED
      BY <3>4 DEF ServerOf
  <2>4. ASSUME y # n
        PROVE  ServerOf(x, y)' = IF x = n THEN "none" ELSE ServerOf(x, y)
    <3>1. /\ queue'[y] = [i \in DOMAIN queue[y] |-> Dead(queue[y][i], n, y)]
          /\ acc'[y] = Dead(acc[y], n, y) /\ served'[y] = served[y] \ {n}
      BY <1>1, <2>4 DEF Crash
    <3> QED
      BY <3>1, EndsDie
  <2>5. CASE x = n
    <3>1. link'[x][y] = "none" /\ (y \in answered[x])' = FALSE
      BY <2>1, <2>5 DEF TypeOK
    <3>2. ServerOf(x, y)' = "none"
      BY <2>3, <2>4, <2>5
    <3>3. Link(x, y)!LoseClient
      BY <3>1, <3>2, ServerValueNext DEF Link!LoseClient
    <3> QED
      BY <3>3 DEF PairStep, Link!Next
  <2>6. CASE x # n /\ y = n
    BY <2>2, <2>3, <2>6, PairLosesServer
  <2>7. CASE x # n /\ y # n
    BY <2>2, <2>4, <2>7, PairStutters
  <2> QED
    BY <2>5, <2>6, <2>7
<1>2. CASE Breaks(n, m)
  <2>1. /\ queue' = [queue EXCEPT ![m] = [i \in DOMAIN queue[m] |-> Dead(queue[m][i], n, m)]]
        /\ acc' = [acc EXCEPT ![m] = Dead(acc[m], n, m)]
        /\ served' = [served EXCEPT ![m] = served[m] \ {n}]
        /\ UNCHANGED <<link, answered>>
    BY <1>2 DEF Breaks, clientVars
  <2>2. CASE y # m
    <3>1. queue'[y] = queue[y] /\ acc'[y] = acc[y] /\ served'[y] = served[y]
      BY <2>1, <2>2 DEF TypeOK
    <3> QED
      BY <2>1, <3>1, SameServer, PairStutters
  <2>3. CASE y = m
    <3>1. /\ queue'[y] = [i \in DOMAIN queue[y] |-> Dead(queue[y][i], n, y)]
          /\ acc'[y] = Dead(acc[y], n, y) /\ served'[y] = served[y] \ {n}
      BY <2>1, <2>3 DEF TypeOK
    <3>2. ServerOf(x, y)' = IF x = n THEN "none" ELSE ServerOf(x, y)
      BY <3>1, EndsDie
    <3> QED
      BY <2>1, <3>2, PairLosesServer, PairStutters
  <2> QED
    BY <2>2, <2>3
<1> QED
  BY <1>1, <1>2

LEMMA StepIsPairStep ==
    ASSUME TypeOK, TypeOK', ConnInv, [Next]_vars, NEW x \in Nodes, NEW y \in Nodes
    PROVE  PairStep(x, y)
<1>1. CASE UNCHANGED <<clientVars, serverVars>>
  BY <1>1, SameServer, PairStutters DEF clientVars, serverVars
<1>2. ASSUME NEW n \in Nodes, Restart(n) PROVE PairStep(x, y)
  BY <1>1, <1>2 DEF Restart
<1>3. ASSUME NEW n \in Nodes, OpenTask(n) \/ AcceptTask(n) \/ ReaderEnds(n) PROVE PairStep(x, y)
  BY <1>3, OpenTaskIsPairStep, AcceptTaskIsPairStep
<1>4. ASSUME NEW n \in Nodes, NEW m \in Nodes, UnicastCloses(n, m) \/ Broadcasts(n)
      PROVE  PairStep(x, y)
  BY <1>4, SendIsPairStep
<1>5. ASSUME NEW n \in Nodes, NEW m \in Nodes, Crash(n) \/ Breaks(n, m) PROVE PairStep(x, y)
  BY <1>5, FaultIsPairStep
<1> QED
  BY <1>1, <1>2, <1>3, <1>4, <1>5 DEF Next, vars

LEMMA InitIsPairInit ==
    ASSUME Init, NEW n \in Nodes, NEW m \in Nodes
    PROVE  Link(n, m)!Init
<1>1. link[n][m] = "none" /\ n \notin served[m] /\ m \notin answered[n]
  BY DEF Init
<1>2. ~Alive(n, m)
  <2>1. queue[m] = <<>> /\ acc[m] = NoEnd /\ Live(n) # NoEnd
    BY LiveDiffer DEF Init
  <2> QED
    BY <1>1, <2>1 DEF Alive, Range
<1>3. (m \in answered[n]) = FALSE
  BY <1>1
<1> QED
  BY <1>1, <1>2, <1>3 DEF Link!Init

\* Every pair of nodes keeps the protocol of Handshake, whatever the others do, whatever
\* crashes, breaks and restarts, and however the one accept task of the server and the one
\* open task of the client interleave their pairs.
THEOREM ImplementsHandshake == Spec => RefinesHandshake
<1>1. Init => \A n, m \in Nodes : Link(n, m)!Init
  BY InitIsPairInit
<1>2. TypeOK /\ TypeOK' /\ ConnInv /\ [Next]_vars
          => \A n, m \in Nodes : Link(n, m)!Next \/ UNCHANGED Link(n, m)!vars
  BY StepIsPairStep DEF PairStep
<1> QED
  BY <1>1, <1>2, TypeCorrect, ConnInvariant, PTL DEF Spec, RefinesHandshake

-----------------------------------------------------------------------------
(* Who waits for whom.                                                      *)

\* In a handshake the open task stays at its host.
AtHostInv ==
    \A n, m \in Nodes : link[n][m] \in {"new", "wait"} => Running(n) /\ Host(n) = m

\* Only a node that listens has ends of connections.
ListeningInv ==
    \A m \in Nodes : mode[m] # "up" => Len(queue[m]) = 0 /\ acc[m] = NoEnd /\ served[m] = {}

\* A server past the handshake has answered, and the client has the answer or finds it.
AnsweredInv ==
    \A n, m \in Nodes : n \in served[m] /\ link[n][m] = "wait" => m \in answered[n]

\* The open task moves to the next line only when no handshake is left behind.
LEMMA OpenAtHost ==
    ASSUME TypeOK, AtHostInv, NEW n \in Nodes, OpenTask(n)
    PROVE  AtHostInv'
<1>1. SUFFICES ASSUME NEW x \in Nodes, NEW y \in Nodes, link'[x][y] \in {"new", "wait"}
               PROVE  Running(x)' /\ Host(x)' = y
  BY DEF AtHostInv
<1> DEFINE h == Host(n)
<1>2. h \in Nodes
  BY HostIsNode
<1>3. mode' = mode
  BY DEF OpenTask, OpenSkips, OpenRefused, OpenConnects, OpenSendsID, OpenGetsID, OpenLosesPeer
<1>4. ASSUME link'[x][y] = link[x][y], line'[x] = line[x] PROVE Running(x)' /\ Host(x)' = y
  BY <1>1, <1>3, <1>4 DEF AtHostInv, Running, Host
<1>5. ASSUME NextLine(n), x # n PROVE line'[x] = line[x]
  BY <1>5 DEF NextLine, TypeOK
<1>6. CASE OpenSkips(n) \/ OpenRefused(n)
  <2>1. NextLine(n) /\ link' = link /\ link[n][h] \in {"open", "none"}
    BY <1>6 DEF OpenSkips, OpenRefused
  <2>2. x # n
    BY <1>1, <2>1 DEF AtHostInv
  <2> QED
    BY <1>4, <1>5, <2>1, <2>2
<1> HIDE DEF h
<1>7. CASE OpenConnects(n) \/ OpenSendsID(n)
  <2>1. \E s : SetLink(n, h, s)
    BY <1>7 DEF OpenConnects, OpenSendsID, h
  <2>2. line' = line /\ Running(n)
    BY <1>7 DEF OpenConnects, OpenSendsID
  <2>3. CASE x = n /\ y = h
    BY <1>3, <2>2, <2>3 DEF Running, Host, h
  <2>4. CASE ~(x = n /\ y = h)
    <3>1. link'[x][y] = link[x][y]
      BY <1>2, <2>1, <2>4, OtherLinks
    <3> QED
      BY <1>4, <2>2, <3>1
  <2> QED
    BY <2>3, <2>4
<1>8. CASE OpenGetsID(n) \/ OpenLosesPeer(n)
  <2>1. NextLine(n) /\ \E s \in {"open", "none"} : SetLink(n, h, s)
    BY <1>8 DEF OpenGetsID, OpenLosesPeer, h
  <2>2. ~(x = n /\ y = h)
    BY <1>1, <1>2, <2>1, OtherLinks
  <2>3. link'[x][y] = link[x][y]
    BY <1>2, <2>1, <2>2, OtherLinks
  <2>4. x # n
    BY <1>1, <2>2, <2>3 DEF AtHostInv, h
  <2> QED
    BY <1>4, <1>5, <2>1, <2>3, <2>4
<1> QED
  BY <1>6, <1>7, <1>8 DEF OpenTask

LEMMA StepAtHost == TypeOK /\ AtHostInv /\ [Next]_vars => AtHostInv'
<1> SUFFICES ASSUME TypeOK, AtHostInv, [Next]_vars PROVE AtHostInv'
  OBVIOUS
<1>1. ASSUME UNCHANGED <<mode, line>>,
             \A x, y \in Nodes : link'[x][y] = link[x][y] \/ link'[x][y] = "none"
      PROVE  AtHostInv'
  BY <1>1 DEF AtHostInv, Running, Host
<1>2. ASSUME NEW n \in Nodes, OpenTask(n) PROVE AtHostInv'
  BY <1>2, OpenAtHost
<1>3. ASSUME NEW n \in Nodes, AcceptTask(n) \/ ReaderEnds(n) PROVE AtHostInv'
  BY <1>1, <1>3 DEF AcceptTask, AcceptTakes, AcceptAnswers, AcceptAnswersNobody,
     AcceptLeavesUnread, AcceptAnswerFails, AcceptLosesID, ReaderEnds, clientVars
<1>4. ASSUME NEW n \in Nodes, Broadcasts(n) PROVE AtHostInv'
  <2>1. UNCHANGED <<mode, line>>
    BY <1>4 DEF Broadcasts
  <2>2. PICK closed : link' = [link EXCEPT ![n] = [m \in Nodes |->
                                 IF m \in closed THEN "none" ELSE link[n][m]]]
    BY <1>4 DEF Broadcasts
  <2>3. ASSUME NEW x \in Nodes, NEW y \in Nodes
        PROVE  link'[x][y] = link[x][y] \/ link'[x][y] = "none"
    BY <2>2 DEF TypeOK
  <2> QED
    BY <1>1, <2>1, <2>3
<1>5. ASSUME NEW n \in Nodes, NEW m \in Nodes, UnicastCloses(n, m) PROVE AtHostInv'
  <2>1. UNCHANGED <<mode, line>> /\ SetLink(n, m, "none")
    BY <1>5 DEF UnicastCloses
  <2> QED
    BY <1>1, <2>1, OtherLinks
<1>6. ASSUME NEW n \in Nodes, Crash(n) PROVE AtHostInv'
  <2>1. ASSUME NEW x \in Nodes, NEW y \in Nodes
        PROVE  \/ x = n /\ link'[x][y] = "none"
               \/ x # n /\ UNCHANGED <<link[x], mode[x], line[x]>>
    BY <1>6 DEF Crash, TypeOK
  <2> QED
    BY <2>1 DEF AtHostInv, Running, Host
<1>7. ASSUME NEW n \in Nodes, Restart(n) PROVE AtHostInv'
  <2>1. PICK s \in {"up", "deaf"} : mode' = [mode EXCEPT ![n] = s]
    BY <1>7 DEF Restart
  <2>2. \A x \in Nodes : Running(x) => Running(x)'
    BY <2>1 DEF Running, TypeOK
  <2>3. UNCHANGED <<line, link>>
    BY <1>7 DEF Restart, clientVars
  <2> QED
    BY <2>2, <2>3 DEF AtHostInv, Host
<1>8. ASSUME NEW n \in Nodes, NEW m \in Nodes, Breaks(n, m) PROVE AtHostInv'
  BY <1>1, <1>8 DEF Breaks, clientVars
<1>9. CASE UNCHANGED vars
  BY <1>1, <1>9 DEF vars, clientVars
<1> QED
  BY <1>2, <1>3, <1>4, <1>5, <1>6, <1>7, <1>8, <1>9 DEF Next

LEMMA StepListening == TypeOK /\ ListeningInv /\ [Next]_vars => ListeningInv'
<1> SUFFICES ASSUME TypeOK, ListeningInv, [Next]_vars PROVE ListeningInv'
  OBVIOUS
<1>1. ASSUME UNCHANGED <<mode, queue, acc, served>> PROVE ListeningInv'
  BY <1>1 DEF ListeningInv
<1>2. ASSUME NEW n \in Nodes, OpenTask(n) PROVE ListeningInv'
  <2>1. CASE ~OpenConnects(n)
    BY <1>1, <1>2, <2>1 DEF OpenTask, OpenSkips, OpenRefused, OpenSendsID, OpenGetsID,
       OpenLosesPeer, serverVars
  <2>2. CASE OpenConnects(n)
    <3>1. /\ mode[Host(n)] = "up" /\ UNCHANGED <<mode, acc, served>>
          /\ \A m \in Nodes : m # Host(n) => queue'[m] = queue[m]
      BY <2>2 DEF OpenConnects, TypeOK
    <3> QED
      BY <3>1 DEF ListeningInv
  <2> QED
    BY <2>1, <2>2
<1>3. ASSUME NEW n \in Nodes, AcceptTask(n) PROVE ListeningInv'
  <2>1. mode[n] = "up"
    <3>1. acc[n] # NoEnd \/ queue[n] # <<>>
      BY <1>3 DEF AcceptTask, AcceptTakes, AcceptAnswers, AcceptAnswersNobody,
         AcceptLeavesUnread, AcceptAnswerFails, AcceptLosesID
    <3>2. queue[n] # <<>> => Len(queue[n]) # 0
      BY EmptySeq DEF TypeOK
    <3> QED
      BY <3>1, <3>2 DEF ListeningInv
  <2>2. mode' = mode /\ \A m \in Nodes : m # n => UNCHANGED <<queue[m], acc[m], served[m]>>
    BY <1>3 DEF AcceptTask, AcceptTakes, AcceptAnswers, AcceptAnswersNobody,
       AcceptLeavesUnread, AcceptAnswerFails, AcceptLosesID, TypeOK
  <2> QED
    BY <2>1, <2>2 DEF ListeningInv
<1>4. ASSUME NEW n \in Nodes, ReaderEnds(n) \/ Broadcasts(n) PROVE ListeningInv'
  BY <1>1, <1>4 DEF ReaderEnds, Broadcasts, serverVars
<1>5. ASSUME NEW n \in Nodes, NEW m \in Nodes, UnicastCloses(n, m) PROVE ListeningInv'
  BY <1>1, <1>5 DEF UnicastCloses, serverVars
<1>6. ASSUME NEW n \in Nodes, NEW y \in Nodes, ListeningInv, mode[y] # "up",
             queue'[y] = [i \in DOMAIN queue[y] |-> Dead(queue[y][i], n, y)],
             acc'[y] = Dead(acc[y], n, y), served'[y] = served[y] \ {n}
      PROVE  Len(queue'[y]) = 0 /\ acc'[y] = NoEnd /\ served'[y] = {}
  <2>1. Len(queue[y]) = 0 /\ acc[y] = NoEnd /\ served[y] = {}
    BY <1>6 DEF ListeningInv
  <2>2. Len(queue'[y]) = 0
    BY <1>6, <2>1, DeadQueue DEF TypeOK
  <2>3. acc'[y] = NoEnd
    BY <1>6, <2>1, DeadAcc DEF TypeOK
  <2> QED
    BY <1>6, <2>1, <2>2, <2>3
<1>7. ASSUME NEW n \in Nodes, Crash(n) PROVE ListeningInv'
  <2>1. SUFFICES ASSUME NEW y \in Nodes, mode'[y] # "up"
                 PROVE  Len(queue'[y]) = 0 /\ acc'[y] = NoEnd /\ served'[y] = {}
    BY DEF ListeningInv
  <2>2. CASE y = n
    <3>1. queue'[y] = <<>> /\ acc'[y] = NoEnd /\ served'[y] = {}
      BY <1>7, <2>2 DEF Crash
    <3> QED
      BY <3>1
  <2>3. CASE y # n
    <3>1. /\ queue'[y] = [i \in DOMAIN queue[y] |-> Dead(queue[y][i], n, y)]
          /\ acc'[y] = Dead(acc[y], n, y) /\ served'[y] = served[y] \ {n}
          /\ mode[y] # "up"
      BY <1>7, <2>1, <2>3 DEF Crash, TypeOK
    <3> QED
      BY <1>6, <3>1
  <2> QED
    BY <2>2, <2>3
<1>8. ASSUME NEW n \in Nodes, NEW m \in Nodes, Breaks(n, m) PROVE ListeningInv'
  <2>1. SUFFICES ASSUME NEW y \in Nodes, mode'[y] # "up"
                 PROVE  Len(queue'[y]) = 0 /\ acc'[y] = NoEnd /\ served'[y] = {}
    BY DEF ListeningInv
  <2>2. mode[y] # "up"
    BY <1>8, <2>1 DEF Breaks
  <2>3. CASE y = m
    <3>1. /\ queue'[y] = [i \in DOMAIN queue[y] |-> Dead(queue[y][i], n, y)]
          /\ acc'[y] = Dead(acc[y], n, y) /\ served'[y] = served[y] \ {n}
      BY <1>8, <2>3 DEF Breaks, TypeOK
    <3> QED
      BY <1>6, <2>2, <3>1
  <2>4. CASE y # m
    <3>1. queue'[y] = queue[y] /\ acc'[y] = acc[y] /\ served'[y] = served[y]
      BY <1>8, <2>4 DEF Breaks, TypeOK
    <3> QED
      BY <2>2, <3>1 DEF ListeningInv
  <2> QED
    BY <2>3, <2>4
<1>9. ASSUME NEW n \in Nodes, Restart(n) PROVE ListeningInv'
  <2>1. PICK s : mode' = [mode EXCEPT ![n] = s]
    BY <1>9 DEF Restart
  <2>2. mode[n] = "down" /\ UNCHANGED <<queue, acc, served>>
    BY <1>9 DEF Restart, serverVars
  <2>3. \A m \in Nodes : mode'[m] # "up" => mode[m] # "up"
    BY <2>1, <2>2 DEF TypeOK
  <2> QED
    BY <2>2, <2>3 DEF ListeningInv
<1>10. CASE UNCHANGED vars
  BY <1>1, <1>10 DEF vars, serverVars
<1> QED
  BY <1>2, <1>3, <1>4, <1>5, <1>7, <1>8, <1>9, <1>10 DEF Next

\* That answers are kept follows from the protocol of a pair alone.
LEMMA StepAnswered ==
    TypeOK /\ TypeOK' /\ ConnInv /\ AnsweredInv /\ [Next]_vars => AnsweredInv'
<1> SUFFICES ASSUME TypeOK, TypeOK', ConnInv, AnsweredInv, [Next]_vars,
                    NEW n \in Nodes, NEW m \in Nodes, n \in served'[m], link'[n][m] = "wait"
             PROVE  m \in answered'[n]
  BY DEF AnsweredInv
<1>1. ServerOf(n, m)' = "served" /\ (ServerOf(n, m) = "served" => n \in served[m])
  BY DEF ServerOf
<1>2. n \in served[m] => link[n][m] \in {"wait", "open"}
  BY DEF ConnInv, ConnOf
<1>3. PairStep(n, m)
  BY StepIsPairStep
<1>4. CASE Link(n, m)!SendID
  <2>1. link[n][m] = "new" /\ ServerOf(n, m)' = ServerOf(n, m)
    BY <1>4, ServerValue, ServerValueNext DEF Link!SendID
  <2> QED
    BY <1>1, <1>2, <2>1
<1>5. CASE Link(n, m)!Answer
  <2>1. (m \in answered[n])' = TRUE
    BY <1>5 DEF Link!Answer
  <2> QED
    BY <2>1
<1>6. CASE UNCHANGED Link(n, m)!vars
  <2>1. /\ link'[n][m] = link[n][m] /\ ServerOf(n, m)' = ServerOf(n, m)
        /\ (m \in answered[n])' = (m \in answered[n])
    BY <1>6, ServerValue, ServerValueNext DEF Link!vars
  <2> QED
    BY <1>1, <2>1 DEF AnsweredInv
<1>7. CASE \/ Link(n, m)!Connect \/ Link(n, m)!GetID \/ Link(n, m)!LoseServer
           \/ Link(n, m)!Close \/ Link(n, m)!LoseClient
  <2>1. link'[n][m] # "wait" \/ ServerOf(n, m)' # "served"
    BY <1>7, ServerValue, ServerValueNext
       DEF Link!Connect, Link!GetID, Link!LoseServer, Link!Close, Link!LoseClient
  <2> QED
    BY <1>1, <2>1
<1> QED
  BY <1>3, <1>4, <1>5, <1>6, <1>7 DEF PairStep, Link!Next

\* Whoever waits in a handshake waits for a partner that is at work on it, whatever
\* crashes, breaks and restarts: there is no circle of open and accept tasks.
THEOREM PartnersAreAtWork == Spec => []WaitsForPartner
<1>1. Init => AtHostInv /\ ListeningInv /\ AnsweredInv
  BY DEF Init, AtHostInv, ListeningInv, AnsweredInv
<1>2. TypeOK /\ ConnInv /\ AtHostInv /\ ListeningInv /\ AnsweredInv => WaitsForPartner
  <2> SUFFICES ASSUME TypeOK, ConnInv, AtHostInv, ListeningInv, AnsweredInv,
                      NEW n \in Nodes, NEW m \in Nodes
               PROVE  /\ acc[m] = Live(n) /\ ~HasID(m)
                            => Running(n) /\ Host(n) = m /\ link[n][m] = "new"
                      /\ link[n][m] = "wait" /\ m \notin answered[n] /\ Alive(n, m)
                            => mode[m] = "up" /\ n \notin served[m] /\ Host(n) = m
    BY DEF WaitsForPartner
  <2>1. ASSUME acc[m] = Live(n), ~HasID(m)
        PROVE  Running(n) /\ Host(n) = m /\ link[n][m] = "new"
    <3>1. acc[m].state = "live" /\ acc[m].from = n
      BY <2>1 DEF Live
    <3>2. link[n][m] = "new"
      BY <2>1, <3>1 DEF HasID
    <3> QED
      BY <3>2 DEF AtHostInv
  <2>2. ASSUME link[n][m] = "wait", m \notin answered[n], Alive(n, m)
        PROVE  mode[m] = "up" /\ n \notin served[m] /\ Host(n) = m
    <3>1. Queued(n, m) \/ acc[m] = Live(n) \/ n \in served[m]
      BY <2>2, AliveSomewhere
    <3>2. Queued(n, m) => Len(queue[m]) # 0
      BY DEF Queued
    <3>3. acc[m] = Live(n) => acc[m] # NoEnd
      BY LiveDiffer
    <3>4. mode[m] = "up"
      BY <3>1, <3>2, <3>3 DEF ListeningInv
    <3> QED
      BY <2>2, <3>4 DEF AtHostInv, AnsweredInv
  <2> QED
    BY <2>1, <2>2
<1> QED
  BY <1>1, <1>2, TypeCorrect, ConnInvariant, StepAtHost, StepListening, StepAnswered, PTL
     DEF Spec
=============================================================================
