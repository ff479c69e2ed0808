--------------------------- MODULE TrafficProofs ---------------------------
(***************************************************************************)
(* Theorems of Traffic, for meshes, pools and windows of any size.         *)
(***************************************************************************)
EXTENDS Traffic, FiniteSetTheorems, SequenceTheorems, TLAPS

-----------------------------------------------------------------------------
\* Both ends of a connection are nodes.
LEMMA LinkEnds ==
    ASSUME NEW l \in Links
    PROVE  l[1] \in Nodes /\ l[2] \in Nodes
  BY TrafficConstants

\* The destinations of a packet are connections of its sender.
LEMMA DestinationsAreLinks ==
    ASSUME NEW n \in Nodes, NEW t \in Destinations(n)
    PROVE  t \in Seq(Links)
<1>1. PICK k \in 0 .. Cardinality(Out(n)) : t \in [1 .. k -> Out(n)]
  BY DEF Destinations
<1>2. k \in Nat
  <2>1. IsFiniteSet(Out(n))
    BY FS_Subset, TrafficConstants DEF Out
  <2> QED
    BY <1>1, <2>1, FS_CardinalityType
<1> QED
  BY <1>1, <1>2 DEF Out

\* What the steps of the producing threads leave alone.
LEMMA AppsLeave ==
    ASSUME NEW n \in Nodes, Sends(n) \/ \E a \in Apps : Frame(n, a) \/ LocksHub(n, a)
    PROVE  UNCHANGED <<poolFree, rdPc, rdBuf, ring, upLock, staticHub2>>
  BY DEF Sends, Frame, LocksHub, SendsPart, TimesOut, SendVanishes, SendFails, Returns,
         readVars, static

\* What the steps of a read thread leave alone.
LEMMA ReadsLeave ==
    ASSUME NEW l \in Links, Reads(l)
    PROVE  UNCHANGED <<appPc, targets, part, framerFree, hubLock, staticHub, staticDownlinkP, conn>>
  BY DEF Reads, FindsClosed, GetsBuffer, GetsNone, ReturnsEmpty, Receives, RecvInterrupted,
         RecvFails, ReturnsUnused, LocksUplink, FindsFrame, Skips, Delivers, Parsed,
         appVars, static, net

\* What becomes of the connections leaves the threads alone, but for a new read thread.
LEMMA LinksLeave ==
    ASSUME NEW l \in Links, Breaks(l) \/ Reconnects(l)
    PROVE  UNCHANGED <<appVars, poolFree, rdBuf, ring, upLock, hubLock, static>>
  BY DEF Breaks, Reconnects, readVars

\* The steps of the producing threads keep the types.
LEMMA AppTypes ==
    ASSUME TypeOK, NEW n \in Nodes,
           Sends(n) \/ \E a \in Apps : Frame(n, a) \/ LocksHub(n, a)
    PROVE  TypeOK'
<1> USE TrafficConstants DEF TypeOK, appVars, readVars, static, net, AppGoto
<1>1. ASSUME NEW a \in Apps, Frame(n, a) PROVE TypeOK'
  BY <1>1 DEF Frame
<1>2. ASSUME NEW a \in Apps, LocksHub(n, a) PROVE TypeOK'
  <2>1. PICK t \in Destinations(n) : targets' = [targets EXCEPT ![n] = t]
    BY <1>2 DEF LocksHub
  <2>2. targets' \in [Nodes -> Seq(Links)]
    BY <2>1, DestinationsAreLinks
  <2> QED
    BY <1>2, <2>2 DEF LocksHub
<1>3. CASE SendsPart(n)
  <2> DEFINE l == Head(targets[n])
  <2>1. l \in Links /\ Tail(targets[n]) \in Seq(Links)
    BY <1>3, HeadTailProperties DEF SendsPart
  <2>2. part[n] \in {0, 1} /\ <<n, part[n] + 1>> \in Half
    <3>1. part[n] = 0 \/ part[n] = 1
      OBVIOUS
    <3>2. part[n] + 1 \in {1, 2}
      BY <3>1
    <3> QED
      BY <3>1, <3>2 DEF Half
  <2>3. Append(chan[l], <<n, part[n] + 1>>) \in Seq(Half)
    BY <2>1, <2>2
  <2>4. chan' \in [Links -> Seq(Half)]
    BY <1>3, <2>1, <2>3 DEF SendsPart
  <2>5. targets' \in [Nodes -> Seq(Links)]
    BY <1>3, <2>1 DEF SendsPart
  <2>6. part' \in [Nodes -> {0, 1}]
    <3>1. 1 - part[n] \in {0, 1}
      BY <2>2
    <3> QED
      BY <1>3, <3>1 DEF SendsPart
  <2> QED
    BY <1>3, <2>4, <2>5, <2>6 DEF SendsPart
<1>4. CASE TimesOut(n)
  <2>1. Tail(targets[n]) \in Seq(Links)
    BY <1>4, HeadTailProperties DEF TimesOut
  <2> QED
    BY <1>4, <2>1 DEF TimesOut
<1>5. ASSUME NEW a \in Apps, Returns(n, a) PROVE TypeOK'
  BY <1>5 DEF Returns
<1>6. CASE SendVanishes(n)
  <2>1. Tail(targets[n]) \in Seq(Links)
    BY <1>6, HeadTailProperties DEF SendVanishes
  <2>2. targets' \in [Nodes -> Seq(Links)]
    BY <1>6, <2>1 DEF SendVanishes
  <2>3. part' \in [Nodes -> {0, 1}]
    <3>1. part[n] = 0 \/ part[n] = 1
      OBVIOUS
    <3>2. 1 - part[n] \in {0, 1}
      BY <3>1
    <3> QED
      BY <1>6, <3>2 DEF SendVanishes
  <2> QED
    BY <1>6, <2>2, <2>3 DEF SendVanishes
<1>7. CASE SendFails(n)
  <2>1. Head(targets[n]) \in Links /\ Tail(targets[n]) \in Seq(Links)
    BY <1>7, HeadTailProperties DEF SendFails
  <2>2. conn' \in [Links -> {"up", "broken", "down"}]
    BY <1>7, <2>1 DEF SendFails
  <2> QED
    BY <1>7, <2>1, <2>2 DEF SendFails
<1> QED
  BY <1>1, <1>2, <1>3, <1>4, <1>5, <1>6, <1>7 DEF Sends

\* The steps of a read thread keep the types.
LEMMA ReadTypes ==
    ASSUME TypeOK, NEW l \in Links, Reads(l)
    PROVE  TypeOK'
<1> l[2] \in Nodes
  BY LinkEnds
<1> USE DEF TypeOK, appVars, readVars, static, net, ReadGoto, Holding
<1>1. CASE GetsBuffer(l)
  <2>1. poolFree' \in [Nodes -> Int]
    BY <1>1 DEF GetsBuffer
  <2> QED
    BY <1>1, <2>1 DEF GetsBuffer
<1>2. CASE GetsNone(l)
  BY <1>2 DEF GetsNone
<1>3. CASE Receives(l)
  BY <1>3 DEF Receives
<1>4. CASE LocksUplink(l)
  <2>1. ring[l[2]] \o rdBuf[l] \in Seq(Half)
    BY ConcatProperties
  <2>2. ring' \in [Nodes -> Seq(Half)]
    BY <1>4, <2>1 DEF LocksUplink
  <2>3. rdBuf' \in [Links -> Seq(Half)]
    BY <1>4 DEF LocksUplink
  <2>4. upLock' \in [Nodes -> Links \cup {Nobody}]
    BY <1>4 DEF LocksUplink
  <2> QED
    BY <1>4, <2>2, <2>3, <2>4 DEF LocksUplink
<1>5. CASE ReturnsEmpty(l)
  BY <1>5 DEF ReturnsEmpty
<1>6. CASE FindsFrame(l)
  BY <1>6 DEF FindsFrame
<1>7. CASE Skips(l)
  <2>1. ring[l[2]] \in Seq(Half) /\ ring[l[2]] # <<>>
    BY <1>7 DEF Skips, MayBeFrame
  <2>2. Tail(ring[l[2]]) \in Seq(Half)
    BY <2>1, HeadTailProperties
  <2> QED
    BY <1>7, <2>2 DEF Skips
<1>8. CASE Delivers(l)
  <2>1. ring[l[2]] \in Seq(Half)
    OBVIOUS
  <2>2. SubSeq(ring[l[2]], 3, Len(ring[l[2]])) \in Seq(Half)
    BY <2>1, SubSeqProperties
  <2>3. ring' \in [Nodes -> Seq(Half)]
    BY <1>8, <2>2 DEF Delivers
  <2>4. staticHub2' \in [Nodes -> Int]
    BY <1>8 DEF Delivers
  <2> QED
    BY <1>8, <2>3, <2>4 DEF Delivers
<1>9. CASE Parsed(l)
  BY <1>9 DEF Parsed
<1>10. CASE FindsClosed(l)
  BY <1>10 DEF FindsClosed
<1>11. CASE RecvInterrupted(l) \/ RecvFails(l)
  BY <1>11 DEF RecvInterrupted, RecvFails
<1>12. CASE ReturnsUnused(l)
  <2>1. poolFree' \in [Nodes -> Int]
    BY <1>12 DEF ReturnsUnused
  <2>2. rdPc' \in [Links -> Holding \cup {"get", "empty", "ended"}]
    BY <1>12 DEF ReturnsUnused
  <2> QED
    BY <1>12, <2>1, <2>2 DEF ReturnsUnused
<1> QED
  BY <1>1, <1>2, <1>3, <1>4, <1>5, <1>6, <1>7, <1>8, <1>9, <1>10, <1>11, <1>12 DEF Reads

\* A stream cut short is one of halves.
LEMMA CutShort ==
    ASSUME NEW s \in Seq(Half), NEW k \in 0 .. Len(s)
    PROVE  /\ SubSeq(s, 1, k) \in Seq(Half) /\ Len(SubSeq(s, 1, k)) = k
           /\ \A i \in 1 .. k : SubSeq(s, 1, k)[i] = s[i]
<1>1. Len(s) \in Nat /\ k \in Nat /\ k <= Len(s) /\ 1 \in Int /\ k \in Int
  BY LenProperties
<1>2. \A i \in 1 .. k : i \in 1 .. Len(s)
  BY <1>1
<1>3. \A i \in 1 .. k : s[i] \in Half
  BY <1>2, ElementOfSeq
<1>4. /\ SubSeq(s, 1, k) \in Seq(Half)
      /\ Len(SubSeq(s, 1, k)) = IF 1 <= k THEN k - 1 + 1 ELSE 0
      /\ \A i \in 1 .. k - 1 + 1 : SubSeq(s, 1, k)[i] = s[1 + i - 1]
  BY <1>1, <1>3, SubSeqProperties
<1>5. k - 1 + 1 = k /\ (IF 1 <= k THEN k - 1 + 1 ELSE 0) = k
  BY <1>1
<1>6. \A i \in 1 .. k : 1 + i - 1 = i
  BY <1>1
<1> QED
  BY <1>4, <1>5, <1>6

\* What becomes of the connections keeps the types.
LEMMA LinkTypes ==
    ASSUME TypeOK, NEW l \in Links, Breaks(l) \/ Reconnects(l)
    PROVE  TypeOK'
<1> USE DEF TypeOK, appVars, readVars, static, ReadGoto, Holding
<1>1. CASE Breaks(l)
  <2>1. PICK k \in 0 .. Len(chan[l]) : chan' = [chan EXCEPT ![l] = SubSeq(chan[l], 1, k)]
    BY <1>1 DEF Breaks
  <2>2. chan[l] \in Seq(Half)
    OBVIOUS
  <2>3. chan' \in [Links -> Seq(Half)]
    BY <2>1, <2>2, CutShort
  <2>4. conn' \in [Links -> {"up", "broken", "down"}]
    BY <1>1 DEF Breaks
  <2> QED
    BY <1>1, <2>3, <2>4 DEF Breaks
<1>2. CASE Reconnects(l)
  BY <1>2 DEF Reconnects
<1> QED
  BY <1>1, <1>2

LEMMA InitTypes == Init => TypeOK
  BY TrafficConstants DEF Init, TypeOK, Holding

LEMMA StepTypes == TypeOK /\ [Next]_vars => TypeOK'
<1> SUFFICES ASSUME TypeOK, [Next]_vars PROVE TypeOK'
  OBVIOUS
<1>1. CASE Next
  BY <1>1, AppTypes, ReadTypes, LinkTypes DEF Next
<1>2. CASE UNCHANGED vars
  BY <1>2 DEF TypeOK, vars, appVars, readVars, static, net
<1> QED
  BY <1>1, <1>2

\* Every variable keeps its type.
THEOREM TypeCorrect == Spec => []TypeOK
  BY InitTypes, StepTypes, PTL DEF Spec

-----------------------------------------------------------------------------
\* The guard of the hub: a producing thread sends exactly when it holds the guard, and
\* the buffers of the hub and of downlinkP are out exactly then.
HubInv ==
    /\ \A n \in Nodes : \A a \in Apps : appPc[n][a] = "send" <=> hubLock[n] = a
    /\ \A n \in Nodes :
          /\ staticHub[n] = IF hubLock[n] = Nobody THEN 0 ELSE 1
          /\ staticDownlinkP[n] = IF hubLock[n] = Nobody THEN 0 ELSE 1

\* The guard of uplinkP: a read thread parses exactly when it holds the guard, and the
\* buffer of hub2 is out exactly while the holder delivers.
UplinkInv ==
    /\ \A l \in Links : rdPc[l] \in {"parse", "deliver"} <=> upLock[l[2]] = l
    /\ \A n \in Nodes :
          staticHub2[n] = IF \E l \in Links : l[2] = n /\ rdPc[l] = "deliver" THEN 1 ELSE 0

LEMMA InitGuards == Init => HubInv /\ UplinkInv
  BY TrafficConstants, LinkEnds DEF Init, HubInv, UplinkInv

\* A producing thread enters the hub only when nobody is inside.
LEMMA AppGuards ==
    ASSUME TypeOK, HubInv, NEW n \in Nodes,
           Sends(n) \/ \E a \in Apps : Frame(n, a) \/ LocksHub(n, a)
    PROVE  HubInv'
<1>0. /\ appPc \in [Nodes -> [Apps -> {"idle", "framed", "send"}]]
      /\ hubLock \in [Nodes -> Apps \cup {Nobody}]
      /\ staticHub \in [Nodes -> Int] /\ staticDownlinkP \in [Nodes -> Int]
      /\ Nobody \notin Apps
  BY TrafficConstants DEF TypeOK
<1> USE <1>0 DEF HubInv, static, AppGoto
<1>1. ASSUME NEW a \in Apps, Frame(n, a) PROVE HubInv'
  BY <1>1 DEF Frame
<1>2. ASSUME NEW a \in Apps, LocksHub(n, a) PROVE HubInv'
  <2>1. \A m \in Nodes : \A b \in Apps : appPc'[m][b] = "send" <=> hubLock'[m] = b
    BY <1>2 DEF LocksHub
  <2>2. \A m \in Nodes :
           /\ staticHub'[m] = IF hubLock'[m] = Nobody THEN 0 ELSE 1
           /\ staticDownlinkP'[m] = IF hubLock'[m] = Nobody THEN 0 ELSE 1
    BY <1>2 DEF LocksHub
  <2> QED
    BY <2>1, <2>2
<1>3. CASE SendsPart(n)
  BY <1>3 DEF SendsPart
<1>4. CASE TimesOut(n) \/ SendVanishes(n) \/ SendFails(n)
  BY <1>4 DEF TimesOut, SendVanishes, SendFails
<1>5. ASSUME NEW a \in Apps, Returns(n, a) PROVE HubInv'
  <2>1. \A m \in Nodes : \A b \in Apps : appPc'[m][b] = "send" <=> hubLock'[m] = b
    BY <1>5 DEF Returns
  <2>2. \A m \in Nodes :
           /\ staticHub'[m] = IF hubLock'[m] = Nobody THEN 0 ELSE 1
           /\ staticDownlinkP'[m] = IF hubLock'[m] = Nobody THEN 0 ELSE 1
    BY <1>5 DEF Returns
  <2> QED
    BY <2>1, <2>2
<1> QED
  BY <1>1, <1>2, <1>3, <1>4, <1>5 DEF Sends

\* A read thread enters uplinkP only when nobody is inside.
LEMMA ReadGuards ==
    ASSUME TypeOK, UplinkInv, NEW l \in Links, Reads(l) \/ Reconnects(l)
    PROVE  UplinkInv'
<1>0. /\ rdPc \in [Links -> {"recv", "received", "failed", "interrupted", "parse", "deliver",
                             "get", "empty", "ended"}]
      /\ upLock \in [Nodes -> Links \cup {Nobody}]
      /\ staticHub2 \in [Nodes -> Int]
      /\ l[2] \in Nodes /\ \A k \in Links : k[2] \in Nodes
      /\ Nobody \notin Links
  BY TrafficConstants, LinkEnds DEF TypeOK, Holding
<1> USE <1>0 DEF UplinkInv, static, ReadGoto
<1>1. CASE GetsBuffer(l)
  BY <1>1 DEF GetsBuffer
<1>2. CASE GetsNone(l)
  BY <1>2 DEF GetsNone
<1>3. CASE Receives(l)
  BY <1>3 DEF Receives
<1>4. CASE LocksUplink(l)
  BY <1>4 DEF LocksUplink
<1>5. CASE ReturnsEmpty(l)
  BY <1>5 DEF ReturnsEmpty
<1>6. CASE FindsFrame(l)
  <2>1. \A k \in Links : k[2] = l[2] /\ rdPc[k] = "deliver" => FALSE
    BY <1>6 DEF FindsFrame
  <2>2. staticHub2'[l[2]] = 1 /\ rdPc'[l] = "deliver"
    BY <1>6, <2>1 DEF FindsFrame
  <2> QED
    BY <1>6, <2>1, <2>2 DEF FindsFrame
<1>7. CASE Skips(l)
  BY <1>7 DEF Skips
<1>8. CASE Delivers(l)
  <2>1. \A k \in Links : k[2] = l[2] /\ rdPc[k] = "deliver" => k = l
    BY <1>8 DEF Delivers
  <2>2. staticHub2'[l[2]] = 0 /\ \A k \in Links : k[2] = l[2] => rdPc'[k] # "deliver"
    BY <1>8, <2>1 DEF Delivers
  <2> QED
    BY <1>8, <2>1, <2>2 DEF Delivers
<1>9. CASE Parsed(l)
  BY <1>9 DEF Parsed
<1>10. CASE FindsClosed(l) \/ RecvInterrupted(l) \/ RecvFails(l) \/ Reconnects(l)
  BY <1>10 DEF FindsClosed, RecvInterrupted, RecvFails, Reconnects
<1>11. CASE ReturnsUnused(l)
  BY <1>11 DEF ReturnsUnused
<1> QED
  BY <1>1, <1>2, <1>3, <1>4, <1>5, <1>6, <1>7, <1>8, <1>9, <1>10, <1>11 DEF Reads

\* What the read threads do leaves the hub's guard alone, and what the producing
\* threads do leaves uplinkP's alone.
LEMMA StepGuards == TypeOK /\ HubInv /\ UplinkInv /\ [Next]_vars => HubInv' /\ UplinkInv'
<1> SUFFICES ASSUME TypeOK, HubInv, UplinkInv, [Next]_vars PROVE HubInv' /\ UplinkInv'
  OBVIOUS
<1>1. UNCHANGED <<appPc, hubLock, staticHub, staticDownlinkP>> => HubInv'
  BY DEF HubInv
<1>2. UNCHANGED <<rdPc, upLock, staticHub2>> => UplinkInv'
  BY DEF UplinkInv
<1>3. ASSUME NEW l \in Links, Breaks(l)
      PROVE  UNCHANGED <<rdPc, upLock, staticHub2>>
  BY <1>3 DEF Breaks, readVars, static
<1>4. ASSUME NEW l \in Links, Breaks(l) \/ Reconnects(l)
      PROVE  UNCHANGED <<appPc, hubLock, staticHub, staticDownlinkP>>
  BY <1>4, LinksLeave DEF appVars, static
<1>5. CASE Next
  BY <1>1, <1>2, <1>3, <1>4, <1>5, AppGuards, ReadGuards, AppsLeave, ReadsLeave DEF Next
<1>6. CASE UNCHANGED vars
  BY <1>1, <1>2, <1>6 DEF vars, appVars, readVars, static
<1> QED
  BY <1>5, <1>6

\* The assertions in StaticMemory never fail: the guards give each of its buffers one
\* user at a time.
THEOREM StaticBuffersUsedOnce == Spec => []StaticBuffersOnce
<1>1. HubInv /\ UplinkInv => StaticBuffersOnce
  BY DEF HubInv, UplinkInv, StaticBuffersOnce
<1> QED
  BY <1>1, InitTypes, StepTypes, InitGuards, StepGuards, PTL DEF Spec

-----------------------------------------------------------------------------
\* The read threads of a node that hold a buffer.
Holders(n) == {l \in In(n) : rdPc[l] \in Holding}

LEMMA HoldersFinite ==
    ASSUME NEW n \in Nodes
    PROVE  IsFiniteSet(Holders(n)) /\ Cardinality(Holders(n)) \in Nat
<1>1. IsFiniteSet(Holders(n))
  BY FS_Subset, TrafficConstants DEF Holders, In
<1> QED
  BY <1>1, FS_CardinalityType

\* Only getBuffer makes a read thread a holder, and only giving the buffer back ends it,
\* parsed or not.
LEMMA ReadConserves ==
    ASSUME TypeOK, BuffersConserved, NEW l \in Links, Reads(l) \/ Reconnects(l)
    PROVE  BuffersConserved'
<1>0. /\ rdPc \in [Links -> {"recv", "received", "failed", "interrupted", "parse", "deliver",
                             "get", "empty", "ended"}]
      /\ poolFree \in [Nodes -> Int]
      /\ l[2] \in Nodes
  BY LinkEnds DEF TypeOK, Holding
<1>1. \A n \in Nodes : poolFree[n] + Cardinality(Holders(n)) = POOL
  BY DEF BuffersConserved, Holders
<1>2. SUFFICES ASSUME NEW n \in Nodes
               PROVE  poolFree'[n] + Cardinality(Holders(n)') = POOL
  BY DEF BuffersConserved, Holders, Holding, In
<1>3. CASE GetsBuffer(l) /\ n = l[2]
  <2>1. Holders(n)' = Holders(n) \cup {l} /\ l \notin Holders(n)
    BY <1>0, <1>3 DEF GetsBuffer, ReadGoto, Holders, Holding, In
  <2>2. Cardinality(Holders(n)') = Cardinality(Holders(n)) + 1
    BY <2>1, HoldersFinite, FS_AddElement
  <2>3. poolFree'[n] = poolFree[n] - 1
    BY <1>0, <1>3 DEF GetsBuffer
  <2> QED
    BY <1>0, <1>1, <2>2, <2>3, HoldersFinite
<1>4. CASE (Parsed(l) \/ ReturnsUnused(l)) /\ n = l[2]
  <2>1. rdPc[l] \in Holding /\ \E pc \in {"get", "ended"} : rdPc' = [rdPc EXCEPT ![l] = pc]
    BY <1>4 DEF Parsed, ReturnsUnused, ReadGoto, Holding
  <2>2. Holders(n)' = Holders(n) \ {l} /\ l \in Holders(n)
    BY <1>0, <1>4, <2>1 DEF Holders, Holding, In
  <2>3. Cardinality(Holders(n)') = Cardinality(Holders(n)) - 1
    BY <2>2, HoldersFinite, FS_RemoveElement
  <2>4. poolFree'[n] = poolFree[n] + 1
    BY <1>0, <1>4 DEF Parsed, ReturnsUnused
  <2> QED
    BY <1>0, <1>1, <2>3, <2>4, HoldersFinite
<1>5. CASE n # l[2] \/ ~(GetsBuffer(l) \/ Parsed(l) \/ ReturnsUnused(l))
  <2>1. Holders(n)' = Holders(n)
    <3>1. CASE n # l[2]
      <4>1. \A k \in In(n) : rdPc'[k] = rdPc[k]
        BY <1>0, <3>1 DEF Reads, FindsClosed, GetsBuffer, GetsNone, ReturnsEmpty, Receives,
           RecvInterrupted, RecvFails, ReturnsUnused, LocksUplink, FindsFrame, Skips, Delivers,
           Parsed, Reconnects, ReadGoto, In
      <4> QED
        BY <4>1 DEF Holders
    <3>2. CASE ~(GetsBuffer(l) \/ Parsed(l) \/ ReturnsUnused(l))
      <4>1. \A k \in Links : rdPc'[k] \in Holding <=> rdPc[k] \in Holding
        BY <1>0, <3>2 DEF Reads, FindsClosed, GetsNone, ReturnsEmpty, Receives,
           RecvInterrupted, RecvFails, LocksUplink, FindsFrame, Skips, Delivers, Reconnects,
           ReadGoto, Holding
      <4> QED
        BY <4>1 DEF Holders, In
    <3> QED
      BY <1>5, <3>1, <3>2
  <2>2. poolFree'[n] = poolFree[n]
    BY <1>0, <1>5 DEF Reads, FindsClosed, GetsBuffer, GetsNone, ReturnsEmpty, Receives,
       RecvInterrupted, RecvFails, ReturnsUnused, LocksUplink, FindsFrame, Skips, Delivers,
       Parsed, Reconnects
  <2> QED
    BY <1>1, <2>1, <2>2
<1> QED
  BY <1>3, <1>4, <1>5

\* No buffer of dynamicMemory is lost or returned twice, whatever the threads do, however
\* often the pool is asked in vain, and whether recv delivers, is interrupted or fails.
THEOREM BuffersAreConserved == Spec => []BuffersConserved
<1>1. Init => BuffersConserved
  <2> SUFFICES ASSUME Init, NEW n \in Nodes PROVE poolFree[n] + Cardinality(Holders(n)) = POOL
    BY DEF BuffersConserved, Holders
  <2>1. Holders(n) = {}
    BY DEF Init, Holders, Holding, In
  <2> QED
    BY <2>1, FS_EmptySet, TrafficConstants DEF Init
<1>2. TypeOK /\ BuffersConserved /\ [Next]_vars => BuffersConserved'
  <2> SUFFICES ASSUME TypeOK, BuffersConserved, [Next]_vars PROVE BuffersConserved'
    OBVIOUS
  <2>1. UNCHANGED <<poolFree, rdPc>> => BuffersConserved'
    BY DEF BuffersConserved
  <2>2. ASSUME NEW l \in Links, Breaks(l) PROVE UNCHANGED <<poolFree, rdPc>>
    BY <2>2 DEF Breaks, readVars
  <2> QED
    BY <2>1, <2>2, AppsLeave, ReadConserves DEF Next, vars, readVars
<1> QED
  BY <1>1, <1>2, InitTypes, StepTypes, PTL DEF Spec

-----------------------------------------------------------------------------
\* The producing threads that hold a buffer for a frame.
Framing(n) == {a \in Apps : appPc[n][a] # "idle"}

\* A producing thread holds one buffer from frame to the return of framedOut_out.
FramerInv == \A n \in Nodes : framerFree[n] + Cardinality(Framing(n)) = FRAMER_POOL

LEMMA FramingFinite ==
    ASSUME NEW n \in Nodes
    PROVE  /\ IsFiniteSet(Framing(n)) /\ Cardinality(Framing(n)) \in Nat
           /\ Cardinality(Framing(n)) <= Cardinality(Apps) /\ Cardinality(Apps) \in Nat
<1>1. IsFiniteSet(Framing(n)) /\ Cardinality(Framing(n)) <= Cardinality(Apps)
  BY FS_Subset, TrafficConstants DEF Framing
<1> QED
  BY <1>1, FS_CardinalityType, TrafficConstants

LEMMA AppConserves ==
    ASSUME TypeOK, FramerInv, NEW m \in Nodes,
           Sends(m) \/ \E a \in Apps : Frame(m, a) \/ LocksHub(m, a)
    PROVE  FramerInv'
<1>0. /\ appPc \in [Nodes -> [Apps -> {"idle", "framed", "send"}]]
      /\ framerFree \in [Nodes -> Int]
  BY DEF TypeOK
<1>2. SUFFICES ASSUME NEW n \in Nodes
               PROVE  framerFree'[n] + Cardinality(Framing(n)') = FRAMER_POOL
  BY DEF FramerInv, Framing
<1>3. ASSUME NEW a \in Apps, Frame(m, a), n = m
      PROVE  framerFree'[n] + Cardinality(Framing(n)') = FRAMER_POOL
  <2>1. Framing(n)' = Framing(n) \cup {a} /\ a \notin Framing(n)
    BY <1>0, <1>3 DEF Frame, AppGoto, Framing
  <2>2. Cardinality(Framing(n)') = Cardinality(Framing(n)) + 1
    BY <2>1, FramingFinite, FS_AddElement
  <2>3. framerFree'[n] = framerFree[n] - 1
    BY <1>0, <1>3 DEF Frame
  <2> QED
    BY <1>0, <2>2, <2>3, FramingFinite DEF FramerInv
<1>4. ASSUME NEW a \in Apps, Returns(m, a), n = m
      PROVE  framerFree'[n] + Cardinality(Framing(n)') = FRAMER_POOL
  <2>1. Framing(n)' = Framing(n) \ {a} /\ a \in Framing(n)
    BY <1>0, <1>4 DEF Returns, AppGoto, Framing
  <2>2. Cardinality(Framing(n)') = Cardinality(Framing(n)) - 1
    BY <2>1, FramingFinite, FS_RemoveElement
  <2>3. framerFree'[n] = framerFree[n] + 1
    BY <1>0, <1>4 DEF Returns
  <2> QED
    BY <1>0, <2>2, <2>3, FramingFinite DEF FramerInv
<1>5. CASE UNCHANGED <<framerFree[n], Framing(n)>>
  BY <1>5 DEF FramerInv
<1>6. ASSUME NEW a \in Apps, LocksHub(m, a) PROVE UNCHANGED <<framerFree[n], Framing(n)>>
  BY <1>0, <1>6 DEF LocksHub, AppGoto, Framing
<1>7. ASSUME NEW a \in Apps, Frame(m, a) \/ Returns(m, a), n # m
      PROVE  UNCHANGED <<framerFree[n], Framing(n)>>
  BY <1>0, <1>7 DEF Frame, Returns, AppGoto, Framing
<1>8. CASE SendsPart(m) \/ TimesOut(m) \/ SendVanishes(m) \/ SendFails(m)
  BY <1>5, <1>8 DEF SendsPart, TimesOut, SendVanishes, SendFails, Framing
<1> QED
  BY <1>3, <1>4, <1>5, <1>6, <1>7, <1>8 DEF Sends

\* swarmFramerBufferManager always has a buffer for a frame when there are as many as
\* threads that produce data, for each gives its buffer back before the next frame.
THEOREM FramerAlwaysGetsBuffer == Spec => []FramerNeverEmpty
<1>1. Init => FramerInv
  <2> SUFFICES ASSUME Init, NEW n \in Nodes
               PROVE  framerFree[n] + Cardinality(Framing(n)) = FRAMER_POOL
    BY DEF FramerInv
  <2>1. Framing(n) = {}
    BY DEF Init, Framing
  <2> QED
    BY <2>1, FS_EmptySet, TrafficConstants DEF Init
<1>2. TypeOK /\ FramerInv /\ [Next]_vars => FramerInv'
  <2> SUFFICES ASSUME TypeOK, FramerInv, [Next]_vars PROVE FramerInv'
    OBVIOUS
  <2>1. UNCHANGED <<framerFree, appPc>> => FramerInv'
    BY DEF FramerInv, Framing
  <2>2. ASSUME NEW l \in Links, Breaks(l) \/ Reconnects(l) PROVE UNCHANGED <<framerFree, appPc>>
    BY <2>2, LinksLeave DEF appVars
  <2> QED
    BY <2>1, <2>2, AppConserves, ReadsLeave DEF Next, vars, appVars
<1>3. TypeOK /\ FramerInv => FramerNeverEmpty
  BY FramingFinite, TrafficConstants DEF TypeOK, FramerInv, FramerNeverEmpty
<1> QED
  BY <1>1, <1>2, <1>3, InitTypes, StepTypes, PTL DEF Spec

-----------------------------------------------------------------------------
(* Streams of halves.                                                       *)

\* Halves of the client of l, in order.
FromClient(s, l) == s \in Seq(Half) /\ InOrder(s) /\ \A i \in 1 .. Len(s) : s[i][1] = l[1]

\* t without its first d halves.
IsRest(s, t, d) == Len(s) = Len(t) - d /\ \A i \in 1 .. Len(s) : s[i] = t[i + d]

\* What is left of an ordered stream is ordered.
LEMMA RestInOrder ==
    ASSUME NEW l, NEW t, FromClient(t, l), NEW s \in Seq(Half), NEW d \in Nat, IsRest(s, t, d)
    PROVE  FromClient(s, l)
<1>1. Len(s) \in Nat /\ Len(t) \in Nat
  BY LenProperties DEF FromClient
<1>2. ASSUME NEW i \in 2 .. Len(s), s[i][2] = 2 PROVE s[i-1] = <<s[i][1], 1>>
  <2> DEFINE j == i + d
  <2>1. /\ i \in 1 .. Len(s) /\ i - 1 \in 1 .. Len(s)
        /\ j \in 2 .. Len(t) /\ (i - 1) + d = j - 1
    BY <1>1 DEF IsRest
  <2>2. s[i] = t[j]
    BY <2>1 DEF IsRest
  <2>3. s[i-1] = t[j-1]
    <3>1. s[i-1] = t[(i - 1) + d]
      BY <2>1 DEF IsRest
    <3> QED
      BY <2>1, <3>1
  <2> HIDE DEF j
  <2>4. t[j][2] = 2 => t[j-1] = <<t[j][1], 1>>
    BY <2>1 DEF FromClient, InOrder
  <2> QED
    BY <1>2, <2>2, <2>3, <2>4
<1>3. ASSUME NEW i \in 1 .. Len(s) PROVE s[i][1] = l[1]
  <2>1. i + d \in 1 .. Len(t)
    BY <1>1 DEF IsRest
  <2> QED
    BY <2>1 DEF IsRest, FromClient
<1> QED
  BY <1>2, <1>3 DEF FromClient, InOrder

\* A half that SendsPart adds: a first half, or the second behind its first.
LEMMA AddedInOrder ==
    ASSUME NEW l \in Links, NEW s, FromClient(s, l), NEW k \in {1, 2},
           k = 2 /\ s # <<>> => s[Len(s)] = <<l[1], 1>>
    PROVE  /\ FromClient(Append(s, <<l[1], k>>), l)
           /\ Len(Append(s, <<l[1], k>>)) = Len(s) + 1
           /\ Append(s, <<l[1], k>>)[Len(s) + 1] = <<l[1], k>>
           /\ s # <<>> => Append(s, <<l[1], k>>)[1] = s[1]
<1> DEFINE x == <<l[1], k>>
           t == Append(s, x)
<1>1. s \in Seq(Half) /\ Len(s) \in Nat /\ (s # <<>> => Len(s) > 0) /\ x \in Half
  BY LenProperties, EmptySeq, LinkEnds DEF FromClient, Half
<1>2. x[1] = l[1] /\ x[2] = k
  OBVIOUS
<1> HIDE DEF x
<1>3. /\ t \in Seq(Half) /\ Len(t) = Len(s) + 1 /\ t[Len(s) + 1] = x
      /\ \A i \in 1 .. Len(s) : t[i] = s[i]
  BY <1>1, AppendProperties
<1> HIDE DEF t
<1>4. ASSUME NEW i \in 2 .. Len(t), t[i][2] = 2 PROVE t[i-1] = <<t[i][1], 1>>
  <2>1. CASE i = Len(s) + 1
    <3>1. k = 2 /\ t[i][1] = l[1] /\ i - 1 = Len(s) /\ Len(s) \in 1 .. Len(s)
      BY <1>1, <1>2, <1>3, <1>4, <2>1
    <3>2. t[i-1] = s[Len(s)] /\ s # <<>>
      BY <1>3, <3>1
    <3> QED
      BY <3>1, <3>2
  <2>2. CASE i # Len(s) + 1
    <3>1. i \in 2 .. Len(s) /\ i \in 1 .. Len(s) /\ i - 1 \in 1 .. Len(s)
      BY <1>1, <1>3, <2>2
    <3>2. t[i] = s[i] /\ t[i-1] = s[i-1]
      BY <1>3, <3>1
    <3> QED
      BY <1>4, <3>1, <3>2 DEF FromClient, InOrder
  <2> QED
    BY <2>1, <2>2
<1>5. ASSUME NEW i \in 1 .. Len(t) PROVE t[i][1] = l[1]
  <2>1. CASE i = Len(s) + 1
    BY <1>2, <1>3, <2>1
  <2>2. CASE i # Len(s) + 1
    <3>1. i \in 1 .. Len(s)
      BY <1>1, <1>3, <2>2
    <3> QED
      BY <1>3, <3>1 DEF FromClient
  <2> QED
    BY <2>1, <2>2
<1>6. FromClient(t, l)
  BY <1>3, <1>4, <1>5 DEF FromClient, InOrder
<1>7. s # <<>> => t[1] = s[1]
  BY <1>1, <1>3
<1> QED
  BY <1>3, <1>6, <1>7 DEF t, x

\* What is behind a part of a stream is the rest of the stream.
LEMMA BehindIsRest ==
    ASSUME NEW s \in Seq(Half), NEW t \in Seq(Half)
    PROVE  s \o t \in Seq(Half) /\ Len(s) \in Nat /\ IsRest(t, s \o t, Len(s))
<1>1. /\ s \o t \in Seq(Half) /\ Len(s) \in Nat /\ Len(t) \in Nat
      /\ Len(s \o t) = Len(s) + Len(t)
      /\ \A i \in 1 .. Len(s) + Len(t) :
             (s \o t)[i] = IF i <= Len(s) THEN s[i] ELSE t[i - Len(s)]
  BY ConcatProperties, LenProperties
<1> DEFINE r == s \o t
<1> HIDE DEF r
<1>2. /\ Len(r) = Len(s) + Len(t)
      /\ \A i \in 1 .. Len(s) + Len(t) : r[i] = IF i <= Len(s) THEN s[i] ELSE t[i - Len(s)]
  BY <1>1 DEF r
<1>3. ASSUME NEW i \in 1 .. Len(t) PROVE t[i] = r[i + Len(s)]
  <2>1. i + Len(s) \in 1 .. Len(s) + Len(t) /\ ~(i + Len(s) <= Len(s))
        /\ (i + Len(s)) - Len(s) = i
    BY <1>1
  <2> QED
    BY <1>2, <2>1
<1>4. IsRest(t, r, Len(s))
  BY <1>1, <1>2, <1>3 DEF IsRest
<1> QED
  BY <1>1, <1>4 DEF r

\* A stream whose end is lost is ordered still.
LEMMA PrefixInOrder ==
    ASSUME NEW l, NEW t, FromClient(t, l), NEW s \in Seq(Half), Len(s) <= Len(t),
           \A i \in 1 .. Len(s) : s[i] = t[i]
    PROVE  FromClient(s, l)
<1>1. Len(s) \in Nat /\ Len(t) \in Nat
  BY LenProperties DEF FromClient
<1>2. ASSUME NEW i \in 2 .. Len(s), s[i][2] = 2 PROVE s[i-1] = <<s[i][1], 1>>
  <2>1. i \in 1 .. Len(s) /\ i - 1 \in 1 .. Len(s) /\ i \in 2 .. Len(t)
    BY <1>1
  <2>2. s[i] = t[i] /\ s[i-1] = t[i-1]
    BY <2>1
  <2>3. t[i][2] = 2 => t[i-1] = <<t[i][1], 1>>
    BY <2>1 DEF FromClient, InOrder
  <2> QED
    BY <1>2, <2>2, <2>3
<1>3. ASSUME NEW i \in 1 .. Len(s) PROVE s[i][1] = l[1]
  <2>1. i \in 1 .. Len(t)
    BY <1>1
  <2> QED
    BY <2>1 DEF FromClient
<1> QED
  BY <1>2, <1>3 DEF FromClient, InOrder

\* The same behind a part that arrived.
LEMMA CutBehind ==
    ASSUME NEW r \in Seq(Half), NEW u \in Seq(Half), NEW q \in Seq(Half), Len(q) <= Len(u),
           \A i \in 1 .. Len(q) : q[i] = u[i]
    PROVE  /\ r \o q \in Seq(Half) /\ Len(r \o q) <= Len(r \o u)
           /\ \A i \in 1 .. Len(r \o q) : (r \o q)[i] = (r \o u)[i]
<1>1. /\ r \o q \in Seq(Half) /\ Len(q) \in Nat /\ Len(r) \in Nat /\ Len(u) \in Nat
      /\ Len(r \o q) = Len(r) + Len(q) /\ Len(r \o u) = Len(r) + Len(u)
      /\ \A i \in 1 .. Len(r) + Len(q) :
             (r \o q)[i] = IF i <= Len(r) THEN r[i] ELSE q[i - Len(r)]
      /\ \A i \in 1 .. Len(r) + Len(u) :
             (r \o u)[i] = IF i <= Len(r) THEN r[i] ELSE u[i - Len(r)]
  BY ConcatProperties, LenProperties
<1>2. ASSUME NEW i \in 1 .. Len(r \o q) PROVE (r \o q)[i] = (r \o u)[i]
  <2>1. i \in 1 .. Len(r) + Len(q) /\ i \in 1 .. Len(r) + Len(u)
    BY <1>1
  <2>2. CASE i <= Len(r)
    BY <1>1, <2>1, <2>2
  <2>3. CASE ~(i <= Len(r))
    <3>1. i - Len(r) \in 1 .. Len(q)
      BY <1>1, <2>1, <2>3
    <3> QED
      BY <1>1, <2>1, <2>3, <3>1
  <2> QED
    BY <2>2, <2>3
<1>3. Len(r \o q) <= Len(r \o u)
  BY <1>1
<1> QED
  BY <1>1, <1>2, <1>3

-----------------------------------------------------------------------------
(* Calls of commP.send and what they put into the connections.              *)

\* The bytes of l the deframer has not got yet.
Under(l) == rdBuf[l] \o chan[l]

\* The sender is about to send the second half of a packet to l, and l still carries it.
Begun(l)  == part[l[1]] = 1 /\ targets[l[1]] # <<>> /\ Head(targets[l[1]]) = l
Midway(l) == conn[l] = "up" /\ Begun(l)

\* A call that finds its socket closed gives up the rest of its packet, so no packet is
\* begun on one connection and ended on the next.
DownInv == \A l \in Links : conn[l] = "down" => ~Begun(l)

\* Only the holder of the hub's guard sends, to its own connections, and every packet is
\* begun with its first half.
CallInv ==
    \A n \in Nodes :
        /\ hubLock[n] = Nobody => targets[n] = <<>>
        /\ targets[n] = <<>> => part[n] = 0
        /\ targets[n] \in Seq(Out(n))

\* What is under way is in order, and a second half that is still to come finds its first
\* half at the end, unless the deframer has got that one.
StreamInv ==
    \A l \in Links :
        /\ rdPc[l] # "received" => rdBuf[l] = <<>>
        /\ FromClient(Under(l), l)
        /\ Midway(l) /\ Under(l) # <<>> => Under(l)[Len(Under(l))] = <<l[1], 1>>

LEMMA AppendBehind ==
    ASSUME NEW s \in Seq(Half), NEW t \in Seq(Half), NEW x \in Half
    PROVE  Append(s \o t, x) = s \o Append(t, x)
<1>1. s \o t \in Seq(Half) /\ <<x>> \in Seq(Half)
  BY ConcatProperties
<1>2. Append(s \o t, x) = (s \o t) \o <<x>> /\ Append(t, x) = t \o <<x>>
  BY <1>1, AppendIsConcat
<1>3. (s \o t) \o <<x>> = s \o (t \o <<x>>)
  BY <1>1, ConcatAssociative
<1> QED
  BY <1>2, <1>3

LEMMA UnderTypes ==
    ASSUME TypeOK, NEW l \in Links
    PROVE  /\ rdBuf[l] \in Seq(Half) /\ chan[l] \in Seq(Half) /\ Under(l) \in Seq(Half)
           /\ <<>> \o chan[l] = chan[l] /\ chan[l] \o <<>> = chan[l]
           /\ \A x \in Half : Append(Under(l), x) = rdBuf[l] \o Append(chan[l], x)
<1>1. rdBuf[l] \in Seq(Half) /\ chan[l] \in Seq(Half)
  BY DEF TypeOK
<1>2. \A x \in Half : Append(Under(l), x) = rdBuf[l] \o Append(chan[l], x)
  BY <1>1, AppendBehind DEF Under
<1> QED
  BY <1>1, <1>2, ConcatEmptySeq, ConcatProperties DEF Under

\* The connection that is served next belongs to the node that sends.
LEMMA HeadIsOut ==
    ASSUME CallInv, NEW n \in Nodes, targets[n] # <<>>
    PROVE  /\ Head(targets[n]) \in Links /\ Head(targets[n])[1] = n
           /\ Tail(targets[n]) \in Seq(Out(n)) /\ hubLock[n] # Nobody
<1>1. targets[n] \in Seq(Out(n)) /\ hubLock[n] # Nobody
  BY DEF CallInv
<1>2. Head(targets[n]) \in Out(n) /\ Tail(targets[n]) \in Seq(Out(n))
  BY <1>1, HeadTailProperties
<1> QED
  BY <1>1, <1>2 DEF Out

LEMMA InitStreams == Init => CallInv /\ DownInv /\ StreamInv
<1> SUFFICES ASSUME Init PROVE CallInv /\ DownInv /\ StreamInv
  OBVIOUS
<1>1. CallInv
  BY DEF Init, CallInv
<1>2. ASSUME NEW l \in Links PROVE Under(l) = <<>> /\ FromClient(<<>>, l)
  <2>1. Under(l) = <<>>
    BY <1>2, InitTypes, UnderTypes DEF Init, Under
  <2>2. FromClient(<<>>, l)
    BY DEF FromClient, InOrder
  <2> QED
    BY <2>1, <2>2
<1>3. StreamInv
  BY <1>2 DEF StreamInv, Init, Midway, Begun
<1>4. DownInv
  BY DEF DownInv, Init
<1> QED
  BY <1>1, <1>3, <1>4

LEMMA DestinationsAreOut ==
    ASSUME NEW n \in Nodes, NEW t \in Destinations(n)
    PROVE  t \in Seq(Out(n))
<1>1. PICK k \in 0 .. Cardinality(Out(n)) : t \in [1 .. k -> Out(n)]
  BY DEF Destinations
<1>2. k \in Nat
  <2>1. IsFiniteSet(Out(n))
    BY FS_Subset, TrafficConstants DEF Out
  <2> QED
    BY <1>1, <2>1, FS_CardinalityType
<1> QED
  BY <1>1, <1>2

\* A call keeps CallInv: the count of what was taken is 0 again whenever a connection is
\* done with or given up.
LEMMA AppCalls ==
    ASSUME TypeOK, CallInv, NEW n \in Nodes,
           Sends(n) \/ \E a \in Apps : Frame(n, a) \/ LocksHub(n, a)
    PROVE  CallInv'
<1>0. /\ targets \in [Nodes -> Seq(Links)] /\ part \in [Nodes -> {0, 1}]
      /\ hubLock \in [Nodes -> Apps \cup {Nobody}] /\ Nobody \notin Apps
  BY TrafficConstants DEF TypeOK
<1> USE <1>0
<1>1. ASSUME NEW a \in Apps, Frame(n, a) PROVE CallInv'
  BY <1>1 DEF Frame, CallInv, Out
<1>2. ASSUME NEW a \in Apps, LocksHub(n, a) PROVE CallInv'
  <2>1. PICK t \in Destinations(n) : targets' = [targets EXCEPT ![n] = t]
    BY <1>2 DEF LocksHub
  <2>2. t \in Seq(Out(n)) /\ part[n] = 0
    BY <1>2, <2>1, DestinationsAreOut DEF LocksHub, CallInv
  <2>3. hubLock' = [hubLock EXCEPT ![n] = a] /\ part' = part
    BY <1>2 DEF LocksHub
  <2> QED
    BY <2>1, <2>2, <2>3 DEF CallInv, Out
<1>3. CASE SendsPart(n) \/ SendVanishes(n)
  <2>1. targets[n] # <<>> /\ hubLock' = hubLock
    BY <1>3 DEF SendsPart, SendVanishes
  <2>2. Tail(targets[n]) \in Seq(Out(n)) /\ hubLock[n] # Nobody
    BY <2>1, HeadIsOut
  <2>3. \A m \in Nodes : m # n => targets'[m] = targets[m] /\ part'[m] = part[m]
    BY <1>3 DEF SendsPart, SendVanishes
  <2>4. CASE part[n] = 0
    <3>1. targets'[n] = targets[n]
      BY <1>3, <2>4 DEF SendsPart, SendVanishes
    <3> QED
      BY <2>1, <2>2, <2>3, <3>1 DEF CallInv, Out
  <2>5. CASE part[n] = 1
    <3>1. targets'[n] = Tail(targets[n]) /\ part'[n] = 0
      BY <1>3, <2>5 DEF SendsPart, SendVanishes
    <3> QED
      BY <2>1, <2>2, <2>3, <3>1 DEF CallInv, Out
  <2> QED
    BY <2>4, <2>5
<1>4. CASE TimesOut(n) \/ SendFails(n)
  <2>1. targets[n] # <<>> /\ hubLock' = hubLock
    BY <1>4 DEF TimesOut, SendFails
  <2>2. Tail(targets[n]) \in Seq(Out(n)) /\ hubLock[n] # Nobody
    BY <2>1, HeadIsOut
  <2>3. /\ \A m \in Nodes : m # n => targets'[m] = targets[m] /\ part'[m] = part[m]
        /\ targets'[n] = Tail(targets[n]) /\ part'[n] = 0
    BY <1>4 DEF TimesOut, SendFails
  <2> QED
    BY <2>1, <2>2, <2>3 DEF CallInv, Out
<1>5. ASSUME NEW a \in Apps, Returns(n, a) PROVE CallInv'
  BY <1>5 DEF Returns, CallInv, Out
<1> QED
  BY <1>1, <1>2, <1>3, <1>4, <1>5 DEF Sends

\* No step of a producing thread leaves a packet begun on a connection that is closed,
\* and only SendsPart leaves one begun on a connection that is up.
LEMMA AppBegins ==
    ASSUME TypeOK, CallInv, NEW n \in Nodes, NEW l \in Links,
           Sends(n) \/ \E a \in Apps : Frame(n, a) \/ LocksHub(n, a),
           Begun(l)', ~Begun(l)
    PROVE  \/ SendsPart(n) /\ l = Head(targets[n]) /\ conn'[l] = "up"
           \/ SendVanishes(n) /\ l = Head(targets[n]) /\ conn'[l] = "broken"
<1>0. /\ targets \in [Nodes -> Seq(Links)] /\ part \in [Nodes -> {0, 1}]
      /\ l[1] \in Nodes
  BY LinkEnds DEF TypeOK
<1>1. part[n] = 0 \/ part[n] = 1
  BY <1>0
<1>2. ASSUME NEW a \in Apps, Frame(n, a) \/ Returns(n, a) PROVE FALSE
  BY <1>2 DEF Frame, Returns, Begun
<1>3. ASSUME \A m \in Nodes : m # n => targets'[m] = targets[m] /\ part'[m] = part[m]
      PROVE  l[1] = n
  BY <1>0, <1>3 DEF Begun
<1>4. ASSUME NEW a \in Apps, LocksHub(n, a) PROVE FALSE
  <2>1. /\ part[n] = 0 /\ part' = part
        /\ \A m \in Nodes : m # n => targets'[m] = targets[m]
    BY <1>0, <1>4 DEF LocksHub, CallInv
  <2> QED
    BY <1>3, <2>1 DEF Begun
<1>5. CASE TimesOut(n) \/ SendFails(n)
  <2>1. /\ part'[n] = 0
        /\ \A m \in Nodes : m # n => targets'[m] = targets[m] /\ part'[m] = part[m]
    BY <1>0, <1>5 DEF TimesOut, SendFails
  <2> QED
    BY <1>3, <2>1 DEF Begun
<1>6. CASE SendsPart(n) \/ SendVanishes(n)
  <2>1. \A m \in Nodes : m # n => targets'[m] = targets[m] /\ part'[m] = part[m]
    BY <1>0, <1>6 DEF SendsPart, SendVanishes
  <2>2. part'[n] = 1 - part[n] /\ (part[n] = 0 => targets'[n] = targets[n])
    BY <1>0, <1>6 DEF SendsPart, SendVanishes
  <2>3. l[1] = n
    BY <1>3, <2>1
  <2>4. l = Head(targets[n])
    BY <1>1, <2>2, <2>3 DEF Begun
  <2> QED
    BY <1>6, <2>4 DEF SendsPart, SendVanishes, net
<1> QED
  BY <1>2, <1>4, <1>5, <1>6 DEF Sends

LEMMA AppDown ==
    ASSUME TypeOK, CallInv, DownInv, NEW n \in Nodes,
           Sends(n) \/ \E a \in Apps : Frame(n, a) \/ LocksHub(n, a)
    PROVE  DownInv'
<1> SUFFICES ASSUME NEW l \in Links, conn'[l] = "down", Begun(l)' PROVE FALSE
  BY DEF DownInv
<1>0. /\ targets \in [Nodes -> Seq(Links)] /\ part \in [Nodes -> {0, 1}]
      /\ conn \in [Links -> {"up", "broken", "down"}] /\ l[1] \in Nodes
  BY LinkEnds DEF TypeOK
<1>1. CASE ~Begun(l)
  BY <1>1, AppBegins
<1>2. CASE Begun(l)
  <2>1. conn[l] # "down"
    BY <1>2 DEF DownInv
  <2>2. SendFails(n) /\ l = Head(targets[n])
    BY <1>0, <2>1 DEF Sends, Frame, LocksHub, SendsPart, TimesOut, SendVanishes, SendFails,
       Returns, net
  <2>3. l[1] = n /\ part'[n] = 0
    BY <1>0, <2>2, HeadIsOut DEF SendFails
  <2> QED
    BY <2>3 DEF Begun
<1> QED
  BY <1>1, <1>2

\* SendsPart adds to the end of one stream, in order; no other step of a producing thread
\* touches a stream or leaves a connection midway.
LEMMA AppStreams ==
    ASSUME TypeOK, CallInv, StreamInv, NEW n \in Nodes,
           Sends(n) \/ \E a \in Apps : Frame(n, a) \/ LocksHub(n, a)
    PROVE  StreamInv'
<1>0. /\ targets \in [Nodes -> Seq(Links)] /\ part \in [Nodes -> {0, 1}]
      /\ chan \in [Links -> Seq(Half)]
      /\ \A l \in Links : l[1] \in Nodes
  BY LinkEnds DEF TypeOK
<1>1. rdPc' = rdPc /\ rdBuf' = rdBuf
  BY AppsLeave
<1>2. \A l \in Links : conn'[l] = "up" => conn[l] = "up"
  BY DEF Sends, Frame, LocksHub, SendsPart, TimesOut, SendVanishes, SendFails, Returns, net,
         TypeOK
<1>3. ASSUME NEW l \in Links, Midway(l)', ~Midway(l)
      PROVE  SendsPart(n) /\ l = Head(targets[n])
  BY <1>2, <1>3, AppBegins DEF Midway
<1>5. CASE ~SendsPart(n)
  <2>1. chan' = chan
    BY <1>5 DEF Sends, Frame, LocksHub, TimesOut, SendVanishes, SendFails, Returns, net
  <2> QED
    BY <1>1, <1>3, <1>5, <2>1 DEF StreamInv, Under, FromClient
<1>6. CASE SendsPart(n)
  <2>0. PICK h \in Links, k \in {1, 2} : h = Head(targets[n]) /\ h[1] = n /\ k = part[n] + 1
    <3>1. part[n] + 1 \in {1, 2}
      BY <1>0
    <3> QED
      BY <1>6, <3>1, HeadIsOut DEF SendsPart
  <2> DEFINE x == <<h[1], k>>
  <2>1. targets[n] # <<>> /\ h = Head(targets[n]) /\ h[1] = n /\ k = part[n] + 1
    BY <1>6, <2>0 DEF SendsPart
  <2>2. x \in Half
    BY <2>1 DEF Half
  <2>3. chan' = [chan EXCEPT ![h] = Append(@, x)]
    BY <1>6, <2>1 DEF SendsPart
  <2>4. /\ \A m \in Nodes : m # n => targets'[m] = targets[m] /\ part'[m] = part[m]
        /\ part'[n] = 1 => part[n] = 0 /\ targets'[n] = targets[n]
    BY <1>0, <1>6 DEF SendsPart
  <2>5. \A l \in Links : l # h => Under(l)' = Under(l) /\ (Midway(l)' => Midway(l))
    BY <1>0, <1>1, <1>3, <2>1, <2>3 DEF Under
  <2>6. Under(h)' = Append(Under(h), x)
    <3>1. chan'[h] = Append(chan[h], x) /\ rdBuf'[h] = rdBuf[h]
      BY <1>0, <1>1, <2>1, <2>3
    <3>2. Append(Under(h), x) = rdBuf[h] \o Append(chan[h], x)
      BY <2>1, <2>2, UnderTypes
    <3> QED
      BY <3>1, <3>2 DEF Under
  <2>7. k = 2 /\ Under(h) # <<>> => Under(h)[Len(Under(h))] = <<h[1], 1>>
    <3>1. k = 2 => Midway(h)
      BY <1>0, <1>6, <2>1 DEF SendsPart, Midway, Begun
    <3> QED
      BY <2>1, <3>1 DEF StreamInv
  <2>8. FromClient(Under(h), h)
    BY <2>1 DEF StreamInv
  <2>9. /\ FromClient(Append(Under(h), x), h)
        /\ Len(Append(Under(h), x)) = Len(Under(h)) + 1
        /\ Append(Under(h), x)[Len(Under(h)) + 1] = x
    BY <2>1, <2>7, <2>8, AddedInOrder
  <2>10. Midway(h)' => k = 1
    BY <2>1, <2>4 DEF Midway, Begun
  <2>11. ASSUME NEW l \in Links
         PROVE  /\ rdPc'[l] # "received" => rdBuf'[l] = <<>>
                /\ FromClient(Under(l)', l)
                /\ Midway(l)' /\ Under(l)' # <<>> => Under(l)'[Len(Under(l)')] = <<l[1], 1>>
    <3>1. rdPc'[l] # "received" => rdBuf'[l] = <<>>
      BY <1>1 DEF StreamInv
    <3>2. CASE l = h
      BY <2>6, <2>9, <2>10, <3>1, <3>2
    <3>3. CASE l # h
      BY <2>5, <3>1, <3>3 DEF StreamInv
    <3> QED
      BY <3>2, <3>3
  <2> QED
    BY <2>11 DEF StreamInv, FromClient
<1> QED
  BY <1>5, <1>6

\* A read thread moves the whole of a stream into its buffer, or the front of it into the
\* ring; the connections of other threads stay as they are.
LEMMA ReadStreams ==
    ASSUME TypeOK, StreamInv, NEW l \in Links, Reads(l)
    PROVE  StreamInv'
<1>0. /\ chan \in [Links -> Seq(Half)] /\ rdBuf \in [Links -> Seq(Half)]
      /\ rdPc \in [Links -> Holding \cup {"get", "empty", "ended"}]
  BY DEF TypeOK
<1>1. \A j \in Links : Midway(j)' = Midway(j)
  BY ReadsLeave DEF Midway, Begun
<1>2. CASE Receives(l)
  <2>1. /\ rdBuf[l] = <<>> /\ rdBuf'[l] = chan[l] /\ chan'[l] = <<>> /\ rdPc'[l] = "received"
        /\ \A j \in Links : j # l => UNCHANGED <<rdBuf[j], chan[j], rdPc[j]>>
    BY <1>0, <1>2 DEF Receives, ReadGoto, StreamInv
  <2>2. \A j \in Links : Under(j)' = Under(j)
    BY <2>1, UnderTypes DEF Under
  <2> QED
    BY <1>1, <2>1, <2>2 DEF StreamInv, FromClient
<1>3. CASE LocksUplink(l)
  <2>1. /\ rdBuf'[l] = <<>> /\ chan' = chan /\ rdPc'[l] = "parse"
        /\ \A j \in Links : j # l => UNCHANGED <<rdBuf[j], chan[j], rdPc[j]>>
    BY <1>0, <1>3 DEF LocksUplink, ReadGoto, net
  <2>2. Under(l)' = chan[l] /\ \A j \in Links : j # l => Under(j)' = Under(j)
    BY <2>1, UnderTypes DEF Under
  <2>3. Len(rdBuf[l]) \in Nat /\ IsRest(chan[l], Under(l), Len(rdBuf[l]))
    BY <1>0, BehindIsRest DEF Under
  <2>4. FromClient(Under(l), l)
    BY DEF StreamInv
  <2>5. FromClient(chan[l], l)
    BY <1>0, <2>3, <2>4, RestInOrder
  <2>6. chan[l] # <<>> => Under(l) # <<>> /\ chan[l][Len(chan[l])] = Under(l)[Len(Under(l))]
    <3> SUFFICES ASSUME chan[l] # <<>>
                 PROVE  Under(l) # <<>> /\ chan[l][Len(chan[l])] = Under(l)[Len(Under(l))]
      OBVIOUS
    <3>1. Len(chan[l]) \in Nat /\ Len(chan[l]) > 0 /\ Len(chan[l]) \in 1 .. Len(chan[l])
      BY <1>0, EmptySeq, LenProperties
    <3>2. Len(Under(l)) \in Nat
      BY <2>4, LenProperties DEF FromClient
    <3>3. /\ Len(chan[l]) = Len(Under(l)) - Len(rdBuf[l])
          /\ chan[l][Len(chan[l])] = Under(l)[Len(chan[l]) + Len(rdBuf[l])]
      BY <2>3, <3>1 DEF IsRest
    <3>4. Len(chan[l]) + Len(rdBuf[l]) = Len(Under(l)) /\ Len(Under(l)) > 0
      BY <2>3, <3>1, <3>2, <3>3
    <3> QED
      BY <2>4, <3>3, <3>4, EmptySeq DEF FromClient
  <2>7. ASSUME NEW j \in Links
        PROVE  /\ rdPc'[j] # "received" => rdBuf'[j] = <<>>
               /\ FromClient(Under(j)', j)
               /\ Midway(j)' /\ Under(j)' # <<>> => Under(j)'[Len(Under(j)')] = <<j[1], 1>>
    <3>1. CASE j = l
      BY <1>1, <2>1, <2>2, <2>5, <2>6, <3>1 DEF StreamInv
    <3>2. CASE j # l
      BY <1>1, <2>1, <2>2, <3>2 DEF StreamInv
    <3> QED
      BY <3>1, <3>2
  <2> QED
    BY <2>7 DEF StreamInv, FromClient
<1>4. CASE FindsClosed(l)
  <2>1. /\ rdPc[l] # "received" /\ rdBuf' = rdBuf /\ chan'[l] = <<>>
        /\ \A j \in Links : j # l => UNCHANGED <<chan[j], rdPc[j]>>
    BY <1>0, <1>4 DEF FindsClosed, ReadGoto
  <2>2. rdBuf[l] = <<>>
    BY <2>1 DEF StreamInv
  <2>3. Under(l)' = <<>> /\ FromClient(<<>>, l)
    BY <2>1, <2>2 DEF Under, FromClient, InOrder
  <2>4. \A j \in Links : j # l => Under(j)' = Under(j)
    BY <2>1 DEF Under
  <2> QED
    <3>1. ASSUME NEW j \in Links
          PROVE  /\ rdPc'[j] # "received" => rdBuf'[j] = <<>>
                 /\ FromClient(Under(j)', j)
                 /\ Midway(j)' /\ Under(j)' # <<>> => Under(j)'[Len(Under(j)')] = <<j[1], 1>>
      <4>1. CASE j = l
        BY <2>1, <2>2, <2>3, <4>1
      <4>2. CASE j # l
        BY <1>1, <2>1, <2>4, <4>2 DEF StreamInv
      <4> QED
        BY <4>1, <4>2
    <3> QED
      BY <3>1 DEF StreamInv, FromClient
<1>5. CASE ~Receives(l) /\ ~LocksUplink(l) /\ ~FindsClosed(l)
  <2>1. rdBuf' = rdBuf /\ chan' = chan
    BY <1>5 DEF Reads, GetsBuffer, GetsNone, ReturnsEmpty, RecvInterrupted, RecvFails,
       ReturnsUnused, FindsFrame, Skips, Delivers, Parsed, net
  <2>2. \A j \in Links : rdPc'[j] # "received" => rdPc[j] # "received"
    BY <1>0, <1>5 DEF Reads, GetsBuffer, GetsNone, ReturnsEmpty, RecvInterrupted, RecvFails,
       ReturnsUnused, FindsFrame, Skips, Delivers, Parsed, ReadGoto
  <2> QED
    BY <1>1, <2>1, <2>2 DEF StreamInv, Under, FromClient
<1> QED
  BY <1>2, <1>3, <1>4, <1>5

\* A connection that breaks loses the end of its stream, and none that is made again has a
\* packet begun.
LEMMA LinkStreams ==
    ASSUME TypeOK, DownInv, StreamInv, NEW l \in Links, Breaks(l) \/ Reconnects(l)
    PROVE  DownInv' /\ StreamInv'
<1>0. /\ chan \in [Links -> Seq(Half)] /\ rdBuf \in [Links -> Seq(Half)]
      /\ conn \in [Links -> {"up", "broken", "down"}]
      /\ rdPc \in [Links -> Holding \cup {"get", "empty", "ended"}]
  BY DEF TypeOK
<1>1. rdBuf' = rdBuf /\ \A j \in Links : Begun(j)' = Begun(j)
  BY LinksLeave DEF Begun, appVars
<1>2. /\ conn'[l] # "down" /\ \A j \in Links : j # l => conn'[j] = conn[j]
      /\ conn'[l] = "up" => conn[l] = "down"
  BY <1>0 DEF Breaks, Reconnects
<1>3. DownInv'
  BY <1>1, <1>2 DEF DownInv
<1>4. \A j \in Links : Midway(j)' => Midway(j)
  BY <1>1, <1>2 DEF Midway, DownInv
<1>5. CASE Reconnects(l)
  <2>1. chan' = chan /\ \A j \in Links : rdPc'[j] # "received" => rdPc[j] # "received"
    BY <1>0, <1>5 DEF Reconnects, ReadGoto, Holding
  <2> QED
    BY <1>1, <1>3, <1>4, <2>1 DEF StreamInv, Under, FromClient
<1>6. CASE Breaks(l)
  <2>1. PICK k \in 0 .. Len(chan[l]) : chan' = [chan EXCEPT ![l] = SubSeq(chan[l], 1, k)]
    BY <1>6 DEF Breaks
  <2>2. rdPc' = rdPc /\ ~Midway(l)'
    BY <1>0, <1>6 DEF Breaks, readVars, Midway
  <2>3. \A j \in Links : j # l => Under(j)' = Under(j)
    BY <1>0, <1>1, <2>1 DEF Under
  <2>4. FromClient(Under(l)', l)
    <3> DEFINE c == SubSeq(chan[l], 1, k)
    <3>1. /\ c \in Seq(Half) /\ Len(c) = k /\ k <= Len(chan[l])
          /\ \A i \in 1 .. k : c[i] = chan[l][i]
      BY <1>0, CutShort, LenProperties
    <3>2. Under(l)' = rdBuf[l] \o c
      BY <1>0, <1>1, <2>1 DEF Under
    <3> HIDE DEF c
    <3>3. /\ rdBuf[l] \o c \in Seq(Half) /\ Len(rdBuf[l] \o c) <= Len(Under(l))
          /\ \A i \in 1 .. Len(rdBuf[l] \o c) : (rdBuf[l] \o c)[i] = Under(l)[i]
      BY <1>0, <3>1, CutBehind DEF Under
    <3>4. FromClient(Under(l), l)
      BY DEF StreamInv
    <3>5. FromClient(rdBuf[l] \o c, l)
      BY <3>3, <3>4, PrefixInOrder
    <3> QED
      BY <3>2, <3>5
  <2>5. ASSUME NEW j \in Links
        PROVE  /\ rdPc'[j] # "received" => rdBuf'[j] = <<>>
               /\ FromClient(Under(j)', j)
               /\ Midway(j)' /\ Under(j)' # <<>> => Under(j)'[Len(Under(j)')] = <<j[1], 1>>
    <3>1. CASE j = l
      BY <1>1, <2>2, <2>4, <3>1 DEF StreamInv
    <3>2. CASE j # l
      BY <1>1, <1>4, <2>2, <2>3, <3>2 DEF StreamInv
    <3> QED
      BY <3>1, <3>2
  <2> QED
    BY <1>3, <2>5 DEF StreamInv, FromClient
<1> QED
  BY <1>5, <1>6

LEMMA StepStreams ==
    TypeOK /\ CallInv /\ DownInv /\ StreamInv /\ [Next]_vars
        => CallInv' /\ DownInv' /\ StreamInv'
<1> SUFFICES ASSUME TypeOK, CallInv, DownInv, StreamInv, [Next]_vars
             PROVE  CallInv' /\ DownInv' /\ StreamInv'
  OBVIOUS
<1>1. UNCHANGED <<hubLock, targets, part>> => CallInv'
  BY DEF CallInv, Out
<1>2. UNCHANGED <<targets, part, conn>> => DownInv'
  BY DEF DownInv, Begun
<1>3. ASSUME NEW l \in Links, Breaks(l) \/ Reconnects(l)
      PROVE  UNCHANGED <<hubLock, targets, part>>
  BY <1>3, LinksLeave DEF appVars
<1>4. CASE Next
  BY <1>1, <1>2, <1>3, <1>4, AppCalls, AppDown, AppStreams, ReadsLeave, ReadStreams, LinkStreams
     DEF Next
<1>5. CASE UNCHANGED vars
  BY <1>1, <1>2, <1>5
     DEF vars, appVars, readVars, net, StreamInv, Under, FromClient, Midway, Begun
<1> QED
  BY <1>4, <1>5

\* Whatever blocks, times out, breaks and is made again, a connection carries the halves of
\* its own client in order, each second half behind its first.
THEOREM PartsStayInOrder == Spec => []PartsInOrder
<1>1. CallInv /\ StreamInv => PartsInOrder
  BY DEF CallInv, StreamInv, PartsInOrder, FromClient, Under
<1> QED
  BY <1>1, InitTypes, StepTypes, InitStreams, StepStreams, PTL DEF Spec

-----------------------------------------------------------------------------
(* A node with one connection to read from.                                 *)

\* All of l that is left: in the ring of the deframer, with the read thread, under way.
Stream(l) == ring[l[2]] \o Under(l)

\* Nobody else puts bytes into that ring.
Alone(l) == In(l[2]) = {l}

\* The stream starts with a frame; what starts it is delivered only when it is whole; a
\* second half that is still to come finds its first half at the end.
AloneOf(l) ==
    /\ FromClient(Stream(l), l)
    /\ Stream(l) # <<>> => Stream(l)[1][2] = 1
    /\ Midway(l) => Stream(l) # <<>> /\ Stream(l)[Len(Stream(l))] = <<l[1], 1>>
    /\ rdPc[l] = "deliver" => WholeFrame(ring[l[2]])

AloneInv == \A l \in Links : Alone(l) => AloneOf(l)

LEMMA StreamTypes ==
    ASSUME TypeOK, NEW l \in Links
    PROVE  /\ ring[l[2]] \in Seq(Half) /\ Under(l) \in Seq(Half) /\ Stream(l) \in Seq(Half)
           /\ Len(ring[l[2]]) \in Nat /\ Len(Under(l)) \in Nat
           /\ Len(Stream(l)) = Len(ring[l[2]]) + Len(Under(l))
           /\ \A i \in 1 .. Len(ring[l[2]]) : Stream(l)[i] = ring[l[2]][i]
<1>1. ring[l[2]] \in Seq(Half) /\ Under(l) \in Seq(Half)
  BY LinkEnds, UnderTypes DEF TypeOK
<1> DEFINE r == ring[l[2]]
           u == Under(l)
<1>2. r \in Seq(Half) /\ u \in Seq(Half)
  BY <1>1
<1> HIDE DEF r, u
<1>3. /\ r \o u \in Seq(Half) /\ Len(r) \in Nat /\ Len(u) \in Nat
      /\ Len(r \o u) = Len(r) + Len(u)
      /\ \A i \in 1 .. Len(r) + Len(u) :
             (r \o u)[i] = IF i <= Len(r) THEN r[i] ELSE u[i - Len(r)]
  BY <1>2, ConcatProperties, LenProperties
<1>4. \A i \in 1 .. Len(r) : i \in 1 .. Len(r) + Len(u) /\ i <= Len(r)
  BY <1>3
<1>5. \A i \in 1 .. Len(r) : (r \o u)[i] = r[i]
  BY <1>3, <1>4
<1> QED
  BY <1>2, <1>3, <1>5 DEF Stream, r, u

\* Bytes taken from the front of a stream leave the rest of it.
LEMMA RestOfConcat ==
    ASSUME NEW r \in Seq(Half), NEW u \in Seq(Half), NEW q \in Seq(Half), NEW d \in Nat,
           d <= Len(r), IsRest(q, r, d)
    PROVE  q \o u \in Seq(Half) /\ IsRest(q \o u, r \o u, d)
<1>1. /\ q \o u \in Seq(Half) /\ Len(q) \in Nat /\ Len(r) \in Nat /\ Len(u) \in Nat
      /\ Len(q \o u) = Len(q) + Len(u) /\ Len(r \o u) = Len(r) + Len(u)
      /\ \A i \in 1 .. Len(q) + Len(u) :
             (q \o u)[i] = IF i <= Len(q) THEN q[i] ELSE u[i - Len(q)]
      /\ \A i \in 1 .. Len(r) + Len(u) :
             (r \o u)[i] = IF i <= Len(r) THEN r[i] ELSE u[i - Len(r)]
  BY ConcatProperties, LenProperties
<1>2. Len(q) = Len(r) - d /\ \A i \in 1 .. Len(q) : q[i] = r[i + d]
  BY DEF IsRest
<1>3. ASSUME NEW i \in 1 .. Len(q \o u) PROVE (q \o u)[i] = (r \o u)[i + d]
  <2>1. i \in 1 .. Len(q) + Len(u) /\ i + d \in 1 .. Len(r) + Len(u)
    BY <1>1, <1>2
  <2>2. CASE i <= Len(q)
    <3>1. i \in 1 .. Len(q) /\ i + d <= Len(r)
      BY <1>1, <1>2, <2>1, <2>2
    <3> QED
      BY <1>1, <1>2, <2>1, <2>2, <3>1
  <2>3. CASE ~(i <= Len(q))
    <3>1. ~(i + d <= Len(r)) /\ (i + d) - Len(r) = i - Len(q)
      BY <1>1, <1>2, <2>1, <2>3
    <3>2. (q \o u)[i] = u[i - Len(q)]
      BY <1>1, <2>1, <2>3
    <3>3. (r \o u)[i + d] = u[(i + d) - Len(r)]
      BY <1>1, <2>1, <3>1
    <3> QED
      BY <3>1, <3>2, <3>3
  <2> QED
    BY <2>2, <2>3
<1>4. Len(q \o u) = Len(r \o u) - d
  BY <1>1, <1>2
<1> HIDE DEF IsRest
<1>5. IsRest(q \o u, r \o u, d)
  BY <1>3, <1>4, Zenon DEF IsRest
<1> QED
  BY <1>1, <1>5

LEMMA Associates ==
    ASSUME NEW s \in Seq(Half), NEW t \in Seq(Half), NEW u \in Seq(Half)
    PROVE  (s \o t) \o u = s \o (t \o u)
  BY ConcatAssociative

LEMMA AtLeastTwo ==
    ASSUME NEW a \in Nat, NEW b \in Nat, b >= a
    PROVE  /\ a # 0 /\ a # 1 => a >= 2
           /\ a >= 2 => 1 \in 1 .. a /\ 2 \in 1 .. a /\ 2 \in 1 .. b
           /\ a >= 2 => b = 2 \/ b > 2
  OBVIOUS

\* What uplinkP keeps of a buffer when it takes a frame.
LEMMA BehindFrame ==
    ASSUME NEW r \in Seq(Half), Len(r) >= 2
    PROVE  IsRest(SubSeq(r, 3, Len(r)), r, 2)
<1>1. PICK n \in Nat : n = Len(r)
  BY LenProperties
<1>2. n >= 2 /\ n \in Int /\ 3 \in Int /\ n - 3 + 1 = n - 2
  BY <1>1
<1>3. \A i \in 3 .. n : i \in 1 .. n
  BY <1>1
<1>4. \A i \in 3 .. n : r[i] \in Half
  BY <1>1, <1>3, ElementOfSeq
<1>5. /\ Len(SubSeq(r, 3, n)) = IF 3 <= n THEN n - 3 + 1 ELSE 0
      /\ \A i \in 1 .. n - 3 + 1 : SubSeq(r, 3, n)[i] = r[3 + i - 1]
  BY <1>2, <1>4, SubSeqProperties
<1>6. Len(SubSeq(r, 3, n)) = n - 2
  <2>1. (IF 3 <= n THEN n - 3 + 1 ELSE 0) = n - 2
    BY <1>2
  <2> QED
    BY <1>5, <2>1
<1>7. ASSUME NEW i \in 1 .. n - 2 PROVE SubSeq(r, 3, n)[i] = r[i + 2]
  <2>1. 3 + i - 1 = i + 2 /\ i \in 1 .. n - 3 + 1
    BY <1>2
  <2> QED
    BY <1>5, <2>1
<1> QED
  BY <1>1, <1>6, <1>7, Zenon DEF IsRest

\* Alone, a half that is skipped is a first half whose frame was broken off.
LEMMA SkipsBrokenFrame ==
    ASSUME TypeOK, NEW l \in Links, AloneOf(l), Skips(l)
    PROVE  /\ Len(ring[l[2]]) >= 2
           /\ ring[l[2]][1] = <<l[1], 1>> /\ ring[l[2]][2] = <<l[1], 1>>
<1> DEFINE r == ring[l[2]]
           st == Stream(l)
<1>1. /\ r \in Seq(Half) /\ Len(r) \in Nat /\ Len(st) \in Nat /\ Len(st) >= Len(r)
      /\ \A i \in 1 .. Len(r) : st[i] = r[i]
  BY StreamTypes
<1>2. ~WholeFrame(r) /\ Len(r) # 0 /\ ~(Len(r) = 1 /\ r[1][2] = 1)
  BY DEF Skips, MayBeFrame
<1>3. 1 \in 1 .. Len(r) /\ 1 \in 1 .. Len(st) /\ st # <<>>
  BY <1>1, <1>2
<1>4. st[1][2] = 1 /\ st[1][1] = l[1]
  BY <1>3 DEF AloneOf, FromClient
<1>5. r[1] \in Half /\ r[1] = st[1]
  BY <1>1, <1>3, ElementOfSeq
<1>6. r[1] = <<l[1], 1>>
  BY <1>4, <1>5 DEF Half
<1>7. Len(r) >= 2 /\ 2 \in 1 .. Len(r) /\ 2 \in 1 .. Len(st)
  <2>1. r[1][2] = 1
    BY <1>4, <1>5
  <2>2. Len(r) # 0 /\ Len(r) # 1
    BY <1>2, <2>1
  <2>3. Len(r) \in Nat /\ Len(st) \in Nat /\ Len(st) >= Len(r)
    BY <1>1
  <2> HIDE DEF r, st
  <2> QED
    BY <2>2, <2>3, AtLeastTwo
<1>8. r[2] \in Half /\ r[2] = st[2]
  BY <1>1, <1>7, ElementOfSeq
<1>9. st[2][1] = l[1]
  BY <1>7 DEF AloneOf, FromClient
<1>10. r[2] # <<l[1], 2>>
  BY <1>2, <1>6, <1>7 DEF WholeFrame
<1> QED
  BY <1>6, <1>7, <1>8, <1>9, <1>10 DEF Half

\* What is left of such a stream when its front is gone, if a frame starts there.
LEMMA FrontGone ==
    ASSUME TypeOK, TypeOK', NEW l \in Links, AloneOf(l), NEW d \in 1 .. Len(ring[l[2]]),
           IsRest(ring'[l[2]], ring[l[2]], d),
           UNCHANGED <<rdBuf, chan, conn, targets, part>>, rdPc'[l] # "deliver",
           Len(Stream(l)) > d => Stream(l)[d + 1][2] = 1,
           Midway(l) => Len(Stream(l)) > d
    PROVE  AloneOf(l)'
<1> DEFINE st == Stream(l)
<1>1. /\ ring[l[2]] \in Seq(Half) /\ Under(l) \in Seq(Half) /\ st \in Seq(Half)
      /\ Len(ring[l[2]]) \in Nat /\ Len(st) \in Nat
  BY StreamTypes
<1>2. ring'[l[2]] \in Seq(Half)
  BY LinkEnds DEF TypeOK
<1>3. Under(l)' = Under(l) /\ Midway(l)' = Midway(l)
  BY DEF Under, Midway, Begun
<1>4. Stream(l)' = ring'[l[2]] \o Under(l)
  BY <1>3 DEF Stream
<1>5. PICK s \in Seq(Half) : s = Stream(l)' /\ IsRest(s, st, d)
  <2>1. d \in Nat /\ d <= Len(ring[l[2]])
    BY <1>1
  <2>2. ring'[l[2]] \o Under(l) \in Seq(Half)
        /\ IsRest(ring'[l[2]] \o Under(l), ring[l[2]] \o Under(l), d)
    BY <1>1, <1>2, <2>1, RestOfConcat
  <2> QED
    BY <1>4, <2>2 DEF Stream
<1>6. FromClient(s, l)
  <2>1. d \in Nat /\ FromClient(st, l)
    BY DEF AloneOf
  <2> QED
    BY <1>5, <2>1, RestInOrder
<1>7. Len(s) \in Nat /\ Len(s) = Len(st) - d /\ \A i \in 1 .. Len(s) : s[i] = st[i + d]
  BY <1>5, LenProperties DEF IsRest
<1> HIDE DEF st
<1>8. s # <<>> => s[1][2] = 1
  <2> SUFFICES ASSUME s # <<>> PROVE s[1][2] = 1
    OBVIOUS
  <2>1. Len(s) # 0
    BY EmptySeq
  <2>2. 1 \in 1 .. Len(s) /\ Len(st) > d /\ 1 + d = d + 1
    BY <1>1, <1>7, <2>1
  <2>3. s[1] = st[d + 1]
    BY <1>7, <2>2
  <2> QED
    BY <2>2, <2>3 DEF st
<1>9. Midway(l) => s # <<>> /\ s[Len(s)] = <<l[1], 1>>
  <2> SUFFICES ASSUME Midway(l) PROVE s # <<>> /\ s[Len(s)] = <<l[1], 1>>
    OBVIOUS
  <2>1. Len(st) > d /\ st[Len(st)] = <<l[1], 1>>
    BY DEF AloneOf, st
  <2>2. Len(s) # 0 /\ Len(s) \in 1 .. Len(s) /\ Len(s) + d = Len(st)
    BY <1>1, <1>7, <2>1
  <2>3. s[Len(s)] = st[Len(st)]
    BY <1>7, <2>2
  <2> QED
    BY <2>1, <2>2, <2>3
<1> QED
  BY <1>3, <1>5, <1>6, <1>8, <1>9 DEF AloneOf, FromClient

\* The stream stays as it is.
LEMMA StreamKept ==
    ASSUME NEW l, AloneOf(l), Stream(l)' = Stream(l), Midway(l)' => Midway(l),
           rdPc'[l] = "deliver" => WholeFrame(ring'[l[2]])
    PROVE  AloneOf(l)'
  BY DEF AloneOf, FromClient, WholeFrame

\* The end of the stream is lost with the connection.
LEMMA EndLost ==
    ASSUME TypeOK, TypeOK', NEW l \in Links, AloneOf(l), ~Midway(l)', ring' = ring,
           Len(Under(l)') <= Len(Under(l)),
           \A i \in 1 .. Len(Under(l)') : Under(l)'[i] = Under(l)[i],
           rdPc'[l] = "deliver" => rdPc[l] = "deliver"
    PROVE  AloneOf(l)'
<1>1. ring[l[2]] \in Seq(Half) /\ Under(l) \in Seq(Half)
  BY StreamTypes
<1>2. PICK q \in Seq(Half) : q = Under(l)'
  <2>1. rdBuf'[l] \in Seq(Half) /\ chan'[l] \in Seq(Half)
    BY DEF TypeOK
  <2>2. rdBuf'[l] \o chan'[l] \in Seq(Half)
    BY <2>1, ConcatProperties
  <2> QED
    BY <2>2 DEF Under
<1> DEFINE s == ring[l[2]] \o q
<1>3. /\ s \in Seq(Half) /\ Len(s) <= Len(Stream(l))
      /\ \A i \in 1 .. Len(s) : s[i] = Stream(l)[i]
  <2>1. Len(q) <= Len(Under(l)) /\ \A i \in 1 .. Len(q) : q[i] = Under(l)[i]
    BY <1>2
  <2> QED
    BY <1>1, <2>1, CutBehind DEF Stream
<1>4. Stream(l)' = s
  BY <1>2 DEF Stream
<1> HIDE DEF s
<1>5. FromClient(s, l)
  BY <1>3, PrefixInOrder DEF AloneOf
<1>6. s # <<>> => s[1][2] = 1
  <2> SUFFICES ASSUME s # <<>> PROVE s[1][2] = 1
    OBVIOUS
  <2>1. Len(s) \in Nat /\ Len(s) > 0 /\ Len(Stream(l)) \in Nat
    BY <1>3, EmptySeq, LenProperties, StreamTypes
  <2>2. 1 \in 1 .. Len(s) /\ Len(Stream(l)) # 0
    BY <1>3, <2>1
  <2>3. s[1] = Stream(l)[1] /\ Stream(l) # <<>>
    BY <1>3, <2>2
  <2> QED
    BY <2>3 DEF AloneOf
<1> QED
  BY <1>4, <1>5, <1>6 DEF AloneOf, FromClient, WholeFrame

LEMMA ReadsAlone ==
    ASSUME TypeOK, TypeOK', StreamInv, NEW l \in Links, Alone(l), AloneOf(l),
           NEW k \in Links, Reads(k)
    PROVE  AloneOf(l)'
<1>0. /\ ring \in [Nodes -> Seq(Half)] /\ rdBuf \in [Links -> Seq(Half)]
      /\ chan \in [Links -> Seq(Half)]
      /\ rdPc \in [Links -> {"recv", "received", "failed", "interrupted", "parse", "deliver",
                             "get", "empty", "ended"}]
      /\ l[2] \in Nodes /\ k[2] \in Nodes
  BY LinkEnds DEF TypeOK, Holding
<1>1. UNCHANGED <<targets, part, conn>> /\ Midway(l)' = Midway(l)
  BY ReadsLeave DEF Midway, Begun
\* The read threads of other nodes touch neither the ring nor what is under way.
<1>2. CASE k # l
  <2>1. k[2] # l[2]
    BY <1>2 DEF Alone, In
  <2>2. UNCHANGED <<rdBuf[l], chan[l], rdPc[l], ring[l[2]]>>
    BY <1>0, <1>2, <2>1 DEF Reads, FindsClosed, GetsBuffer, GetsNone, ReturnsEmpty, Receives,
       RecvInterrupted, RecvFails, ReturnsUnused, LocksUplink, FindsFrame, Skips, Delivers,
       Parsed, ReadGoto, net
  <2>3. Stream(l)' = Stream(l)
    BY <2>2 DEF Stream, Under
  <2> QED
    BY <1>1, <2>2, <2>3, StreamKept DEF AloneOf
<1>3. CASE /\ k = l
           /\ \/ GetsBuffer(l) \/ GetsNone(l) \/ ReturnsEmpty(l) \/ FindsFrame(l) \/ Parsed(l)
              \/ RecvInterrupted(l) \/ RecvFails(l) \/ ReturnsUnused(l)
  <2>1. UNCHANGED <<rdBuf, chan, ring>>
    BY <1>3 DEF GetsBuffer, GetsNone, ReturnsEmpty, FindsFrame, Parsed, RecvInterrupted,
       RecvFails, ReturnsUnused, net
  <2>2. rdPc'[l] = "deliver" => WholeFrame(ring[l[2]])
    BY <1>0, <1>3 DEF GetsBuffer, GetsNone, ReturnsEmpty, FindsFrame, Parsed, RecvInterrupted,
       RecvFails, ReturnsUnused, ReadGoto
  <2>3. Stream(l)' = Stream(l)
    BY <2>1 DEF Stream, Under
  <2> QED
    BY <1>1, <2>1, <2>2, <2>3, StreamKept
<1>4. CASE k = l /\ Receives(l)
  <2>1. /\ rdBuf[l] = <<>> /\ rdBuf'[l] = chan[l] /\ chan'[l] = <<>> /\ ring' = ring
        /\ rdPc'[l] = "received"
    BY <1>0, <1>4 DEF Receives, ReadGoto, StreamInv
  <2>2. Under(l)' = Under(l)
    BY <2>1, UnderTypes DEF Under
  <2>3. Stream(l)' = Stream(l)
    BY <2>1, <2>2 DEF Stream
  <2> QED
    BY <1>1, <2>1, <2>3, StreamKept
<1>5. CASE k = l /\ LocksUplink(l)
  <2>1. /\ rdBuf'[l] = <<>> /\ chan' = chan /\ rdPc'[l] = "parse"
        /\ ring'[l[2]] = ring[l[2]] \o rdBuf[l]
    BY <1>0, <1>5 DEF LocksUplink, ReadGoto, net
  <2>2. Under(l)' = chan[l]
    BY <2>1, UnderTypes DEF Under
  <2>3. (ring[l[2]] \o rdBuf[l]) \o chan[l] = ring[l[2]] \o (rdBuf[l] \o chan[l])
    <3>1. ring[l[2]] \in Seq(Half) /\ rdBuf[l] \in Seq(Half) /\ chan[l] \in Seq(Half)
      BY <1>0
    <3> QED
      BY <3>1, Associates, Zenon
  <2>4. Stream(l)' = Stream(l)
    BY <2>1, <2>2, <2>3, Zenon DEF Stream, Under
  <2>5. rdPc'[l] # "deliver"
    BY <2>1
  <2> QED
    BY <1>1, <2>4, <2>5, StreamKept
<1>6. CASE k = l /\ Skips(l)
  <2> DEFINE r == ring[l[2]]
  <2>1. /\ Len(r) >= 2 /\ r[1] = <<l[1], 1>> /\ r[2] = <<l[1], 1>>
    BY <1>6, SkipsBrokenFrame
  <2>2. /\ r \in Seq(Half) /\ Len(r) \in Nat /\ Len(Stream(l)) \in Nat
        /\ Len(Stream(l)) >= Len(r) /\ \A i \in 1 .. Len(r) : Stream(l)[i] = r[i]
    BY StreamTypes
  <2>3. /\ ring'[l[2]] = Tail(r) /\ UNCHANGED <<rdBuf, chan>> /\ rdPc'[l] = "parse"
    BY <1>0, <1>6 DEF Skips, net
  <2>4. r # <<>>
    BY <2>1, EmptySeq
  <2>5. IsRest(ring'[l[2]], r, 1)
    BY <2>2, <2>3, <2>4, HeadTailProperties DEF IsRest
  <2>6. 1 \in 1 .. Len(r) /\ 2 \in 1 .. Len(r) /\ Len(Stream(l)) > 1 /\ 1 + 1 = 2
    BY <2>1, <2>2
  <2>7. Stream(l)[1 + 1][2] = 1
    BY <2>1, <2>2, <2>6
  <2>8. rdPc'[l] # "deliver"
    BY <2>3
  <2> HIDE DEF r
  <2> QED
    BY <1>1, <2>3, <2>5, <2>6, <2>7, <2>8, FrontGone DEF r
<1>7. CASE k = l /\ Delivers(l)
  <2> DEFINE r == ring[l[2]]
             st == Stream(l)
  <2>1. Len(r) >= 2 /\ r[2][2] = 2
    <3>1. WholeFrame(r)
      BY <1>7 DEF Delivers, AloneOf
    <3>2. Len(r) >= 2 /\ r[2] = <<r[1][1], 2>>
      BY <3>1 DEF WholeFrame
    <3> QED
      BY <3>2
  <2>2. /\ r \in Seq(Half) /\ Len(r) \in Nat /\ Len(st) \in Nat
        /\ Len(st) >= Len(r) /\ \A i \in 1 .. Len(r) : st[i] = r[i]
    BY StreamTypes
  <2>3. /\ ring'[l[2]] = SubSeq(r, 3, Len(r)) /\ UNCHANGED <<rdBuf, chan>> /\ rdPc'[l] = "parse"
    BY <1>0, <1>7 DEF Delivers, ReadGoto, net
  <2>4. rdPc'[l] # "deliver"
    BY <2>3
  <2> HIDE DEF r, st
  <2>5. 2 \in 1 .. Len(r) /\ 2 \in 1 .. Len(st)
    BY <2>1, <2>2
  <2>6. st[2][2] = 2
    BY <2>1, <2>2, <2>5
  <2>7. IsRest(ring'[l[2]], r, 2)
    BY <2>1, <2>2, <2>3, BehindFrame
  <2>8. Len(st) > 2 => st[2 + 1][2] = 1
    <3> SUFFICES ASSUME Len(st) > 2 PROVE st[2 + 1][2] = 1
      OBVIOUS
    <3>1. 3 \in 2 .. Len(st) /\ 3 \in 1 .. Len(st) /\ 2 + 1 = 3 /\ 3 - 1 = 2
      BY <2>2
    <3>2. st[3][2] = 2 => st[2] = <<st[3][1], 1>>
      BY <3>1 DEF AloneOf, FromClient, InOrder, st
    <3>3. st[3][2] \in {1, 2}
      <4>1. st \in Seq(Half)
        BY StreamTypes DEF st
      <4>2. st[3] \in Half
        BY <3>1, <4>1, ElementOfSeq
      <4> QED
        BY <4>2 DEF Half
    <3>4. st[3][2] # 2
      BY <2>6, <3>2
    <3> QED
      BY <3>1, <3>3, <3>4
  <2>9. Midway(l) => Len(st) > 2
    <3>0. Len(st) = 2 \/ Len(st) > 2
      BY <2>1, <2>2, AtLeastTwo
    <3> SUFFICES ASSUME Midway(l), Len(st) = 2 PROVE FALSE
      BY <3>0
    <3>1. st[Len(st)] = <<l[1], 1>>
      BY DEF AloneOf, st
    <3>2. st[2][2] = 1
      BY <3>1
    <3> QED
      BY <2>6, <3>2
  <2> QED
    BY <1>1, <2>3, <2>4, <2>5, <2>7, <2>8, <2>9, FrontGone DEF r, st
<1>8. CASE k = l /\ FindsClosed(l)
  <2>1. /\ rdPc[l] = "get" /\ conn[l] # "up" /\ rdPc'[l] = "ended"
        /\ rdBuf' = rdBuf /\ ring' = ring /\ chan'[l] = <<>>
    BY <1>0, <1>8 DEF FindsClosed, ReadGoto
  <2>2. rdBuf[l] = <<>> /\ Under(l)' = <<>>
    <3>1. rdBuf[l] = <<>>
      BY <2>1 DEF StreamInv
    <3>2. rdBuf'[l] = <<>> /\ <<>> \o <<>> = <<>>
      BY <2>1, <3>1
    <3> QED
      BY <2>1, <3>1, <3>2 DEF Under
  <2>3. ~Midway(l)'
    BY <1>1, <2>1 DEF Midway
  <2>4. Len(<<>>) <= Len(Under(l)) /\ \A i \in 1 .. Len(<<>>) : <<>>[i] = Under(l)[i]
    <3>1. Len(Under(l)) \in Nat
      BY StreamTypes
    <3> QED
      BY <3>1
  <2> QED
    BY <2>1, <2>2, <2>3, <2>4, EndLost
<1> QED
  BY <1>2, <1>3, <1>4, <1>5, <1>6, <1>7, <1>8 DEF Reads

LEMMA AppsAlone ==
    ASSUME TypeOK, CallInv, NEW l \in Links, AloneOf(l), NEW n \in Nodes,
           Sends(n) \/ \E a \in Apps : Frame(n, a) \/ LocksHub(n, a)
    PROVE  AloneOf(l)'
<1>0. /\ targets \in [Nodes -> Seq(Links)] /\ part \in [Nodes -> {0, 1}]
      /\ chan \in [Links -> Seq(Half)] /\ l[1] \in Nodes
  BY LinkEnds DEF TypeOK
<1>a. part[n] = 0 \/ part[n] = 1
  BY <1>0
<1>1. rdPc' = rdPc /\ rdBuf' = rdBuf /\ ring' = ring
  BY AppsLeave
<1>2. ASSUME chan'[l] = chan[l], Midway(l)' => Midway(l)
      PROVE  AloneOf(l)'
  <2>1. Stream(l)' = Stream(l)
    BY <1>1, <1>2 DEF Stream, Under
  <2> QED
    BY <1>1, <1>2, <2>1, StreamKept DEF AloneOf
<1>3. ASSUME Midway(l)', ~Midway(l)
      PROVE  SendsPart(n) /\ l = Head(targets[n])
  <2>1. conn'[l] = "up" => conn[l] = "up"
    BY DEF Sends, Frame, LocksHub, SendsPart, TimesOut, SendVanishes, SendFails, Returns, net,
           TypeOK
  <2> QED
    BY <1>3, <2>1, AppBegins DEF Midway
<1>4. CASE ~SendsPart(n)
  <2>1. chan' = chan
    BY <1>4 DEF Sends, Frame, LocksHub, TimesOut, SendVanishes, SendFails, Returns, net
  <2> QED
    BY <1>2, <1>3, <1>4, <2>1
<1>5. CASE SendsPart(n)
  <2>0. PICK h \in Links, k \in {1, 2} : h = Head(targets[n]) /\ h[1] = n /\ k = part[n] + 1
    <3>1. part[n] + 1 \in {1, 2}
      BY <1>a
    <3> QED
      BY <1>5, <3>1, HeadIsOut DEF SendsPart
  <2>1. /\ targets[n] # <<>> /\ chan' = [chan EXCEPT ![h] = Append(@, <<h[1], k>>)]
        /\ \A m \in Nodes : m # n => targets'[m] = targets[m] /\ part'[m] = part[m]
        /\ part'[n] = 1 => part[n] = 0 /\ targets'[n] = targets[n]
    <3>1. targets[n] # <<>> /\ chan' = [chan EXCEPT ![h] = Append(@, <<h[1], k>>)]
      BY <1>5, <2>0 DEF SendsPart
    <3>2. \A m \in Nodes : m # n => targets'[m] = targets[m] /\ part'[m] = part[m]
      BY <1>0, <1>5 DEF SendsPart
    <3>3. part'[n] = 1 - part[n]
      BY <1>0, <1>5 DEF SendsPart
    <3>4. part[n] = 0 => targets'[n] = targets[n]
      BY <1>0, <1>5 DEF SendsPart
    <3> QED
      BY <1>a, <3>1, <3>2, <3>3, <3>4
  <2>2. CASE l # h
    <3>1. chan'[l] = chan[l] /\ (Midway(l)' => Midway(l))
      BY <1>0, <1>3, <2>0, <2>1, <2>2
    <3> QED
      BY <1>2, <3>1
  <2>3. CASE l = h
    <3> DEFINE x == <<l[1], k>>
    <3>1. x \in Half
      BY <1>0 DEF Half
    <3>2. Stream(l)' = Append(Stream(l), x)
      <4>1. chan'[l] = Append(chan[l], x) /\ rdBuf'[l] = rdBuf[l] /\ ring' = ring
        BY <1>0, <1>1, <2>1, <2>3
      <4>2. Append(Under(l), x) = rdBuf[l] \o Append(chan[l], x)
        BY <3>1, UnderTypes
      <4>3. Under(l)' = Append(Under(l), x)
        BY <4>1, <4>2 DEF Under
      <4>4. Append(ring[l[2]] \o Under(l), x) = ring[l[2]] \o Append(Under(l), x)
        <5>1. ring[l[2]] \in Seq(Half) /\ Under(l) \in Seq(Half)
          BY StreamTypes
        <5> QED
          BY <3>1, <5>1, AppendBehind
      <4> QED
        BY <4>1, <4>3, <4>4 DEF Stream
    <3>3. k = 2 => Midway(l)
      BY <1>0, <1>5, <2>0, <2>1, <2>3 DEF SendsPart, Midway, Begun
    <3>4. FromClient(Stream(l), l)
      BY DEF AloneOf
    <3>5. k = 2 => Stream(l) # <<>> /\ Stream(l)[Len(Stream(l))] = <<l[1], 1>>
      BY <3>3 DEF AloneOf
    <3>6. /\ FromClient(Append(Stream(l), x), l)
          /\ Len(Append(Stream(l), x)) = Len(Stream(l)) + 1
          /\ Append(Stream(l), x)[Len(Stream(l)) + 1] = x
          /\ Stream(l) # <<>> => Append(Stream(l), x)[1] = Stream(l)[1]
      BY <3>4, <3>5, AddedInOrder
    <3>7. Append(Stream(l), x)[1][2] = 1
      <4>1. CASE Stream(l) # <<>>
        BY <3>6, <4>1 DEF AloneOf
      <4>2. CASE Stream(l) = <<>>
        <5>1. k = 1 /\ x[2] = 1
          BY <3>5, <4>2
        <5>2. Append(Stream(l), x)[1] = x
          BY <3>6, <4>2
        <5> QED
          BY <5>1, <5>2
      <4> QED
        BY <4>1, <4>2
    <3>8. Midway(l)' => k = 1
      BY <2>0, <2>1, <2>3 DEF Midway, Begun
    <3>9. Append(Stream(l), x) # <<>>
      <4>1. Stream(l) \in Seq(Half)
        BY StreamTypes
      <4> QED
        BY <3>1, <4>1, AppendProperties
    <3> QED
      BY <1>1, <3>2, <3>6, <3>7, <3>8, <3>9 DEF AloneOf, FromClient, WholeFrame
  <2> QED
    BY <2>2, <2>3
<1> QED
  BY <1>4, <1>5

LEMMA LinksAlone ==
    ASSUME TypeOK, TypeOK', DownInv, NEW l \in Links, Alone(l), AloneOf(l),
           NEW k \in Links, Breaks(k) \/ Reconnects(k)
    PROVE  AloneOf(l)'
<1>0. /\ chan \in [Links -> Seq(Half)] /\ conn \in [Links -> {"up", "broken", "down"}]
      /\ rdPc \in [Links -> Holding \cup {"get", "empty", "ended"}]
  BY DEF TypeOK
<1>1. /\ rdBuf' = rdBuf /\ ring' = ring /\ Begun(l)' = Begun(l)
      /\ rdPc'[l] = "deliver" => rdPc[l] = "deliver"
  BY <1>0, LinksLeave DEF Begun, appVars, Breaks, Reconnects, readVars, ReadGoto
<1>2. Midway(l)' => Midway(l)
  BY <1>0, <1>1 DEF Midway, DownInv, Breaks, Reconnects
<1>3. CASE k # l \/ Reconnects(k)
  <2>1. chan'[l] = chan[l]
    BY <1>0, <1>3 DEF Breaks, Reconnects
  <2>2. Stream(l)' = Stream(l)
    BY <1>1, <2>1 DEF Stream, Under
  <2> QED
    BY <1>1, <1>2, <2>2, StreamKept DEF AloneOf
<1>4. CASE k = l /\ Breaks(l)
  <2>1. PICK c \in 0 .. Len(chan[l]) : chan' = [chan EXCEPT ![l] = SubSeq(chan[l], 1, c)]
    BY <1>4 DEF Breaks
  <2>2. ~Midway(l)'
    BY <1>0, <1>4 DEF Breaks, Midway
  <2> DEFINE q == SubSeq(chan[l], 1, c)
  <2>3. rdBuf[l] \in Seq(Half) /\ chan[l] \in Seq(Half)
    BY UnderTypes
  <2>4. /\ q \in Seq(Half) /\ Len(q) = c /\ c <= Len(chan[l])
        /\ \A i \in 1 .. c : q[i] = chan[l][i]
    BY <2>3, CutShort, LenProperties
  <2>5. Under(l)' = rdBuf[l] \o q
    BY <1>0, <1>1, <2>1 DEF Under
  <2> HIDE DEF q
  <2>6. /\ Len(rdBuf[l] \o q) <= Len(Under(l))
        /\ \A i \in 1 .. Len(rdBuf[l] \o q) : (rdBuf[l] \o q)[i] = Under(l)[i]
    BY <2>3, <2>4, CutBehind DEF Under
  <2> QED
    BY <1>1, <2>2, <2>5, <2>6, EndLost
<1> QED
  BY <1>3, <1>4

LEMMA AloneInvariant == Spec => [](CallInv /\ DownInv /\ StreamInv /\ AloneInv)
<1>1. Init => AloneInv
  <2> SUFFICES ASSUME Init, NEW l \in Links PROVE AloneOf(l)
    BY DEF AloneInv
  <2>1. ring[l[2]] = <<>> /\ Under(l) = <<>>
    BY InitTypes, UnderTypes, LinkEnds DEF Init, Under
  <2>2. Stream(l) = <<>>
    BY <2>1 DEF Stream
  <2>3. part[l[1]] = 0 /\ rdPc[l] = "get"
    BY LinkEnds DEF Init
  <2>4. FromClient(<<>>, l)
    BY DEF FromClient, InOrder
  <2> QED
    BY <2>2, <2>3, <2>4 DEF AloneOf, Midway, Begun
<1>2. TypeOK /\ TypeOK' /\ CallInv /\ DownInv /\ StreamInv /\ AloneInv /\ [Next]_vars
          => AloneInv'
  <2> SUFFICES ASSUME TypeOK, TypeOK', CallInv, DownInv, StreamInv, AloneInv, [Next]_vars,
                      NEW l \in Links, Alone(l)
               PROVE  AloneOf(l)'
    BY DEF AloneInv, Alone, In
  <2>1. AloneOf(l)
    BY DEF AloneInv
  <2>2. ASSUME NEW n \in Nodes, Sends(n) \/ \E a \in Apps : Frame(n, a) \/ LocksHub(n, a)
        PROVE  AloneOf(l)'
    BY <2>1, <2>2, AppsAlone
  <2>3. ASSUME NEW k \in Links, Reads(k) PROVE AloneOf(l)'
    BY <2>1, <2>3, ReadsAlone
  <2>4. CASE UNCHANGED vars
    BY <2>1, <2>4, StreamKept
       DEF vars, appVars, readVars, net, Stream, Under, Midway, Begun, AloneOf
  <2>5. ASSUME NEW k \in Links, Breaks(k) \/ Reconnects(k) PROVE AloneOf(l)'
    BY <2>1, <2>5, LinksAlone
  <2> QED
    BY <2>2, <2>3, <2>4, <2>5 DEF Next
<1> QED
  BY <1>1, <1>2, InitTypes, StepTypes, InitStreams, StepStreams, PTL DEF Spec

\* A node that reads from one connection drops no frame that was sent whole: uplinkP skips
\* a half only when the other half was given up or lost with its connection and a new
\* frame follows it.  So what WholeFramesReceived finds in a mesh comes from the
\* connections of a node sharing its deframer (topology.fpp:175), not from the timeouts
\* and reconnections of its clients.
THEOREM OneConnectionLosesNoFrame ==
    Spec => [][\A l \in Links : Alone(l) /\ Skips(l) =>
                  /\ Len(ring[l[2]]) >= 2
                  /\ ring[l[2]][1] = <<l[1], 1>> /\ ring[l[2]][2] = <<l[1], 1>>]_vars
<1>1. TypeOK /\ AloneInv => \A l \in Links : Alone(l) /\ Skips(l) =>
           /\ Len(ring[l[2]]) >= 2
           /\ ring[l[2]][1] = <<l[1], 1>> /\ ring[l[2]][2] = <<l[1], 1>>
  BY SkipsBrokenFrame DEF AloneInv
<1> QED
  BY <1>1, TypeCorrect, AloneInvariant, PTL
=============================================================================
