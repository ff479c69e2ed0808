----------------------------- MODULE SwarmPacket -----------------------------
(***************************************************************************)
(* The way of one packet through two nodes: SwarmFramer puts the swarm     *)
(* header before the payload; hub and Svc::Framer, outside this repository,*)
(* put bytes around it; send_handler of Drv::MultiTcpServerComponentImpl   *)
(* scans all of these bytes for the destination and asks the connection    *)
(* mask; SwarmDeframer of the receiving node removes the header.           *)
(*                                                                         *)
(* The port commP.send is guarded and SwarmFramer's handlers are guarded,  *)
(* so each handler is one step; commands and changes of the mask file come *)
(* between them.  ClientPool takes over from send_handler's decision: the  *)
(* packets it sends have the destination found here.                       *)
(***************************************************************************)
EXTENDS Integers, Sequences

CONSTANTS
    Sources,      \* device IDs a node can be given
    Dests,        \* destination IDs an operator sets
    Payloads,     \* what the producing component serialises
    Prefixes,     \* what Svc::Framer and Svc::GenericHub put before a buffer
    Trailer,      \* what Svc::Framer puts behind it
    MAX_CLIENTS,  \* entries of a line of the mask file (Cfg.hpp)
    MaskFiles,    \* contents of adjacency_matrix_mask.txt: sequences of lines
    Absent        \* fopen of that file fails

Byte == 0 .. 255
Slots == 0 .. MAX_CLIENTS - 1
Row == [Slots -> {0, 1}]

\* A U32 (TLC has no integer 2^32 to compare with).
U32 == {v \in Nat : v \div 16777216 \in Byte}

BASE == 538976288          \* 0x20202020, the ID of node 0
BROADCAST == 808464432     \* 0x30303030

-----------------------------------------------------------------------------
(* Bytes.  Sequences count from 1: data[i] of the code is data[i + 1] here.  *)

\* The definitions marked as a fault are of the kind this code could have; Next does
\* not use them: each replaces the definition its name starts with.

\* A fault: no & 0xFF.
Big_Unmasked(id) == <<id \div 16777216, id \div 65536, id \div 256, id>>

\* (id >> 24) & 0xFF, ..., (id >> 0) & 0xFF.
Big(id) == <<id \div 16777216, (id \div 65536) % 256, (id \div 256) % 256, id % 256>>

\* (b << 24) + (b << 16) + (b << 8) + (b << 0) of the four bytes from position i.
IDAt(data, i) ==
    16777216 * data[i] + 65536 * data[i+1] + 256 * data[i+2] + data[i+3]

\* 'I', 'D' at position i.
IsTag(data, i) == i \in 1 .. Len(data) - 1 /\ data[i] = 73 /\ data[i+1] = 68

\* swarm_header_entry.
Entry(id) == <<73, 68>> \o Big(id)

\* A fault: the destination before the source.
Framed_Swapped(src, dst, payload) == Entry(dst) \o Entry(src) \o payload

\* SwarmFramer::frame.
Framed(src, dst, payload) == Entry(src) \o Entry(dst) \o payload

\* No tag begins in one of the first n bytes.
NoTagBefore(data, n) == \A i \in 1 .. n : ~IsTag(data, i)

ASSUME PacketConstants ==
    /\ MAX_CLIENTS \in Nat \ {0} /\ Absent \notin MaskFiles
    /\ Dests \subseteq U32
    /\ Payloads \subseteq Seq(Byte) /\ Prefixes \subseteq Seq(Byte) /\ Trailer \in Seq(Byte)
    /\ MaskFiles \subseteq Seq(Row)

\* setDeviceID asserts that an ID is neither 0 nor the broadcast ID; the IDs of
\* the nodes start at BASE.  None holds the bytes of a tag.
ASSUME SourcesAssumption ==
    /\ Sources \subseteq {v \in U32 : v >= BASE /\ v # BROADCAST}
    /\ \A v \in Sources : NoTagBefore(Big(v), 3)

\* What stands before a buffer holds no tag (sync word, sizes and ports do not).
ASSUME PrefixesAssumption == \A p \in Prefixes : NoTagBefore(p, Len(p))

VARIABLES
    node_sourceId,   \* setSourceId and setDeviceID: the ID of the sending node
    node_destId,     \* SwarmFramer: set by SET_DESTID
    maskFile,        \* adjacency_matrix_mask.txt
    adj_M,           \* MultiTcpServerComponentImpl::adj_M
    phase,           \* where the packet is
    asked,           \* destination and payload when the packet was framed
    body,            \* the buffer of SwarmFramer
    prefix,          \* the bytes before it when it gets to commP.send
    receiverID,      \* send_handler: the destination it found
    freed,           \* send_handler: calls of deallocate_out
    out              \* SwarmDeframer of the receiver: packetFromNode and portOut

nodeVars == <<node_sourceId, node_destId, maskFile>>
packetVars == <<asked, body, prefix>>
vars == <<nodeVars, adj_M, phase, packetVars, receiverID, freed, out>>

Nothing == [id |-> 0, payload |-> <<>>]

\* The bytes send_handler gets.
Data == prefix \o body \o Trailer

Init ==
    /\ node_sourceId \in Sources /\ node_destId = BROADCAST
    /\ maskFile \in MaskFiles \cup {Absent}
    /\ adj_M = [i \in Slots |-> IF i = 0 THEN 0 ELSE 1]
    /\ phase = "idle" /\ asked = Nothing /\ body = <<>> /\ prefix = <<>>
    /\ receiverID = 0 /\ freed = 0 /\ out = Nothing

-----------------------------------------------------------------------------
\* The operator sends SET_DESTID, at any time.
SetDestID(d) ==
    /\ node_destId' = d
    /\ UNCHANGED <<node_sourceId, maskFile, adj_M, phase, packetVars, receiverID, freed, out>>

\* Somebody edits or removes the mask file.
EditMask(f) ==
    /\ maskFile' = f
    /\ UNCHANGED <<node_sourceId, node_destId, adj_M, phase, packetVars, receiverID, freed, out>>

\* portIn_handler or bufferIn_handler, then hub and Svc::Framer.
Frame(payload, p) ==
    /\ phase = "idle"
    /\ body' = Framed(node_sourceId, node_destId, payload)
    /\ prefix' = p
    /\ asked' = [id |-> node_destId, payload |-> payload]
    /\ phase' = "framed"
    /\ UNCHANGED <<nodeVars, adj_M, receiverID, freed, out>>

-----------------------------------------------------------------------------
(* send_handler: the scan.                                                  *)

FirstTag(data, i) == IsTag(data, i) /\ NoTagBefore(data, i - 1)

\* A fault: the first tag is not marked, so that the loop breaks at it.
SecondTag_First(data, i) == FirstTag(data, i)

\* A fault: the loop does not break, so that the last tag counts.
SecondTag_Last(data, i) ==
    /\ IsTag(data, i) /\ \A j \in i + 1 .. Len(data) : ~IsTag(data, j)
    /\ \E k \in 1 .. i - 1 : IsTag(data, k)

\* The loop breaks at the second tag.
SecondTag(data, i) ==
    /\ IsTag(data, i)
    /\ \E k \in 1 .. i - 1 :
          FirstTag(data, k) /\ \A j \in k + 1 .. i - 1 : ~IsTag(data, j)

\* A fault: index is never assigned.
ScanStops_NoIndex(data, i) == i = 1

\* index: the second tag, and the first byte when the loop did not break.
ScanStops(data, i) ==
    \/ SecondTag(data, i)
    \/ i = 1 /\ \A j \in 1 .. Len(data) : ~SecondTag(data, j)

\* The test of the header joins its two halves with &&: one byte may be wrong.
HeaderRefused(data, i) == data[i] # 73 /\ data[i+1] # 68

\* Scan the buffer.  A header that is not accepted is given back, and the handler
\* goes on.  receiverID stays 1 when only one tag is found and 0 when none is.
SendScan ==
    /\ phase = "framed"
    /\ \E i \in 1 .. Len(Data) :
          /\ ScanStops(Data, i)
          /\ receiverID' = IF SecondTag(Data, i) THEN IDAt(Data, i + 2)
                           ELSE IF \E j \in 1 .. Len(Data) : IsTag(Data, j) THEN 1 ELSE 0
          /\ freed' = IF HeaderRefused(Data, i) THEN freed + 1 ELSE freed
    /\ phase' = "scanned"
    /\ UNCHANGED <<nodeVars, adj_M, packetVars, out>>

-----------------------------------------------------------------------------
(* send_handler: the connection mask.                                       *)

\* update_adjacency_matrix: the line of this node; without a file the mask stays;
\* in a file that is too short the last line that was read stays in the array, and
\* in an empty one the array was never written.
NodeLine == node_sourceId - BASE + 1

MaskRead ==
    CASE maskFile = Absent            -> {adj_M}
      [] maskFile = <<>>              -> Row
      [] OTHER -> {maskFile[IF NodeLine <= Len(maskFile) THEN NodeLine ELSE Len(maskFile)]}

\* adj_M[receiverID - 0x20202020]: anything outside the array.
Allowed(row, d) == IF d - BASE \in Slots THEN {row[d - BASE] = 1} ELSE BOOLEAN

\* Broadcast: the mask is asked for the device of every open socket (ClientPool).
SendBroadcast ==
    /\ phase = "scanned" /\ receiverID = BROADCAST
    /\ adj_M' \in {adj_M} \cup MaskRead
    /\ freed' = freed + 1
    /\ phase' = "sent"
    /\ UNCHANGED <<nodeVars, packetVars, receiverID, out>>

\* A fault: the mask is asked before it is updated.
SendUnicast_OldMask ==
    /\ phase = "scanned" /\ receiverID # BROADCAST
    /\ \E row \in MaskRead : \E ok \in Allowed(adj_M, receiverID) :
          /\ adj_M' = row
          /\ phase' = IF ok THEN "sent" ELSE "refused"
    /\ freed' = freed + 1
    /\ UNCHANGED <<nodeVars, packetVars, receiverID, out>>

\* One destination.  The packet goes to the socket of that device, or is refused.
SendUnicast ==
    /\ phase = "scanned" /\ receiverID # BROADCAST
    /\ \E row \in MaskRead : \E ok \in Allowed(row, receiverID) :
          /\ adj_M' = row
          /\ phase' = IF ok THEN "sent" ELSE "refused"
    /\ freed' = freed + 1
    /\ UNCHANGED <<nodeVars, packetVars, receiverID, out>>

-----------------------------------------------------------------------------
(* The receiving node.  Svc::Deframer and hub give back the framer's buffer. *)

HasHeader(data) == IsTag(data, 1) /\ IsTag(data, 7)

\* framedIn_handler.
FramedIn ==
    /\ phase = "sent"
    /\ out' = IF HasHeader(body)
              THEN [id |-> IDAt(body, 3), payload |-> SubSeq(body, 13, Len(body))]
              ELSE Nothing
    /\ phase' = "received"
    /\ UNCHANGED <<nodeVars, adj_M, packetVars, receiverID, freed>>

\* The packet is done, or was lost on the way.
PacketEnds ==
    /\ phase \in {"sent", "refused", "received"}
    /\ phase' = "idle" /\ asked' = Nothing /\ body' = <<>> /\ prefix' = <<>>
    /\ receiverID' = 0 /\ freed' = 0 /\ out' = Nothing
    /\ UNCHANGED <<nodeVars, adj_M>>

Next ==
    \/ \E d \in Dests : SetDestID(d)
    \/ \E f \in MaskFiles \cup {Absent} : EditMask(f)
    \/ \E payload \in Payloads, p \in Prefixes : Frame(payload, p)
    \/ SendScan \/ SendBroadcast \/ SendUnicast
    \/ FramedIn \/ PacketEnds

Spec == Init /\ [][Next]_vars

-----------------------------------------------------------------------------
(* What holds.                                                              *)

Phases == {"idle", "framed", "scanned", "sent", "refused", "received"}
Contents == [id : U32, payload : Seq(Byte)]

\* The values the variables can have: bytes stay bytes, IDs stay 32 bits wide.
TypeOK ==
    /\ node_sourceId \in Sources /\ node_destId \in U32
    /\ maskFile \in MaskFiles \cup {Absent}
    /\ adj_M \in Row
    /\ phase \in Phases
    /\ asked \in Contents
    /\ body \in Seq(Byte) /\ prefix \in Seq(Byte)
    /\ receiverID \in U32
    /\ freed \in Nat
    /\ out \in Contents

\* sdd.md: "the component will scan the data packet to find the destination ID".
\* It finds the one that was set when the packet was framed, whatever SET_DESTID
\* came later, and whatever tags the payload and the bytes around it hold.
ScanFindsDestination ==
    phase \in {"scanned", "sent", "refused", "received"} => receiverID = asked.id

\* send_handler gives the buffer back exactly once: a packet of SwarmFramer never
\* takes the path that gives it back and goes on.
FreedOnce == phase \in {"sent", "refused", "received"} => freed = 1

\* The positions of data that the scan looks at: in each iteration one byte, behind an
\* 'I' the next one too, and behind the second tag the four bytes of the ID.
ScanReads(data) ==
    LET scanned == {i \in 1 .. Len(data) : \A j \in 1 .. i - 1 : ~SecondTag(data, j)}
    IN  scanned \cup {i + 1 : i \in {k \in scanned : data[k] = 73}}
        \cup {i + k : i \in {j \in scanned : SecondTag(data, j)}, k \in 2 .. 5}

\* Neither the scan of send_handler nor framedIn_handler, which takes 12 off the size
\* without asking, leaves the buffer of a packet of SwarmFramer, although the buffer
\* may end in a tag or in half of one.
ReadsInBounds ==
    /\ phase = "framed" => ScanReads(Data) \subseteq 1 .. Len(Data)
    /\ phase = "sent" => Len(body) >= 12

\* The receiving node hands on the payload that the sending node framed, and
\* reports the sending node as its source.
DeframedAsFramed ==
    phase = "received" => out = [id |-> node_sourceId, payload |-> asked.payload]

\* A packet for one node is not sent while the sending node's line of the mask
\* file forbids that node.
MaskObeyed ==
    [][/\ SendUnicast /\ phase' = "sent"
       /\ maskFile # Absent /\ NodeLine \in 1 .. Len(maskFile) /\ asked.id - BASE \in Slots
       => maskFile[NodeLine][asked.id - BASE] = 1]_vars
=============================================================================
