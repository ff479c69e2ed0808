---------------------------- MODULE MCSwarmPacket ----------------------------
(* Instances of SwarmPacket for TLC.                                        *)
EXTENDS SwarmPacket

\* Nodes 0 and 1, and an ID whose bytes are those of a tag twice, as destination.
Node0 == BASE
Node1 == BASE + 1
TagTwice == 1229211972
SomeSources == {Node0, Node1}
SomeDests == {Node0, Node1, BROADCAST, TagTwice}

\* Payloads with tags and halves of tags, and a whole header for node 0.
SomePayloads ==
    UNION {[1 .. n -> {73, 68}] : n \in 0 .. 2}
    \cup {<<73, 68, 32, 32, 32, 33, 73, 68, 32, 32, 32, 32, 0>>}

\* Nothing, a size that ends in half a tag, other bytes.
SomePrefixes == {<<>>, <<73>>, <<0, 190>>}
CRC == <<73, 68, 0, 0>>

\* No line, one line, and a line for each of two nodes.
Rows == [0 .. 1 -> {0, 1}]
SomeMaskFiles == {<<>>} \cup {<<r>> : r \in Rows} \cup {<<[i \in 0 .. 1 |-> 0], r>> : r \in Rows}
=============================================================================
