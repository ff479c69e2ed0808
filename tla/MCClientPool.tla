---------------------------- MODULE MCClientPool ----------------------------
(* Instances of ClientPool for TLC.                                         *)
EXTENDS ClientPool, TLC

CONSTANTS h1, h2, h3

TwoHosts  == <<h1, h2>>
WithBad   == <<h1, BadLine, h2>>
Distinct  == [h \in Hosts \cup {NoHost} |-> h]
\* Two hosts whose addresses begin with the same eight characters and whose ports
\* are equal.
SamePrefix == [h \in Hosts \cup {NoHost} |-> IF h = NoHost THEN NoHost ELSE h1]
=============================================================================
