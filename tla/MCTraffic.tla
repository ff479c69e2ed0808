----------------------------- MODULE MCTraffic -----------------------------
(* Traffic for TLC: a node with two read threads, one of them for a          *)
(* connection to itself.                                                     *)
EXTENDS Traffic

CONSTANTS a, b, GPS, simpleProducer

\* Node a reads from two connections, and both its components produce; b has one.
Fan   == {<<a, a>>, <<b, a>>}
Pings == {<<a, GPS>>, <<a, simpleProducer>>, <<b, GPS>>}

\* The connection between the two nodes may break.
Cable == {<<b, a>>}
=============================================================================
