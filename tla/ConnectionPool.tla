---------------------------- MODULE ConnectionPool ----------------------------
(***************************************************************************)
(* What a pool of sockets promises, server half and client half alike: a   *)
(* set of at most Capacity connections, of which one is replaced by        *)
(* another only after it was closed.  The ID of a peer can be learnt, once *)
(* its connection is open, and forgotten; a closed connection leaves no ID *)
(* behind that leads to the next one.  A pool that is done has closed      *)
(* every connection and never opens one again.                             *)
(*                                                                         *)
(* ServerPool and ClientPool implement it.  There the socket of a          *)
(* connection, its ID and the scans over the pool are separate steps of    *)
(* several threads; here each operation is one step.                       *)
(***************************************************************************)
EXTENDS Integers, FiniteSets

CONSTANTS
    Peers,     \* who can be at the other end
    Capacity   \* MAX_CLIENTS

VARIABLES
    open,      \* peers with an open connection
    known,     \* those whose device ID leads to their connection
    done       \* the task that opens connections has returned

vars == <<open, known, done>>

Init == open = {} /\ known = {} /\ done = FALSE

Open(p) ==
    /\ ~done /\ p \notin open /\ Cardinality(open) < Capacity
    /\ open' = open \cup {p}
    /\ UNCHANGED <<known, done>>

\* The ID exchange with p ends, on a connection that is still open.
Identify(p) ==
    /\ p \in open
    /\ known' = known \cup {p}
    /\ UNCHANGED <<open, done>>

\* The ID of p is reset, before its connection closes or although it stays open.
Forget(p) ==
    /\ known' = known \ {p}
    /\ UNCHANGED <<open, done>>

Close(p) ==
    /\ open' = open \ {p}
    /\ known' = known \ {p}
    /\ UNCHANGED done

\* The task closes what is left and returns.
Finish ==
    /\ open' = {} /\ known' = {}
    /\ done' = TRUE

Next ==
    \/ \E p \in Peers : Forget(p) \/ Close(p) \/ Open(p) \/ Identify(p)
    \/ Finish

Spec == Init /\ [][Next]_vars
===============================================================================
