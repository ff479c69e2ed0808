------------------------------ MODULE Handshake ------------------------------
(***************************************************************************)
(* What the two halves of the driver promise of a client and a server that *)
(* it may connect to, whatever the other nodes do: the connection is made, *)
(* the client sends its ID, the server answers with its own, the client    *)
(* takes the answer and is open.  The server's end can go away at any      *)
(* time; the client gives its socket up only when it is gone and no answer *)
(* is left to read, unless its process ends.                               *)
(*                                                                         *)
(* Mesh implements it for every pair of nodes.  There the server's end     *)
(* waits in a backlog and is taken by an accept task that serves one       *)
(* client at a time, and hosts are tried one after the other; here each    *)
(* step of the handshake is a step of this pair alone.                     *)
(***************************************************************************)
VARIABLES
    client,   \* "none"; "new", connected; "wait", the ID is sent; "open"
    server,   \* "none"; "pending", not answered yet; "served", answered
    answer    \* the server's ID is under way

vars == <<client, server, answer>>

Init == client = "none" /\ server = "none" /\ answer = FALSE

Connect ==
    /\ client = "none" /\ server = "none" /\ ~answer
    /\ client' = "new" /\ server' = "pending"
    /\ UNCHANGED answer

SendID ==
    /\ client = "new"
    /\ client' = "wait"
    /\ UNCHANGED <<server, answer>>

Answer ==
    /\ client = "wait" /\ server = "pending"
    /\ server' = "served" /\ answer' = TRUE
    /\ UNCHANGED client

GetID ==
    /\ client = "wait" /\ answer
    /\ client' = "open" /\ answer' = FALSE
    /\ UNCHANGED server

\* The connection breaks or the server's process ends; an answer stays under way.
LoseServer ==
    /\ server' = "none"
    /\ UNCHANGED <<client, answer>>

\* The open task or send_handler finds the server's end gone.
Close ==
    /\ server = "none" /\ ~answer
    /\ client' = "none"
    /\ UNCHANGED <<server, answer>>

\* The client's process ends.
LoseClient == client' = "none" /\ server' = "none" /\ answer' = FALSE

Next ==
    \/ Connect \/ SendID \/ Answer \/ GetID
    \/ LoseServer \/ Close \/ LoseClient

Spec == Init /\ [][Next]_vars
=============================================================================
