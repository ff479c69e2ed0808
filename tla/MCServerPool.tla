---------------------------- MODULE MCServerPool ----------------------------
(* Instances of ServerPool for TLC.  The clients are interchangeable.       *)
EXTENDS ServerPool, TLC

ClientSymmetry == Permutations(Conns)

(* A view for the instances with ID_PROTOCOL: states that differ only in a   *)
(* value that is overwritten before anything reads it are one state.         *)

\* params once every thread has fetched it: starting a thread writes it first.
LiveParams == IF \E t \in Tasks : rdPc[t] = "start" THEN params ELSE 0

\* join_status when the next pass of the reaping loop begins with a started task.
Reaping == accPc \in {"reap", "join"} /\ cursor \in 1 .. MAX_TASKS - 1

LiveJoinStatus == IF 0 \in started /\ ~Reaping THEN 0 ELSE join_status

\* The ID of a socket that is closed or in the handshake: recvClientID writes it
\* before the handshake succeeds, and closes the socket otherwise.
LiveDeviceID ==
    [s \in Slots |-> IF Opened(s) /\ ~InHandshake(s) THEN clientDeviceID[s] ELSE NoConn]

LiveState ==
    <<peerVars, sock, LiveDeviceID, nConnected, LiveParams, taskCount, started,
      accPc, clientFd, accFd, accTmp, cursor, LiveJoinStatus, rdVars, mainVars>>
=============================================================================
