------------------------------- MODULE MCPeers -------------------------------
(* Two parties that hand something over: a TCP connection (Tcp) and a        *)
(* priority-inheritance futex (FutexPi).  In a behaviour one of them moves   *)
(* and the other stays as it began.                                          *)
EXTENDS MCTcp, FutexPi

VARIABLE subject    \* the module that moves

PeersInit ==
    /\ subject \in {"tcp", "futex"}
    /\ TcpInit /\ PiInit
    /\ subject = "futex" => users = CHOOSE u \in Users : TRUE

PeersNext ==
    \/ subject = "tcp" /\ TcpNext /\ UNCHANGED <<subject, piVars>>
    \/ subject = "futex" /\ PiNext /\ UNCHANGED <<subject, tcpVars>>

PeersSpec == PeersInit /\ [][PeersNext]_<<subject, tcpVars, piVars>>
=============================================================================
