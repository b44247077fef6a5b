-------------------------------- MODULE MCTcp --------------------------------
(* Instances of Tcp: the client's sequence numbers wrap inside its text.     *)
EXTENDS Tcp, TLC

MCIss == [e \in Ends |-> IF e = "client" THEN 14 ELSE 1]

Plan(c, s, close, reset, nodelay) ==
    [bytes |-> [e \in Ends |-> IF e = "client" THEN c ELSE s],
     close |-> close, reset |-> reset, nodelay |-> nodelay]

MCUsers ==
    {Plan(2, 0, {"client"}, {}, TRUE),
     Plan(3, 0, {}, {}, FALSE),
     Plan(0, 0, Ends, {}, TRUE),
     Plan(1, 0, {}, {"server"}, TRUE),
     Plan(1, 1, {}, {}, TRUE)}
=============================================================================
