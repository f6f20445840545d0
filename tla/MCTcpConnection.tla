--------------------------- MODULE MCTcpConnection ---------------------------
(* An instance of TcpConnection for TLC: another thread that sends twice    *)
(* and may close, and one that sends once; the loop thread sends twice.    *)
EXTENDS TcpConnection, TLC

CONSTANTS t1, t2

MCMaxSends == (t1 :> 2) @@ (t2 :> 1) @@ (Loop :> 2)
===============================================================================
