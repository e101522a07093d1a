--------------------------- MODULE MCThreadGroup ---------------------------
(***************************************************************************)
(* ThreadGroup with one thread in each group, so five threads, and         *)
(* messages for three of the four queues.                                  *)
(***************************************************************************)
EXTENDS ThreadGroup

CONSTANTS acc, cli, srv, rel

MCmsgType == [m \in Msg |->
                CASE m = acc -> "ACCEPT"
                  [] m = cli -> "CLIENT_DATA_RECEIVE"
                  [] OTHER   -> "SERVER_DATA_RECEIVE"]
\* rel is created after its connection's descriptor was set to -1.
MCsocketfd == [m \in Msg |->
                 CASE m = rel -> -1
                   [] m = srv -> 4
                   [] OTHER   -> 3]
=============================================================================
