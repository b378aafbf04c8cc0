------------------------------- MODULE MCIbr -------------------------------
(***************************************************************************)
(* Three processes: between sockets, or bridges that share a pool of two,   *)
(* for one of which the bus may forget an update.                          *)
(***************************************************************************)
EXTENDS IbrProcess

CONSTANTS x, y

F(name, width) == [name |-> name, width |-> width]
Topic(kind, width) == [kind |-> kind, width |-> width]

Udp == [src |-> "udp", srcAny |-> TRUE, dst |-> "udp", dstAny |-> FALSE,
        msg |-> <<F(x, 1), F(y, 2)>>]
BridgeTo(msg) == [src |-> "func_br", srcAny |-> FALSE, dst |-> "udp", dstAny |-> FALSE,
                  msg |-> msg]

\* All ways in which two topics meet a message of two fields.
Busses == {[n \in Names |-> IF n = x THEN s ELSE t] :
              s \in {Topic("none", 1), Topic("value", 1), Topic("value", 3), Topic("other", 1)},
              t \in {Topic("none", 1), Topic("value", 1), Topic("value", 2), Topic("value", 3)}}

Good == [n \in Names |-> Topic("value", 1)]

Idle == [Udp EXCEPT !.srcAny = FALSE, !.dst = "func"]

MCSetups ==
    {[proc |-> <<Udp, Idle, Idle>>, topic |-> Good],
     [proc |-> <<[Udp EXCEPT !.dstAny = TRUE], BridgeTo(<<F(y, 1)>>), Idle>>, topic |-> Good],
     [proc |-> <<Udp, [Udp EXCEPT !.msg = <<F(x, 1), F(x, 1)>>], Idle>>, topic |-> Good],
     [proc |-> <<BridgeTo(<<F(x, 1)>>), BridgeTo(<<F(y, 1), F(x, 1)>>), Idle>>, topic |-> Good],
     [proc |-> <<Idle, BridgeTo(<<F(y, 0), F(x, 1)>>), Idle>>, topic |-> Good],
     [proc |-> <<BridgeTo(<<F(x, 1)>>), BridgeTo(<<F(y, 1)>>), BridgeTo(<<F(x, 1)>>)>>, topic |-> Good]}
      \cup
    {[proc |-> <<Idle, BridgeTo(<<F(x, 1), F(y, 2)>>), Idle>>, topic |-> b] : b \in Busses}
=============================================================================
