----------------------------- MODULE MCStartup ------------------------------
(***************************************************************************)
(* Startup with the tasks of a small system in every order: a flow, a      *)
(* machine clocked by what it produces, a bridge, whose topic the flow     *)
(* reads, and an ibr that sends it out; and variants of it, sound ones and *)
(* ones with a fault: a second producer, no producer, a clock nobody sets, *)
(* a name no function has, a func source of another's topic.               *)
(***************************************************************************)
EXTENDS Startup, TLC

TopicNames == {"a", "b", "c", "d"}

Sound == [type |-> <<"flow", "fsm", "ebr", "ibr">>,
          clk |-> <<"none", "a", "none", "none">>,
          outs |-> <<{"a"}, {"b"}, {"c"}, {}>>,
          ins |-> <<{"c"}, {"a"}, {"b"}, {"c"}>>,
          strays |-> <<{}, {}, {}, {}>>,
          source |-> <<"udp", "udp", "udp", "func_br">>]

TwoProducers == [Sound EXCEPT !.outs[2] = {"a", "b"}]
NoProducer == [Sound EXCEPT !.outs[1] = {}]
StrayClock == [Sound EXCEPT !.clk[1] = "d"]
BridgeOfTwo == [Sound EXCEPT !.ins[4] = {"b", "c"}, !.clk[4] = "a"]
UdpSource == [Sound EXCEPT !.ins[4] = {}, !.source[4] = "udp"]
\* Nobody produces d, and nobody misses it.
StrayInput == [Sound EXCEPT !.ins[1] = {"c", "d"}, !.strays[1] = {"d"}]
StrayOutput == [Sound EXCEPT !.strays[1] = {"a"}]
FuncOfAnother == [Sound EXCEPT !.source[4] = "func"]
\* The machine reads d, which is there if the ibr comes before it.
FuncOfItsOwn == [Sound EXCEPT !.source[4] = "func", !.ins[4] = {"d"}, !.ins[2] = {"a", "d"}]

\* The configuration with its tasks in another order.
Reordered(c, p) ==
    [f \in DOMAIN c |-> [t \in 1..4 |-> c[f][p[t]]]]

AllOrders(cs) == {Reordered(c, p) : c \in cs, p \in Permutations(1..4)}

Configurations ==
    AllOrders({Sound, TwoProducers, NoProducer, StrayClock, BridgeOfTwo, UdpSource,
               StrayInput, StrayOutput, FuncOfAnother, FuncOfItsOwn})
=============================================================================
