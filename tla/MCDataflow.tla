----------------------------- MODULE MCDataflow -----------------------------
(***************************************************************************)
(* Dataflow on a system shaped like tests/mvp/mvp_swsys.xml: gen is a      *)
(* timer-driven flow with a feedback loop between two functions and two    *)
(* output bridges, mode an fsm clocked by gen's first output, cont a flow  *)
(* clocked by it too that reads mode's output before gen's.                *)
(***************************************************************************)
EXTENDS Dataflow, SequencesExt

CONSTANTS gen, mod, cont, prop, norm, o1, o2, m1, im1, isig, out

Op(kind, x) == [kind |-> kind, topic |-> x]

\* One call: its reads, then its writes.
CallOf(ins, outs) ==
    <<Op("call", NoTopic)>>
        \o [i \in DOMAIN ins |-> Op("read", ins[i])]
        \o [i \in DOMAIN outs |-> Op("write", outs[i])]

GenFlow == CallOf(<<norm>>, <<prop>>) \o CallOf(<<prop>>, <<norm>>)
             \o CallOf(<<prop>>, <<o1>>) \o CallOf(<<norm>>, <<o2>>)
ModeFsm == CallOf(<<o1, o2>>, <<m1>>)
ContFlow == CallOf(<<m1>>, <<im1>>) \o CallOf(<<o1>>, <<isig>>)
             \o CallOf(<<im1, isig>>, <<out>>)

MCTasks == {gen, mod, cont}
MCTopics == {prop, norm, o1, o2, m1, im1, isig, out}
MCProg == (gen :> GenFlow) @@ (mod :> ModeFsm) @@ (cont :> ContFlow)
MCClock == (gen :> NoTopic) @@ (mod :> o1) @@ (cont :> o1)
=============================================================================
