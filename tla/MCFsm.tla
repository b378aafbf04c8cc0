------------------------------- MODULE MCFsm --------------------------------
(***************************************************************************)
(* Fsm on two top-level machines: ctl, whose state run hosts the machine   *)
(* sub and whose "_end_" has a transition configured, and led, whose state  *)
(* on has a timeout and, before it in the list, a transition back to on.    *)
(***************************************************************************)
EXTENDS Fsm, TLC

CONSTANTS ctl, sub, led,                      \* machines
          cB, idle, run, cE, sB, s1, s2, sE, lB, on, off, lE,   \* states
          go, ok,                             \* inputs
          t1, t2, t3, t4, t5, t6, t7, t8, t9, ta, tb   \* transitions

Symbol(i) == [kind |-> "symbol", on |-> i, for |-> 0]
Timeout(d) == [kind |-> "timeout", on |-> go, for |-> d]
TrueDuring(i, d) == [kind |-> "trueduring", on |-> i, for |-> d]

MCMachines == {ctl, sub, led}
MCRoots == <<ctl, led>>
MCStates == {cB, idle, run, cE, sB, s1, s2, sE, lB, on, off, lE}
MCInputs == {go, ok}
MCTransitions == {t1, t2, t3, t4, t5, t6, t7, t8, t9, ta, tb}
MCOwner == [s \in MCStates |-> IF s \in {cB, idle, run, cE} THEN ctl
                              ELSE IF s \in {sB, s1, s2, sE} THEN sub ELSE led]
MCBegin == (ctl :> cB) @@ (sub :> sB) @@ (led :> lB)
MCEnd == (ctl :> cE) @@ (sub :> sE) @@ (led :> lE)
MCNested == [s \in MCStates |-> IF s = run THEN sub ELSE NoMachine]
Lists == (cB :> <<t1>>) @@ (idle :> <<t2>>) @@ (run :> <<t3, t4>>) @@ (cE :> <<t5>>)
           @@ (sB :> <<t6>>) @@ (s1 :> <<t7>>) @@ (s2 :> <<t8>>)
           @@ (lB :> <<t9>>) @@ (on :> <<ta, tb>>)
MCTrans == [s \in MCStates |-> IF s \in DOMAIN Lists THEN Lists[s] ELSE <<>>]
MCTo == (t1 :> idle) @@ (t2 :> run) @@ (t3 :> cE) @@ (t4 :> idle) @@ (t5 :> idle)
          @@ (t6 :> s1) @@ (t7 :> s2) @@ (t8 :> s1) @@ (t9 :> on) @@ (ta :> on) @@ (tb :> off)
MCCond == (t1 :> Symbol(go)) @@ (t2 :> Symbol(ok)) @@ (t3 :> TrueDuring(ok, 2))
            @@ (t4 :> Timeout(2)) @@ (t5 :> Symbol(go))
            @@ (t6 :> Symbol(go)) @@ (t7 :> TrueDuring(go, 2)) @@ (t8 :> Timeout(1))
            @@ (t9 :> Timeout(1)) @@ (ta :> Symbol(ok)) @@ (tb :> Timeout(2))
=============================================================================
