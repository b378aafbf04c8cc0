------------------------------ MODULE MCEint --------------------------------
(***************************************************************************)
(* Eint for the scripts up to three levels deep over one int, one float,   *)
(* one bool, a name that nothing defines, and the functions the fsm adds.  *)
(***************************************************************************)
EXTENDS Eint

Symbol(kind, type, stateful, expects, needs) ==
    [kind |-> kind, type |-> type, stateful |-> stateful, expects |-> expects, needs |-> needs]

MCSymbols == <<Symbol("var", "int", FALSE, 0, 0), Symbol("var", "float", FALSE, 0, 0),
               Symbol("var", "bool", FALSE, 0, 0), Symbol("noref", "na", FALSE, 0, 0),
               Symbol("func", "bool", TRUE, 1, 1), Symbol("func", "bool", TRUE, 2, 1)>>
timeout == 5
trueduring == 6

\* A bool topic is an int32 (fsminst.c:255), and true may be 2.
MCStores == {<<n, x, b, 0, 0, 0>> : n \in {-1, 2}, x \in {-3, 4}, b \in {0, 2}}

Leaf(op, type, v) == <<[op |-> op, type |-> type, v |-> v, l |-> 0, r |-> 0]>>
Moved(k, d) == IF k = 0 THEN 0 ELSE k + d
Shifted(s, d) == [i \in DOMAIN s |-> [s[i] EXCEPT !.l = Moved(@, d), !.r = Moved(@, d)]]
Tree(op, v, L, R) ==
    L \o Shifted(R, Len(L))
      \o <<[op |-> op, type |-> "na", v |-> v, l |-> Len(L),
            r |-> IF R = <<>> THEN 0 ELSE Len(L) + Len(R)]>>

Consts == {Leaf("const", "bool", 1), Leaf("const", "int", 2), Leaf("const", "float", 3)}
Refs == {Leaf("ref", "na", s) : s \in 1..3}
Atoms == Consts \cup Refs \cup {Leaf("ref", "na", 4), Leaf("ref", "na", timeout)}
Two(ops, Ls, Rs) == {Tree(op, 0, L, R) : op \in ops, L \in Ls, R \in Rs}

One == Two({"not", "umin"}, Atoms, {<<>>})
           \cup Two(Operators \ {"not", "umin"}, Atoms, Atoms)
Some == Two({"plus", "gt"}, {Leaf("const", "int", 2), Leaf("ref", "na", 1)},
                            {Leaf("const", "float", 3), Leaf("ref", "na", 2)})
            \cup Two({"not"}, {Leaf("ref", "na", 3)}, {<<>>})
Twice == Two({"minus", "eq", "or"}, Some, Some \cup Refs) \cup Two({"ge", "and"}, Refs, Some)
Thrice == Two({"or", "eq"}, Two({"ge"}, Some, {Leaf("ref", "na", 1)}), Two({"ge", "and"}, Refs, Some))

Call(f, args) == Tree("call", f, args, <<>>)
Arg == Refs \cup Consts \cup Two({"gt"}, {Leaf("ref", "na", 1)}, {Leaf("const", "int", 2)})
Args2 == Two({"list"}, Arg, Arg)
Args3 == Two({"list"}, Refs, Two({"list"}, Refs, Refs))
Calls == {Call(f, a) : f \in {3, timeout, trueduring}, a \in {<<>>} \cup Arg \cup Args2 \cup Args3}
Waits == {Call(timeout, Leaf("ref", "na", 2)), Call(timeout, Leaf("const", "float", 3))}
Conditions == Two({"and"}, Waits, Waits \cup Refs) \cup Two({"not"}, Waits, {<<>>})

Assignments == {Tree("assign", s, e, <<>>) :
                   s \in 1..5, e \in Consts \cup Refs \cup Some \cup Waits}
Copies == {Tree("assign", s, e, <<>>) : s \in 1..2, e \in Some \cup Refs}
Statement(first, rest) == Tree("stmt", 0, first, rest)
Statements == {Statement(a, <<>>) : a \in Assignments}
    \cup {Statement(a, Statement(b, <<>>)) : a, b \in Copies}
    \cup {Statement(a, Statement(a, Statement(b, Statement(b, <<>>)))) :
             a, b \in {Tree("assign", s, e, <<>>) : s \in 1..2, e \in Refs}}

MCScripts == {<<>>} \cup Atoms \cup One \cup Twice \cup Thrice \cup Calls \cup Conditions
                 \cup Statements \cup Two({"list"}, Consts, Consts \cup Some)
=============================================================================
