------------------------------- MODULE Eint ---------------------------------
(***************************************************************************)
(* The expression language of conditions and actions (fsmlib/eint): how    *)
(* instr.c compiles a syntax tree into instructions over a fixed set of    *)
(* registers, and how the instructions are executed, again and again, for  *)
(* the machines of a fsm (fsmlib/fsm_interpr.c).                           *)
(*                                                                         *)
(* A script is its syntax tree, as the sequence of its nodes in the order  *)
(* _instr_compile_ast visits them, children first; the empty sequence is   *)
(* the tree of a text the parser rejects.  Plus and minus stand for the    *)
(* four arithmetic operators, > and >= for the four comparisons: a family  *)
(* has the same rows in cast_rules_table.  Strings are left out.           *)
(*                                                                         *)
(* A value is an integer: an int itself, a bool 0 or 1, a float its number *)
(* of halves, a pointer the node of the call whose memory it points to.    *)
(***************************************************************************)
EXTENDS Integers, Sequences, FiniteSets

CONSTANTS Scripts,  \* the syntax trees
          Symbols,  \* the symbol table, symbols_add_spec and symbol_add_func
          Stores,   \* values of the symbols when an evaluation begins
          MaxRegs,  \* EINT_MAX_REGS
          MaxInstr, \* EINT_MAX_INSTR
          MaxArgs   \* SYMBOL_FUNC_MAX_ARGS

Numeric == {"int", "float"}
Types == {"na", "int", "float", "bool", "ptr"}
Operators == {"plus", "minus", "gt", "ge", "eq", "neq", "and", "or", "not", "umin"}
NodeOps == Operators \cup {"const", "ref", "assign", "call", "list", "stmt"}

\* A register is its number, a variable the cell behind the registers.
Null == 0
Cells == 1..MaxRegs + Len(Symbols)
CellOf(s) == MaxRegs + s
Variables == {s \in DOMAIN Symbols : Symbols[s].kind = "var"}

\* symbol_t; a function's type is that of its answer, and it reads the first needs
\* of the arguments it expects in every call.
SymbolType == [kind : {"noref", "var", "func"}, type : Types,
               stateful : BOOLEAN, expects : Nat, needs : Nat]

\* struct ast_node: v is a constant's value or the symbol, l and r the children.
NodeType == [op : NodeOps, type : Types, v : Int, l : Nat, r : Nat]

\* The productions of the grammar: statements assign, and only statements do;
\* commas are between arguments, or between expressions at the top.
Unary == {"not", "umin"}
Expressions == {"const", "ref", "call"} \cup Operators
Kids(n) == {n.l, n.r} \ {Null}

IsNode(script, k) ==
    LET n == script[k]
        Is(c, ops) == c \in 1..(k - 1) /\ script[c].op \in ops
    IN  /\ n.op \in {"ref", "assign", "call"} => n.v \in DOMAIN Symbols
        /\ \/ n.op = "const" /\ n.type \in {"int", "float", "bool"} /\ n.l = Null /\ n.r = Null
           \/ n.op = "ref" /\ n.l = Null /\ n.r = Null
           \/ n.op \in Unary \cup {"assign"} /\ Is(n.l, Expressions) /\ n.r = Null
           \/ n.op \in Operators \ Unary /\ Is(n.l, Expressions) /\ Is(n.r, Expressions)
           \/ n.op = "call" /\ (n.l = Null \/ Is(n.l, Expressions \cup {"list"})) /\ n.r = Null
           \/ n.op = "list" /\ Is(n.l, Expressions) /\ Is(n.r, Expressions \cup {"list"})
           \/ n.op = "stmt" /\ Is(n.l, {"assign"}) /\ (n.r = Null \/ Is(n.r, {"stmt"}))

\* Node j has its parent among the nodes after it up to k.
HasParent(script, j, k) == \E p \in (j + 1)..k : j \in Kids(script[p])

\* All nodes are under the last one, and those between a node and its child are
\* under the node, too.
IsTree(script) ==
    /\ script \in Seq(NodeType)
    /\ \A k \in DOMAIN script : IsNode(script, k)
    /\ \A j \in 1..Len(script) - 1 : HasParent(script, j, Len(script))
    /\ \A k \in DOMAIN script : \A c \in Kids(script[k]) :
          \A j \in (c + 1)..(k - 1) : HasParent(script, j, k)
    /\ script # <<>> => script[Len(script)].op # "assign"

ASSUME EintAssumption ==
    /\ MaxRegs \in Nat /\ MaxInstr \in Nat /\ MaxArgs \in Nat
    /\ Symbols \in Seq(SymbolType)
    /\ Stores \subseteq [DOMAIN Symbols -> Int]
    /\ \A script \in Scripts : IsTree(script)

VARIABLES ast,    \* ei->ast_root
          phase,  \* what has become of the script
          below,  \* the cells of the expressions (res_reg) at and below each node
                  \* compiled so far, those of a list being collected
          regs,   \* the types of the registers allocated so far
          instrs, \* q->instructions
          mem,    \* the values of the cells
          pc,     \* the instruction to execute, 0 before the first evaluation
          truth,  \* what fsm_ii_exec returned
          start,  \* history: the symbols when the evaluation began
          calls   \* history: the calls of the evaluation

vars == <<ast, phase, below, regs, instrs, mem, pc, truth, start, calls>>

Unread == 2
Phases == {"compiling", "ready", "running", "evaluated", "refused", "crashed"}

\* instr_t: the handler, given by its row, or the function called.
InstrType == [op : NodeOps, tl : Types, tr : Types, sym : Nat, args : Seq(Cells), res : Cells]
CallType == [site : Int, args : Seq(Int), ret : 0..1]

TypeOK ==
    /\ IsTree(ast)
    /\ phase \in Phases
    /\ below \in Seq(Seq(Cells))
    /\ Len(below) <= Len(ast)
    /\ regs \in Seq(Types)
    /\ Len(regs) <= MaxRegs
    /\ instrs \in Seq(InstrType)
    /\ Len(instrs) <= MaxInstr
    /\ mem \in [Cells -> Int]
    /\ pc \in 0..Len(instrs) + 1
    /\ truth \in 0..Unread
    /\ start \in [DOMAIN Symbols -> Int]
    /\ calls \in Seq(CallType)

Init ==
    /\ ast \in Scripts
    /\ phase = "compiling"
    /\ below = <<>> /\ regs = <<>> /\ instrs = <<>>
    /\ start = [s \in DOMAIN Symbols |-> 0]
    /\ mem = [c \in Cells |-> 0]
    /\ pc = 0
    /\ truth = Unread
    /\ calls = <<>>

-----------------------------------------------------------------------------
(* Compiling                                                               *)

Node == ast[Len(below) + 1]
Compiling(ops) == phase = "compiling" /\ Len(below) < Len(ast) /\ Node.op \in ops
Operand(k) == below[k][1]

TypeAt(c) == IF c <= MaxRegs THEN regs[c] ELSE Symbols[c - MaxRegs].type

\* The rows of cast_rules_table.
Row(op, tl, tr, tres) == [op |-> op, tl |-> tl, tr |-> tr, tres |-> tres]
Rules ==
    {Row(op, tl, tr, IF tl = "int" /\ tr = "int" THEN "int" ELSE "float") :
        op \in {"plus", "minus"}, tl \in Numeric, tr \in Numeric}
    \cup {Row(op, tl, tr, "bool") :
        op \in {"gt", "ge", "eq", "neq"}, tl \in Numeric, tr \in Numeric}
    \cup {Row(op, "bool", "bool", "bool") : op \in {"eq", "neq", "and", "or", "assign"}}
    \cup {Row("not", "bool", "na", "bool")}
    \cup {Row("umin", tl, "na", tl) : tl \in Numeric}
    \cup {Row("assign", tl, tr, tl) : tl \in Numeric, tr \in Numeric}

RulesFor(op, tl, tr) == {w \in Rules : w.op = op /\ w.tl = tl /\ w.tr = tr}

\* The script is refused with an error, or a null register is dereferenced; the
\* instance is given up with what it has.
StopWith(p) ==
    /\ phase' = p
    /\ UNCHANGED <<ast, below, regs, instrs, mem, pc, truth, start, calls>>

Instr(op, tl, tr, sym, args, res) ==
    [op |-> op, tl |-> tl, tr |-> tr, sym |-> sym, args |-> args, res |-> res]

\* As if a result took the place of the register allocated last.
LastRegister(rs) == IF rs = <<>> THEN 1 ELSE Len(rs)
ResultRegister(rs) == Len(rs) + 1

RegsFull(rs) == Len(rs) >= MaxRegs

\* The node gets a register of its own and an instruction that computes it, after
\* the registers rs; instr_add_basics looks at the instructions first.
AddComputation(rs, m, type, op, tl, tr, sym, args) ==
    \/ Len(instrs) >= MaxInstr /\ StopWith("refused")
    \/ Len(instrs) < MaxInstr /\ RegsFull(rs) /\ StopWith("crashed")
    \/ /\ Len(instrs) < MaxInstr /\ ~RegsFull(rs)
       /\ regs' = Append(rs, type)
       /\ instrs' = Append(instrs, Instr(op, tl, tr, sym, args, ResultRegister(rs)))
       /\ below' = Append(below, <<ResultRegister(rs)>>)
       /\ mem' = m
       /\ UNCHANGED <<ast, phase, pc, truth, start, calls>>

CompileConst ==
    /\ Compiling({"const"})
    /\ \/ RegsFull(regs) /\ StopWith("crashed")
       \/ /\ ~RegsFull(regs)
          /\ regs' = Append(regs, Node.type)
          /\ mem' = [mem EXCEPT ![Len(regs) + 1] = Node.v]
          /\ below' = Append(below, <<Len(regs) + 1>>)
          /\ UNCHANGED <<ast, phase, instrs, pc, truth, start, calls>>

Operands == IF Node.r = Null THEN <<Operand(Node.l)>>
            ELSE <<Operand(Node.l), Operand(Node.r)>>

CompileOperator ==
    /\ Compiling(Operators)
    /\ LET tl == TypeAt(Operand(Node.l))
           tr == IF Node.r = Null THEN "na" ELSE TypeAt(Operand(Node.r))
       IN  \/ RulesFor(Node.op, tl, tr) = {} /\ StopWith("refused")
           \/ \E w \in RulesFor(Node.op, tl, tr) :
                 AddComputation(regs, mem, w.tres, Node.op, tl, tr, 0, Operands)

\* Commas and statements produce nothing; instr_collect_args_list walks through
\* commas later, and finds the cells from left to right.
CompileFlow ==
    /\ Compiling({"list", "stmt"})
    /\ below' = Append(below, IF Node.op = "stmt" \/ Node.r = Null THEN <<>>
                              ELSE below[Node.l] \o below[Node.r])
    /\ UNCHANGED <<ast, phase, regs, instrs, mem, pc, truth, start, calls>>

CompileReference ==
    /\ Compiling({"ref"})
    /\ \/ Node.v \notin Variables /\ StopWith("refused")
       \/ /\ Node.v \in Variables
          /\ below' = Append(below, <<CellOf(Node.v)>>)
          /\ UNCHANGED <<ast, phase, regs, instrs, mem, pc, truth, start, calls>>

CompileAssignment ==
    /\ Compiling({"assign"})
    /\ LET tl == Symbols[Node.v].type
           tr == TypeAt(Operand(Node.l))
           fine == /\ Node.v \in Variables
                   /\ RulesFor("assign", tl, tr) # {}
                   /\ Len(instrs) < MaxInstr
       IN  \/ ~fine /\ StopWith("refused")
           \/ /\ fine
              /\ instrs' = Append(instrs, Instr("assign", tl, tr, 0, Operands, CellOf(Node.v)))
              /\ below' = Append(below, <<CellOf(Node.v)>>)
              /\ UNCHANGED <<ast, phase, regs, mem, pc, truth, start, calls>>

\* The registers of a call before its result: a pointer to its own memory.
RegsWithHandle(f) == IF f.stateful THEN Append(regs, "ptr") ELSE regs
SiteMemory == Len(below) + 1

\* As if the handle were one of the arguments the function expects.
TooManyCountingHandle(f, handle, given) ==
    Len(handle \o given) > MaxArgs \/ Len(handle \o given) > f.expects
TooMany(f, handle, given) == Len(handle \o given) > MaxArgs \/ Len(given) > f.expects

CompileCall ==
    /\ Compiling({"call"})
    /\ LET f      == Symbols[Node.v]
           given  == IF Node.l = Null THEN <<>> ELSE below[Node.l]
           rs     == RegsWithHandle(f)
           handle == IF f.stateful THEN <<Len(rs)>> ELSE <<>>
           m      == IF f.stateful THEN [mem EXCEPT ![Len(rs)] = SiteMemory] ELSE mem
       IN  \/ f.kind # "func" /\ StopWith("refused")
           \/ f.kind = "func" /\ f.stateful /\ RegsFull(regs) /\ StopWith("crashed")
           \/ /\ f.kind = "func" /\ ~(f.stateful /\ RegsFull(regs))
              /\ \/ TooMany(f, handle, given) /\ StopWith("refused")
                 \/ /\ ~TooMany(f, handle, given)
                    /\ AddComputation(rs, m, f.type, "call", "na", "na", Node.v,
                                      handle \o given)

\* instr_compile_ast descends into the tree without looking whether there is one.
CompileNothing ==
    /\ phase = "compiling" /\ ast = <<>>
    /\ StopWith("crashed")

\* q->res_reg_ref, set when all nodes are compiled.
Result == IF instrs # <<>> THEN instrs[Len(instrs)].res
          ELSE IF ast[Len(ast)].op = "list" THEN Null
          ELSE Operand(Len(ast))

CompileDone ==
    /\ phase = "compiling" /\ ast # <<>> /\ Len(below) = Len(ast)
    /\ phase' = "ready"
    /\ UNCHANGED <<ast, below, regs, instrs, mem, pc, truth, start, calls>>

-----------------------------------------------------------------------------
(* Executing                                                               *)

\* An execution of the fsm has taken over its inputs and comes to the script.
Begin ==
    /\ phase \in {"ready", "evaluated"}
    /\ start' \in Stores
    /\ mem' = [c \in Cells |-> IF c > MaxRegs THEN start'[c - MaxRegs] ELSE mem[c]]
    /\ phase' = "running"
    /\ pc' = 1
    /\ truth' = Unread
    /\ calls' = <<>>
    /\ UNCHANGED <<ast, below, regs, instrs>>

Bit(b) == IF b THEN 1 ELSE 0
Halves(t, v) == IF t = "int" THEN 2 * v ELSE v
Truncated(h) == IF h >= 0 THEN h \div 2 ELSE -((-h) \div 2)

\* C's conversion of a number to a double when one operand is a double.
Promoted(t, other, v) == IF "float" \in {t, other} THEN Halves(t, v) ELSE v

\* The handlers: x and y are what the operands' cells hold.
Handler(i, x, y) ==
    LET a == Promoted(i.tl, i.tr, x)
        b == Promoted(i.tr, i.tl, y)
    IN  CASE i.op = "plus"   -> a + b
          [] i.op = "minus"  -> a - b
          [] i.op = "gt"     -> Bit(a > b)
          [] i.op = "ge"     -> Bit(a >= b)
          [] i.op = "eq"     -> Bit(a = b)
          [] i.op = "neq"    -> Bit(a # b)
          [] i.op = "and"    -> Bit(x # 0 /\ y # 0)
          [] i.op = "or"     -> Bit(x # 0 \/ y # 0)
          [] i.op = "not"    -> Bit(x = 0)
          [] i.op = "umin"   -> -x
          [] i.op = "assign" -> IF i.tl = i.tr THEN x
                                ELSE IF i.tl = "float" THEN 2 * x ELSE Truncated(x)

Executing == phase = "running" /\ pc <= Len(instrs)

ExecuteHandler ==
    /\ Executing /\ instrs[pc].op # "call"
    /\ LET i == instrs[pc]
           x == mem[i.args[1]]
           y == IF Len(i.args) = 2 THEN mem[i.args[2]] ELSE 0
       IN  mem' = [mem EXCEPT ![i.res] = Handler(i, x, y)]
    /\ pc' = pc + 1
    /\ UNCHANGED <<ast, phase, below, regs, instrs, truth, start, calls>>

\* A function of the host (timeout, trueduring: their clocks are in Fsm) gets its
\* memory and its arguments and answers a bool.  It may read any argument it
\* expects, and reads the first f.needs of them in every call; an argument that
\* was not given is a null pointer.
ExecuteCall ==
    /\ Executing /\ instrs[pc].op = "call"
    /\ LET i     == instrs[pc]
           f     == Symbols[i.sym]
           given == SubSeq(i.args, 1 + Bit(f.stateful), Len(i.args))
           call(ret) == [site |-> IF f.stateful THEN mem[i.args[1]] ELSE 0,
                         args |-> [k \in DOMAIN given |->
                                      Halves(TypeAt(given[k]), mem[given[k]])],
                         ret  |-> ret]
       IN  \/ Len(given) < f.expects /\ StopWith("crashed")
           \/ /\ Len(given) >= f.needs
              /\ \E ret \in 0..1 : /\ mem' = [mem EXCEPT ![i.res] = ret]
                                   /\ calls' = Append(calls, call(ret))
              /\ pc' = pc + 1
              /\ UNCHANGED <<ast, phase, below, regs, instrs, truth, start>>

\* The first word of the result's union.  That of a float is the low word of a
\* double, and 0 if the float has few digits, as all that are modelled.
AsBool(c) == IF TypeAt(c) = "float" THEN 0 ELSE Bit(mem[c] # 0)

Evaluated == phase = "running" /\ pc > Len(instrs)

FinishCondition ==
    /\ Evaluated
    /\ \/ Result = Null /\ StopWith("crashed")
       \/ /\ Result # Null
          /\ truth' = AsBool(Result)
          /\ phase' = "evaluated"
          /\ UNCHANGED <<ast, below, regs, instrs, mem, pc, start, calls>>

FinishAction ==
    /\ Evaluated
    /\ phase' = "evaluated"
    /\ UNCHANGED <<ast, below, regs, instrs, mem, pc, truth, start, calls>>

Compile == \/ CompileConst \/ CompileOperator \/ CompileFlow \/ CompileReference
           \/ CompileAssignment \/ CompileCall \/ CompileNothing \/ CompileDone
Execute == ExecuteHandler \/ ExecuteCall \/ FinishCondition \/ FinishAction
Next == Compile \/ Begin \/ Execute

Spec == Init /\ [][Next]_vars

-----------------------------------------------------------------------------
(* What a script means, told from its tree alone.  Numbers are compared as *)
(* halves whatever their type, and bools as the ints they are kept in      *)
(* (boolval_t), of which 0 is false; the symbols change from assignment to *)
(* assignment; a call answers what it answered.                            *)

\* The arguments under a node, told recursively.
Leaves(a) ==
    LET under[k \in 0..Len(a)] ==
            IF k = Null THEN <<>>
            ELSE IF a[k].op = "list" THEN under[a[k].l] \o under[a[k].r]
            ELSE <<k>>
    IN  under

\* The value of the node after those that have one, and what it does: p is what
\* became of the nodes before it, val their values, asked the calls they made and
\* store the symbols as they left them; cs are the calls of the evaluation.
ValueOf(n, p, cs) ==
    LET x == p.val[n.l]
        y == p.val[n.r]
    IN  CASE n.op = "const"  -> Halves(n.type, n.v)
          [] n.op = "ref"    -> p.store[n.v]
          [] n.op = "call"   -> Halves(Symbols[n.v].type, cs[Len(p.asked) + 1].ret)
          [] n.op = "plus"   -> x + y
          [] n.op = "minus"  -> x - y
          [] n.op = "umin"   -> -x
          [] n.op = "gt"     -> Bit(x > y)
          [] n.op = "ge"     -> Bit(x > y \/ x = y)
          [] n.op = "eq"     -> Bit(x = y)
          [] n.op = "neq"    -> 1 - Bit(x = y)
          [] n.op = "and"    -> IF x = 0 THEN 0 ELSE Bit(y # 0)
          [] n.op = "or"     -> IF x = 0 THEN Bit(y # 0) ELSE 1
          [] n.op = "not"    -> 1 - Bit(x # 0)
          [] n.op = "assign" -> IF Symbols[n.v].type = "int" THEN 2 * Truncated(x) ELSE x
          [] OTHER           -> 0

AskedBy(a, k, p) ==
    LET given == Leaves(a)[a[k].l]
    IN  [site |-> IF Symbols[a[k].v].stateful THEN k ELSE 0,
         args |-> [i \in DOMAIN given |-> p.val[given[i]]]]

AfterNode(a, k, p, cs) ==
    LET n == a[k]
        value == ValueOf(n, p, cs)
    IN  [val   |-> Append(p.val, value),
         asked |-> IF n.op = "call" THEN Append(p.asked, AskedBy(a, k, p)) ELSE p.asked,
         store |-> IF n.op = "assign" THEN [p.store EXCEPT ![n.v] = value] ELSE p.store]

BeforeAll(st) ==
    [val |-> <<>>, asked |-> <<>>,
     store |-> [s \in DOMAIN Symbols |-> Halves(Symbols[s].type, st[s])]]

\* What became of the first nodes, from the symbols st on.
Told(a, st, cs) ==
    LET after[k \in 0..Len(a)] ==
            IF k = 0 THEN BeforeAll(st)
            ELSE LET p == after[k - 1] IN AfterNode(a, k, p, cs)
    IN  after

Meaning == Told(ast, start, calls)[Len(ast)]

IsExpression == ast[Len(ast)].op \notin {"list", "stmt"}

\* However often a compiled script is evaluated, and whatever the symbols hold,
\* its result, the symbols afterwards and the memory and the arguments every
\* function got are those its text says (instr_compile's registers,
\* instr_queue_exec); a condition that is a bool or an int is what was read as it.
EvaluatesAsWritten ==
    phase = "evaluated" =>
        LET type == TypeAt(Result)
            meaning == Meaning
        IN
        /\ \A s \in Variables : Halves(Symbols[s].type, mem[CellOf(s)]) = meaning.store[s]
        /\ meaning.asked = [i \in DOMAIN calls |->
                               [site |-> calls[i].site, args |-> calls[i].args]]
        /\ IsExpression =>
              /\ Halves(type, mem[Result]) = meaning.val[Len(ast)]
              /\ truth # Unread /\ type # "float" => truth = Bit(meaning.val[Len(ast)] # 0)

\* Types told from the tree alone, of a node from those of its children; "ill" is the
\* type of what makes no sense.
TypeTold(a, n, tl, tr) ==
    LET numbers == {tl, tr} \subseteq Numeric
        bools == {tl, tr} = {"bool"}
        as(fits, t) == IF fits THEN t ELSE "ill"
    IN  CASE n.op = "const" -> n.type
          [] n.op = "ref" -> as(n.v \in Variables, Symbols[n.v].type)
          [] n.op \in {"plus", "minus"} ->
                as(numbers, IF "float" \in {tl, tr} THEN "float" ELSE "int")
          [] n.op = "umin" -> as(tl \in Numeric, tl)
          [] n.op = "not" -> as(tl = "bool", "bool")
          [] n.op \in {"and", "or"} -> as(bools, "bool")
          [] n.op \in {"gt", "ge"} -> as(numbers, "bool")
          [] n.op \in {"eq", "neq"} -> as(numbers \/ bools, "bool")
          [] n.op = "assign" ->
                LET target == Symbols[n.v].type
                    fits == {tl, target} = {"bool"} \/ {tl, target} \subseteq Numeric
                IN  as(n.v \in Variables /\ fits, target)
          [] n.op = "call" ->
                as(/\ Symbols[n.v].kind = "func"
                   /\ Len(Leaves(a)[n.l]) <= Symbols[n.v].expects, Symbols[n.v].type)
          [] OTHER -> "na"

StaticType(a) ==
    LET type[k \in 0..Len(a)] ==
            IF k = Null THEN "na" ELSE TypeTold(a, a[k], type[a[k].l], type[a[k].r])
    IN  type

MakesSense == LET type == StaticType(ast) IN \A k \in DOMAIN ast : type[k] # "ill"

Nodes(ops) == {k \in DOMAIN ast : ast[k].op \in ops}
StatefulCalls == {k \in Nodes({"call"}) : Symbols[ast[k].v].stateful}
RegsNeeded == Cardinality(Nodes({"const", "call"} \cup Operators)) + Cardinality(StatefulCalls)
InstrsNeeded == Cardinality(Nodes({"assign", "call"} \cup Operators))
ArgsNeeded == {Len(Leaves(ast)[ast[k].l]) + Bit(Symbols[ast[k].v].stateful) : k \in Nodes({"call"})}

\* A script is refused only if it makes no sense or is too long, is accepted only
\* if it makes sense and all of it has found its place, and brings the program
\* down only when it has no tree or too many registers, when a function lacks an
\* argument, or when there is nothing to be read as the condition.
OutcomeIsDeserved ==
    /\ phase = "refused" =>
          \/ ~MakesSense \/ InstrsNeeded > MaxInstr \/ \E a \in ArgsNeeded : a > MaxArgs
    /\ phase \in {"ready", "running", "evaluated"} =>
          /\ MakesSense
          /\ Len(regs) = RegsNeeded
          /\ Len(instrs) = InstrsNeeded
          /\ \A a \in ArgsNeeded : a <= MaxArgs
    /\ phase = "crashed" /\ pc = 0 => ast = <<>> \/ RegsNeeded > MaxRegs
    /\ phase = "crashed" /\ pc > 0 =>
          \/ \E k \in Nodes({"call"}) : Len(Leaves(ast)[ast[k].l]) < Symbols[ast[k].v].expects
          \/ ~IsExpression

\* Within an evaluation values only flow forward: a register is written by one
\* instruction at most, before any instruction reads it.  This is why nothing of
\* an earlier evaluation is left in the next one (allocate_register).
RegistersFlowForward ==
    \A i, j \in DOMAIN instrs : instrs[i].res <= MaxRegs =>
        /\ instrs[i].res = instrs[j].res => i = j
        /\ \A a \in DOMAIN instrs[j].args : instrs[j].args[a] = instrs[i].res => i < j
=============================================================================
