----------------------------- MODULE EintProofs -----------------------------
(***************************************************************************)
(* Proofs about Eint for every script, symbol table and size of the        *)
(* register and instruction queues.                                        *)
(***************************************************************************)
EXTENDS Eint, FiniteSetTheorems, WellFoundedInduction, TLAPS

VariableCells == MaxRegs + 1..MaxRegs + Len(Symbols)

\* A register that is allocated, or a variable.
LiveOver(rs, c) == c \in 1..Len(rs) \/ c \in VariableCells

\* What instr_compile has returned is there to be read by what it compiles next.
BelowInv ==
    \A k \in DOMAIN below :
        /\ \A i \in DOMAIN below[k] : LiveOver(regs, below[k][i])
        /\ ast[k].op \notin {"list", "stmt"} => below[k] # <<>>

InstrInv ==
    \A j \in DOMAIN instrs :
        /\ LiveOver(regs, instrs[j].res)
        /\ \A a \in DOMAIN instrs[j].args : LiveOver(regs, instrs[j].args[a])
        /\ instrs[j].op = "call" =>
              /\ instrs[j].sym \in DOMAIN Symbols
              /\ Symbols[instrs[j].sym].stateful => instrs[j].args # <<>>
        /\ instrs[j].op # "call" =>
              /\ instrs[j].op \in Operators \cup {"assign"}
              /\ instrs[j].args # <<>>

IInv ==
    /\ TypeOK
    /\ BelowInv
    /\ InstrInv
    /\ RegistersFlowForward
    /\ phase = "running" => pc # 0

-----------------------------------------------------------------------------
LEMMA AppendFacts ==
    ASSUME NEW S, NEW s \in Seq(S), NEW e \in S
    PROVE  /\ Append(s, e) \in Seq(S)
           /\ Len(s) \in Nat /\ Len(Append(s, e)) = Len(s) + 1
           /\ DOMAIN s = 1..Len(s) /\ DOMAIN Append(s, e) = 1..Len(s) + 1
           /\ \A k \in DOMAIN s : Append(s, e)[k] = s[k]
           /\ Append(s, e)[Len(s) + 1] = e
OBVIOUS

LEMMA SymbolFacts ==
    /\ Len(Symbols) \in Nat
    /\ DOMAIN Symbols = 1..Len(Symbols)
    /\ \A s \in DOMAIN Symbols : Symbols[s] \in SymbolType
    /\ VariableCells \subseteq Cells
    /\ \A s \in DOMAIN Symbols : CellOf(s) \in VariableCells
<1>1. Symbols \in Seq(SymbolType)
  BY EintAssumption
<1>2. Len(Symbols) \in Nat /\ DOMAIN Symbols = 1..Len(Symbols)
  BY <1>1
<1>3. \A s \in DOMAIN Symbols : Symbols[s] \in SymbolType
  BY <1>1
<1>4. VariableCells \subseteq Cells /\ \A s \in DOMAIN Symbols : CellOf(s) \in VariableCells
  BY <1>2, EintAssumption DEF VariableCells, Cells, CellOf
<1> QED
  BY <1>2, <1>3, <1>4

\* Every row of the table is of an operator or the assignment, and has a type.
LEMMA RuleFacts ==
    \A w \in Rules : w.tres \in Types
BY DEF Rules, Row, Types, Numeric

LEMMA LiveIsCell ==
    ASSUME NEW rs \in Seq(Types), Len(rs) <= MaxRegs, NEW c, LiveOver(rs, c)
    PROVE  c \in Cells
BY SymbolFacts, EintAssumption DEF LiveOver, Cells, VariableCells

\* The type of what is live is a type.
LEMMA TypeAtType ==
    ASSUME TypeOK, NEW c, LiveOver(regs, c)
    PROVE  TypeAt(c) \in Types
<1>1. CASE c \in 1..Len(regs)
  BY <1>1, EintAssumption DEF TypeAt, TypeOK
<1>2. CASE c \in VariableCells
  <2>1. ~(c <= MaxRegs) /\ c - MaxRegs \in DOMAIN Symbols
    BY <1>2, SymbolFacts, EintAssumption DEF VariableCells
  <2> QED
    BY <2>1, SymbolFacts DEF TypeAt, SymbolType
<1> QED
  BY <1>1, <1>2 DEF LiveOver

LEMMA HandlerType ==
    ASSUME NEW i, i.op \in Operators \cup {"assign"}, NEW x \in Int, NEW y \in Int
    PROVE  Handler(i, x, y) \in Int
<1>1. \A t, o : \A v \in Int : Promoted(t, o, v) \in Int
  BY DEF Promoted, Halves
<1>2. \A v \in Int : Truncated(v) \in Int
  BY DEF Truncated
<1> DEFINE a == Promoted(i.tl, i.tr, x)
           b == Promoted(i.tr, i.tl, y)
<1>4. a \in Int /\ b \in Int
  BY <1>1
<1> HIDE DEF a, b
<1>5. Handler(i, x, y) =
        CASE i.op = "plus"   -> a + b
          [] i.op = "minus"  -> a - b
          [] i.op = "gt"     -> Bit(a > b)
          [] i.op = "ge"     -> Bit(a >= b)
          [] i.op = "eq"     -> Bit(a = b)
          [] i.op = "neq"    -> Bit(a # b)
          [] i.op = "and"    -> Bit(x # 0 /\ y # 0)
          [] i.op = "or"     -> Bit(x # 0 \/ y # 0)
          [] i.op = "not"    -> Bit(x = 0)
          [] i.op = "umin"   -> -x
          [] i.op = "assign" -> IF i.tl = i.tr THEN x
                                ELSE IF i.tl = "float" THEN 2 * x ELSE Truncated(x)
  BY DEF Handler, a, b
<1>6. Bit(a > b) \in Int /\ Bit(a >= b) \in Int /\ Bit(a = b) \in Int /\ Bit(a # b) \in Int
  BY DEF Bit
<1>7. Bit(x # 0 /\ y # 0) \in Int /\ Bit(x # 0 \/ y # 0) \in Int /\ Bit(x = 0) \in Int
  BY DEF Bit
<1>8. a + b \in Int /\ a - b \in Int /\ -x \in Int /\ 2 * x \in Int /\ Truncated(x) \in Int
  BY <1>2, <1>4
<1> QED
  BY <1>5, <1>6, <1>7, <1>8 DEF Operators

-----------------------------------------------------------------------------
LEMMA InitInv == Init => IInv
<1> SUFFICES ASSUME Init PROVE IInv
  OBVIOUS
<1>1. IsTree(ast)
  BY EintAssumption DEF Init
<1>2. mem \in [Cells -> Int] /\ start \in [DOMAIN Symbols -> Int]
  BY DEF Init
<1>3. TypeOK
  BY <1>1, <1>2, EintAssumption DEF Init, TypeOK, IsTree, Phases, Unread
<1> QED
  BY <1>3 DEF Init, IInv, BelowInv, InstrInv, RegistersFlowForward

LEMMA StopKeeps ==
    ASSUME IInv, NEW p \in Phases \ {"running"}, StopWith(p)
    PROVE  IInv'
BY DEF IInv, TypeOK, BelowInv, InstrInv, RegistersFlowForward, StopWith, LiveOver,
       VariableCells

\* What was live stays live when registers are added.
LEMMA LiveGrows ==
    ASSUME NEW rs \in Seq(Types), NEW more \in Seq(Types), Len(rs) <= Len(more),
           NEW c, LiveOver(rs, c)
    PROVE  LiveOver(more, c)
BY DEF LiveOver

\* Appending a node's cells to below.
LEMMA BelowGrows ==
    ASSUME IInv, phase = "compiling", Len(below) < Len(ast),
           NEW cells \in Seq(Cells),
           regs' \in Seq(Types), Len(regs) <= Len(regs'), ast' = ast,
           \A i \in DOMAIN cells : LiveOver(regs', cells[i]),
           Node.op \notin {"list", "stmt"} => cells # <<>>,
           below' = Append(below, cells)
    PROVE  BelowInv' /\ below' \in Seq(Seq(Cells)) /\ Len(below') <= Len(ast)
<1>1. below \in Seq(Seq(Cells)) /\ ast \in Seq(NodeType)
  BY DEF IInv, TypeOK, IsTree
<1>2. regs \in Seq(Types)
  BY DEF IInv, TypeOK
<1>3. /\ below' \in Seq(Seq(Cells)) /\ Len(below') = Len(below) + 1
      /\ DOMAIN below' = 1..Len(below) + 1 /\ DOMAIN below = 1..Len(below)
      /\ \A k \in DOMAIN below : below'[k] = below[k]
  BY <1>1, AppendFacts
<1>4. ASSUME NEW k \in DOMAIN below'
      PROVE  /\ \A i \in DOMAIN below'[k] : LiveOver(regs', below'[k][i])
             /\ ast[k].op \notin {"list", "stmt"} => below'[k] # <<>>
  <2>1. CASE k = Len(below) + 1
    <3>1. below'[k] = cells
      BY <2>1, <1>1
    <3> QED
      BY <2>1, <3>1 DEF Node
  <2>2. CASE k # Len(below) + 1
    <3>1. k \in DOMAIN below /\ below'[k] = below[k]
      BY <2>2, <1>1, <1>3
    <3>2. \A i \in DOMAIN below[k] : LiveOver(regs, below[k][i])
      BY <3>1 DEF IInv, BelowInv
    <3>3. \A i \in DOMAIN below[k] : LiveOver(regs', below[k][i])
      BY <3>2, <1>2, LiveGrows
    <3>4. ast[k].op \notin {"list", "stmt"} => below[k] # <<>>
      BY <3>1 DEF IInv, BelowInv
    <3> QED
      BY <3>1, <3>3, <3>4
  <2> QED
    BY <2>1, <2>2
<1>5. BelowInv'
  BY <1>4 DEF BelowInv, LiveOver, VariableCells
<1>6. Len(below') <= Len(ast)
  BY <1>1, <1>3
<1> QED
  BY <1>3, <1>5, <1>6

\* An instruction as instr_add_basics may append it after the registers rs.
GoodInstr(rs, n) ==
    /\ n \in InstrType
    /\ LiveOver(rs, n.res)
    /\ \A a \in DOMAIN n.args : LiveOver(rs, n.args[a])
    /\ n.op = "call" => /\ n.sym \in DOMAIN Symbols
                        /\ Symbols[n.sym].stateful => n.args # <<>>
    /\ n.op # "call" => n.op \in Operators \cup {"assign"} /\ n.args # <<>>

LEMMA InstrsGrow ==
    ASSUME IInv, NEW n, regs' \in Seq(Types), Len(regs) <= Len(regs'),
           GoodInstr(regs', n),
           \* a register it writes is new, and not among those it reads
           n.res <= MaxRegs => Len(regs) < n.res,
           n.res <= MaxRegs => \A a \in DOMAIN n.args : n.args[a] # n.res,
           instrs' = Append(instrs, n)
    PROVE  InstrInv' /\ RegistersFlowForward' /\ instrs' \in Seq(InstrType)
<1>1. instrs \in Seq(InstrType) /\ regs \in Seq(Types)
  BY DEF IInv, TypeOK, InstrType
<1>2. /\ instrs' \in Seq(InstrType)
      /\ DOMAIN instrs' = 1..Len(instrs) + 1
      /\ DOMAIN instrs = 1..Len(instrs)
      /\ Len(instrs) \in Nat
      /\ instrs'[Len(instrs) + 1] = n
      /\ \A j \in DOMAIN instrs : instrs'[j] = instrs[j]
  BY <1>1, AppendFacts DEF GoodInstr
<1>3. \A j \in DOMAIN instrs : GoodInstr(regs, instrs[j])
  BY <1>1 DEF IInv, InstrInv, GoodInstr
<1>4. \A j \in DOMAIN instrs : GoodInstr(regs', instrs[j])
  <2> SUFFICES ASSUME NEW j \in DOMAIN instrs PROVE GoodInstr(regs', instrs[j])
    OBVIOUS
  <2>1. GoodInstr(regs, instrs[j])
    BY <1>3
  <2>2. \A c : LiveOver(regs, c) => LiveOver(regs', c)
    BY <1>1, LiveGrows
  <2> QED
    BY <2>1, <2>2 DEF GoodInstr
<1>5. \A j \in DOMAIN instrs' : GoodInstr(regs', instrs'[j])
  BY <1>2, <1>4
<1>6. InstrInv'
  BY <1>5 DEF InstrInv, GoodInstr, LiveOver, VariableCells
<1>7. \A c : LiveOver(regs, c) => c # n.res \/ ~(n.res <= MaxRegs)
  BY <1>1, EintAssumption, SymbolFacts DEF LiveOver, VariableCells
<1>8. ASSUME NEW i \in DOMAIN instrs', NEW j \in DOMAIN instrs', instrs'[i].res <= MaxRegs
      PROVE  /\ instrs'[i].res = instrs'[j].res => i = j
             /\ \A a \in DOMAIN instrs'[j].args : instrs'[j].args[a] = instrs'[i].res => i < j
  <2>1. CASE i \in DOMAIN instrs /\ j \in DOMAIN instrs
    BY <2>1, <1>2, <1>8 DEF IInv, RegistersFlowForward
  <2>2. CASE i \in DOMAIN instrs /\ j = Len(instrs) + 1
    <3>1. i < j /\ instrs'[i] = instrs[i] /\ instrs'[j] = n
      BY <2>2, <1>2
    <3>2. instrs[i].res # n.res
      BY <3>1, <2>2, <1>3, <1>7, <1>8 DEF GoodInstr
    <3> QED
      BY <3>1, <3>2
  <2>3. CASE i = Len(instrs) + 1 /\ j \in DOMAIN instrs
    <3>1. instrs'[i] = n /\ instrs'[j] = instrs[j] /\ n.res <= MaxRegs
      BY <2>3, <1>2, <1>8
    <3>2. instrs[j].res # n.res /\ \A a \in DOMAIN instrs[j].args : instrs[j].args[a] # n.res
      BY <3>1, <2>3, <1>3, <1>7 DEF GoodInstr
    <3> QED
      BY <3>1, <3>2
  <2>4. CASE i = Len(instrs) + 1 /\ j = Len(instrs) + 1
    BY <2>4, <1>2, <1>8
  <2> QED
    BY <2>1, <2>2, <2>3, <2>4, <1>2
<1>9. RegistersFlowForward'
  BY <1>8 DEF RegistersFlowForward
<1> QED
  BY <1>2, <1>6, <1>9

-----------------------------------------------------------------------------
(* The actions of the compilation                                          *)

\* What of TypeOK is not about queues.
RestOK ==
    /\ IsTree(ast)
    /\ mem \in [Cells -> Int]
    /\ truth \in 0..Unread
    /\ start \in [DOMAIN Symbols -> Int]
    /\ calls \in Seq(CallType)

\* A node of a tree, and what the grammar says of the nodes under it.
LEMMA TreeFacts ==
    ASSUME NEW a, IsTree(a), NEW k \in DOMAIN a
    PROVE  /\ a \in Seq(NodeType) /\ a[k] \in NodeType
           /\ k \in Nat /\ k > 0 /\ k <= Len(a) /\ Len(a) \in Nat
           /\ a[k].op \in NodeOps /\ a[k].type \in Types /\ a[k].v \in Int
           /\ a[k].l \in 0..(k - 1) /\ a[k].r \in 0..(k - 1)
           /\ IsNode(a, k)
<1>1. a \in Seq(NodeType) /\ IsNode(a, k)
  BY DEF IsTree
<1>2. k \in Nat /\ k > 0 /\ k <= Len(a) /\ Len(a) \in Nat /\ a[k] \in NodeType
  BY <1>1
<1>3. a[k].op \in NodeOps /\ a[k].type \in Types /\ a[k].v \in Int
  BY <1>2 DEF NodeType
<1>4. a[k].l \in 0..(k - 1) /\ a[k].r \in 0..(k - 1)
  BY <1>1, <1>2, <1>3 DEF IsNode, Null, NodeOps
<1> QED
  BY <1>1, <1>2, <1>3, <1>4

LEMMA NodeFacts ==
    ASSUME IInv, phase = "compiling", Len(below) < Len(ast)
    PROVE  /\ Node.op \in NodeOps /\ Node.type \in Types /\ Node.v \in Int
           /\ Node.l \in 0..Len(below) /\ Node.r \in 0..Len(below)
           /\ Node.op \in {"ref", "assign", "call"} => Node.v \in DOMAIN Symbols
           /\ Node.op \in Operators \cup {"assign", "list", "stmt"} => Node.l \in DOMAIN below
           /\ \A k \in DOMAIN below : /\ below[k] \in Seq(Cells)
                                      /\ \A i \in DOMAIN below[k] : LiveOver(regs, below[k][i])
           /\ Node.op \in Operators \cup {"assign"} =>
                 /\ below[Node.l] # <<>>
                 /\ Node.r # Null => below[Node.r] # <<>>
<1>1. /\ ast \in Seq(NodeType)
      /\ below \in Seq(Seq(Cells))
  BY DEF IInv, TypeOK, IsTree
<1> DEFINE k == Len(below) + 1
<1>2. k \in DOMAIN ast /\ Node = ast[k]
  BY <1>1 DEF Node
<1>3. Node \in NodeType
  BY <1>1, <1>2
<1>11. IsTree(ast) /\ Node.l \in 0..Len(below) /\ Node.r \in 0..Len(below) /\ IsNode(ast, k)
  <2>1. IsTree(ast)
    BY DEF IInv, TypeOK
  <2>2. ast[k].l \in 0..(k - 1) /\ ast[k].r \in 0..(k - 1) /\ IsNode(ast, k)
    BY <1>2, <2>1, TreeFacts
  <2>3. k - 1 = Len(below)
    BY <1>1
  <2> QED
    BY <1>2, <2>1, <2>2, <2>3
<1> HIDE DEF k
<1>4. /\ Node.op \in {"ref", "assign", "call"} => Node.v \in DOMAIN Symbols
      /\ Node.op \in Operators \cup {"assign", "list", "stmt"} => Node.l # Null
      /\ Node.op \in Operators \cup {"assign"} =>
            \A c \in {Node.l, Node.r} \ {Null} : ast[c].op \notin {"list", "stmt"}
  BY <1>2, <1>11, SMTT(20) DEF IsNode, Null, Expressions, Operators, Unary
<1>10. /\ Node.op \in NodeOps /\ Node.type \in Types /\ Node.v \in Int
       /\ Node.l \in Nat /\ Node.r \in Nat
  BY <1>3 DEF NodeType
<1>5. Node.l \in 0..Len(below) /\ Node.r \in 0..Len(below)
  BY <1>11
<1>6. Node.l # Null => Node.l \in DOMAIN below
  BY <1>1, <1>5 DEF Null
<1>7. Node.r # Null => Node.r \in DOMAIN below
  BY <1>1, <1>5 DEF Null
<1>8. \A j \in DOMAIN below : /\ below[j] \in Seq(Cells)
                              /\ \A i \in DOMAIN below[j] : LiveOver(regs, below[j][i])
  BY <1>1 DEF IInv, BelowInv
<1>9. Node.op \in Operators \cup {"assign"} =>
          below[Node.l] # <<>> /\ (Node.r # Null => below[Node.r] # <<>>)
  BY <1>4, <1>6, <1>7 DEF IInv, BelowInv
<1> QED
  BY <1>4, <1>5, <1>6, <1>8, <1>9, <1>10

\* The operands of an operator or an assignment are live.
LEMMA OperandFacts ==
    ASSUME IInv, phase = "compiling", Len(below) < Len(ast),
           Node.op \in Operators \cup {"assign"}
    PROVE  /\ LiveOver(regs, Operand(Node.l))
           /\ Node.r # Null => LiveOver(regs, Operand(Node.r))
           /\ Operands \in Seq(Cells) /\ Operands # <<>>
           /\ \A a \in DOMAIN Operands : LiveOver(regs, Operands[a])
<1>1. \A s \in Seq(Cells) : s # <<>> => 1 \in DOMAIN s /\ s[1] \in Cells
  OBVIOUS
<1>2. Node.l \in DOMAIN below /\ (Node.r # Null => Node.r \in DOMAIN below)
  BY NodeFacts, SMTT(20) DEF IInv, TypeOK, Null
<1>3. LiveOver(regs, Operand(Node.l)) /\ Operand(Node.l) \in Cells
  BY <1>1, <1>2, NodeFacts DEF Operand
<1>4. Node.r # Null => LiveOver(regs, Operand(Node.r)) /\ Operand(Node.r) \in Cells
  BY <1>1, <1>2, NodeFacts DEF Operand
<1>5. CASE Node.r = Null
  <2>1. Operands = <<Operand(Node.l)>>
    BY <1>5 DEF Operands
  <2> QED
    BY <2>1, <1>3, <1>5
<1>6. CASE Node.r # Null
  <2>1. Operands = <<Operand(Node.l), Operand(Node.r)>>
    BY <1>6 DEF Operands
  <2> QED
    BY <2>1, <1>3, <1>4, <1>6
<1> QED
  BY <1>5, <1>6

\* A node's register and instruction.
LEMMA AddKeeps ==
    ASSUME IInv, phase = "compiling", Len(below) < Len(ast),
           NEW rs \in Seq(Types), Len(regs) <= Len(rs), Len(rs) <= MaxRegs,
           NEW m \in [Cells -> Int], NEW type \in Types,
           NEW op \in Operators \cup {"call"}, NEW tl \in Types, NEW tr \in Types,
           NEW sym \in Nat, NEW args \in Seq(Cells),
           \A a \in DOMAIN args : LiveOver(rs, args[a]),
           op = "call" => sym \in DOMAIN Symbols /\ (Symbols[sym].stateful => args # <<>>),
           op # "call" => args # <<>>,
           AddComputation(rs, m, type, op, tl, tr, sym, args)
    PROVE  IInv'
<1>1. CASE StopWith("refused") \/ StopWith("crashed")
  BY <1>1, StopKeeps DEF Phases
<1>2. CASE /\ Len(instrs) < MaxInstr /\ ~RegsFull(rs)
           /\ regs' = Append(rs, type)
           /\ instrs' = Append(instrs, Instr(op, tl, tr, sym, args, ResultRegister(rs)))
           /\ below' = Append(below, <<ResultRegister(rs)>>)
           /\ mem' = m
           /\ UNCHANGED <<ast, phase, pc, truth, start, calls>>
  <2> DEFINE r == ResultRegister(rs)
             n == Instr(op, tl, tr, sym, args, r)
  <2>1. /\ regs \in Seq(Types) /\ instrs \in Seq(InstrType) /\ below \in Seq(Seq(Cells))
        /\ MaxRegs \in Nat /\ Len(rs) < MaxRegs
    BY <1>2, EintAssumption DEF IInv, TypeOK, InstrType, RegsFull
  <2>2. regs' \in Seq(Types) /\ Len(regs') = Len(rs) + 1 /\ r = Len(rs) + 1
    BY <1>2 DEF ResultRegister
  <2>3. r \in Cells /\ LiveOver(regs', r) /\ r <= MaxRegs /\ Len(regs) < r
    BY <2>1, <2>2, SymbolFacts DEF LiveOver, Cells, ResultRegister
  <2>4. \A a \in DOMAIN args : LiveOver(regs', args[a]) /\ args[a] # r
    BY <2>1, <2>2, LiveGrows, SymbolFacts, SMTT(20) DEF LiveOver, VariableCells
  <2>5. /\ n.op = op /\ n.tl = tl /\ n.tr = tr /\ n.sym = sym /\ n.args = args /\ n.res = r
        /\ n \in InstrType
    BY <2>3 DEF Instr, InstrType, NodeOps, Operators
  <2> HIDE DEF r, n
  <2>6. GoodInstr(regs', n)
    BY <2>3, <2>4, <2>5 DEF GoodInstr
  <2>7. instrs' = Append(instrs, n) /\ below' = Append(below, <<r>>)
    BY <1>2 DEF n, r
  <2>8. Len(regs) <= Len(regs')
    BY <2>1, <2>2
  <2>9. InstrInv' /\ RegistersFlowForward' /\ instrs' \in Seq(InstrType)
    BY <2>2, <2>3, <2>4, <2>5, <2>6, <2>7, <2>8, InstrsGrow
  <2>10. <<r>> \in Seq(Cells) /\ <<r>> # <<>> /\ \A i \in DOMAIN <<r>> : LiveOver(regs', <<r>>[i])
    BY <2>3
  <2>11. ast' = ast
    BY <1>2
  <2>12. BelowInv' /\ below' \in Seq(Seq(Cells)) /\ Len(below') <= Len(ast)
    BY <2>2, <2>7, <2>8, <2>10, <2>11, BelowGrows
  <2>13. Len(instrs') = Len(instrs) + 1 /\ Len(instrs') <= MaxInstr
    BY <1>2, <2>1, <2>7, EintAssumption
  <2>14. RestOK /\ RestOK'
    BY <1>2 DEF IInv, TypeOK, RestOK
  <2>15. phase' \in Phases /\ pc' \in 0..Len(instrs') + 1 /\ Len(regs') <= MaxRegs
    BY <1>2, <2>1, <2>2, <2>13, SMTT(20) DEF IInv, TypeOK
  <2>16. TypeOK'
    BY <2>2, <2>9, <2>11, <2>12, <2>13, <2>14, <2>15 DEF TypeOK, RestOK, InstrType
  <2>17. (phase = "running" => pc # 0)'
    BY <1>2
  <2> QED
    BY <2>9, <2>12, <2>16, <2>17 DEF IInv
<1> QED
  BY <1>1, <1>2 DEF AddComputation

\* Of the queues only below grows, and only by cells that are live.
LEMMA OnlyBelowKeeps ==
    ASSUME IInv, phase = "compiling", Len(below) < Len(ast),
           NEW cells \in Seq(Cells),
           \A i \in DOMAIN cells : LiveOver(regs, cells[i]),
           Node.op \notin {"list", "stmt"} => cells # <<>>,
           below' = Append(below, cells),
           UNCHANGED <<ast, phase, regs, instrs, mem, pc, truth, start, calls>>
    PROVE  IInv'
<1>1. regs' \in Seq(Types) /\ Len(regs) <= Len(regs') /\ ast' = ast
  BY DEF IInv, TypeOK
<1>2. \A i \in DOMAIN cells : LiveOver(regs', cells[i])
  BY DEF LiveOver, VariableCells
<1>3. BelowInv' /\ below' \in Seq(Seq(Cells)) /\ Len(below') <= Len(ast)
  BY <1>1, <1>2, BelowGrows
<1>4. TypeOK'
  BY <1>3 DEF IInv, TypeOK
<1>5. InstrInv' /\ RegistersFlowForward'
  BY DEF IInv, InstrInv, RegistersFlowForward, LiveOver, VariableCells
<1>6. (phase = "running" => pc # 0)'
  OBVIOUS
<1> QED
  BY <1>3, <1>4, <1>5, <1>6 DEF IInv

LEMMA ConstKeeps ==
    ASSUME IInv, CompileConst
    PROVE  IInv'
<1> DEFINE r == Len(regs) + 1
<1>1. phase = "compiling" /\ Len(below) < Len(ast) /\ Node.op = "const"
  BY DEF CompileConst, Compiling
<1>2. CASE StopWith("crashed")
  BY <1>2, StopKeeps DEF Phases
<1>3. CASE /\ ~RegsFull(regs)
           /\ regs' = Append(regs, Node.type)
           /\ mem' = [mem EXCEPT ![r] = Node.v]
           /\ below' = Append(below, <<r>>)
           /\ UNCHANGED <<ast, phase, instrs, pc, truth, start, calls>>
  <2>1. regs \in Seq(Types) /\ Node.type \in Types /\ Node.v \in Int
    BY <1>1, NodeFacts DEF IInv, TypeOK
  <2>2. regs' \in Seq(Types) /\ Len(regs') = r /\ Len(regs) \in Nat
    BY <1>3, <2>1, AppendFacts
  <2>3. r <= MaxRegs /\ r \in Cells /\ LiveOver(regs', r)
    BY <1>3, <2>2, EintAssumption, SymbolFacts DEF RegsFull, Cells, LiveOver
  <2> HIDE DEF r
  <2>4. <<r>> \in Seq(Cells) /\ <<r>> # <<>> /\ \A i \in DOMAIN <<r>> : LiveOver(regs', <<r>>[i])
    BY <2>3
  <2>5. Len(regs) <= Len(regs') /\ ast' = ast /\ below' = Append(below, <<r>>)
    BY <1>3, <2>2 DEF r
  <2>6. BelowInv' /\ below' \in Seq(Seq(Cells)) /\ Len(below') <= Len(ast)
    BY <1>1, <2>2, <2>4, <2>5, BelowGrows
  <2>7. \A c : LiveOver(regs, c) => LiveOver(regs', c)
    BY <2>1, <2>2, <2>5, LiveGrows
  <2>8. InstrInv'
    BY <1>3, <2>7 DEF IInv, InstrInv, LiveOver, VariableCells
  <2>9. RegistersFlowForward'
    BY <1>3 DEF IInv, RegistersFlowForward
  <2>10. mem' \in [Cells -> Int]
    BY <1>3, <2>1 DEF IInv, TypeOK
  <2>11. TypeOK'
    BY <1>3, <2>2, <2>3, <2>6, <2>10 DEF IInv, TypeOK
  <2> QED
    BY <1>1, <1>3, <2>6, <2>8, <2>9, <2>11 DEF IInv
<1> QED
  BY <1>2, <1>3 DEF CompileConst

LEMMA OperatorKeeps ==
    ASSUME IInv, CompileOperator
    PROVE  IInv'
<1> DEFINE tl == TypeAt(Operand(Node.l))
           tr == IF Node.r = Null THEN "na" ELSE TypeAt(Operand(Node.r))
<1>1. phase = "compiling" /\ Len(below) < Len(ast) /\ Node.op \in Operators
  BY DEF CompileOperator, Compiling
<1>2. CASE StopWith("refused")
  BY <1>2, StopKeeps DEF Phases
<1>3. ASSUME NEW w \in RulesFor(Node.op, tl, tr),
             AddComputation(regs, mem, w.tres, Node.op, tl, tr, 0, Operands)
      PROVE  IInv'
  <2>1. w.tres \in Types
    BY <1>3, RuleFacts DEF RulesFor
  <2>2. tl \in Types /\ tr \in Types
    BY <1>1, OperandFacts, TypeAtType DEF IInv, Types
  <2>3. /\ Operands \in Seq(Cells) /\ Operands # <<>>
        /\ \A a \in DOMAIN Operands : LiveOver(regs, Operands[a])
    BY <1>1, OperandFacts
  <2>4. regs \in Seq(Types) /\ Len(regs) <= MaxRegs /\ Len(regs) <= Len(regs)
        /\ mem \in [Cells -> Int]
    BY DEF IInv, TypeOK
  <2>5. Node.op \in Operators \cup {"call"} /\ Node.op # "call" /\ 0 \in Nat
    BY <1>1 DEF Operators
  <2> HIDE DEF tl, tr
  <2> QED
    BY <1>1, <1>3, <2>1, <2>2, <2>3, <2>4, <2>5, AddKeeps
<1> QED
  BY <1>2, <1>3 DEF CompileOperator

LEMMA ConcatLive ==
    ASSUME NEW s \in Seq(Cells), NEW t \in Seq(Cells),
           \A i \in DOMAIN s : LiveOver(regs, s[i]),
           \A i \in DOMAIN t : LiveOver(regs, t[i])
    PROVE  s \o t \in Seq(Cells) /\ \A i \in DOMAIN (s \o t) : LiveOver(regs, (s \o t)[i])
<1>1. s \o t \in Seq(Cells)
  OBVIOUS
<1>2. ASSUME NEW i \in DOMAIN (s \o t) PROVE LiveOver(regs, (s \o t)[i])
  <2>1. i \in 1..Len(s) + Len(t) /\ Len(s) \in Nat /\ Len(t) \in Nat
    OBVIOUS
  <2>2. CASE i <= Len(s)
    <3>1. i \in DOMAIN s /\ (s \o t)[i] = s[i]
      BY <2>1, <2>2
    <3> QED
      BY <3>1
  <2>3. CASE i > Len(s)
    <3>1. i - Len(s) \in DOMAIN t /\ (s \o t)[i] = t[i - Len(s)]
      BY <2>1, <2>3
    <3> QED
      BY <3>1
  <2> QED
    BY <2>1, <2>2, <2>3
<1> QED
  BY <1>1, <1>2

LEMMA FlowKeeps ==
    ASSUME IInv, CompileFlow
    PROVE  IInv'
<1> DEFINE cells == IF Node.op = "stmt" \/ Node.r = Null THEN <<>>
                    ELSE below[Node.l] \o below[Node.r]
<1>1. /\ phase = "compiling" /\ Len(below) < Len(ast) /\ Node.op \in {"list", "stmt"}
      /\ below' = Append(below, cells)
      /\ UNCHANGED <<ast, phase, regs, instrs, mem, pc, truth, start, calls>>
  BY DEF CompileFlow, Compiling
<1>2. cells \in Seq(Cells) /\ \A i \in DOMAIN cells : LiveOver(regs, cells[i])
  <2>1. CASE Node.op = "stmt" \/ Node.r = Null
    <3>1. cells = <<>>
      BY <2>1
    <3> HIDE DEF cells
    <3> QED
      BY <3>1
  <2>2. CASE Node.op # "stmt" /\ Node.r # Null
    <3>1. Node.l \in DOMAIN below /\ Node.r \in DOMAIN below
      BY <1>1, <2>2, NodeFacts, SMTT(20) DEF IInv, TypeOK, Null
    <3>2. /\ below[Node.l] \in Seq(Cells) /\ below[Node.r] \in Seq(Cells)
          /\ \A i \in DOMAIN below[Node.l] : LiveOver(regs, below[Node.l][i])
          /\ \A i \in DOMAIN below[Node.r] : LiveOver(regs, below[Node.r][i])
      BY <1>1, <3>1, NodeFacts
    <3>3. cells = below[Node.l] \o below[Node.r]
      BY <2>2
    <3> QED
      BY <3>2, <3>3, ConcatLive
  <2> QED
    BY <2>1, <2>2
<1> HIDE DEF cells
<1> QED
  BY <1>1, <1>2, OnlyBelowKeeps

LEMMA ReferenceKeeps ==
    ASSUME IInv, CompileReference
    PROVE  IInv'
<1>1. phase = "compiling" /\ Len(below) < Len(ast) /\ Node.op = "ref"
  BY DEF CompileReference, Compiling
<1>2. CASE StopWith("refused")
  BY <1>2, StopKeeps DEF Phases
<1>3. CASE /\ Node.v \in Variables
           /\ below' = Append(below, <<CellOf(Node.v)>>)
           /\ UNCHANGED <<ast, phase, regs, instrs, mem, pc, truth, start, calls>>
  <2>1. CellOf(Node.v) \in VariableCells /\ CellOf(Node.v) \in Cells
    BY <1>3, SymbolFacts DEF Variables
  <2>2. /\ <<CellOf(Node.v)>> \in Seq(Cells) /\ <<CellOf(Node.v)>> # <<>>
        /\ \A i \in DOMAIN <<CellOf(Node.v)>> : LiveOver(regs, <<CellOf(Node.v)>>[i])
    BY <2>1 DEF LiveOver
  <2> QED
    BY <1>1, <1>3, <2>2, OnlyBelowKeeps
<1> QED
  BY <1>2, <1>3 DEF CompileReference

LEMMA AssignmentKeeps ==
    ASSUME IInv, CompileAssignment
    PROVE  IInv'
<1> DEFINE tl == Symbols[Node.v].type
           tr == TypeAt(Operand(Node.l))
           r  == CellOf(Node.v)
           n  == Instr("assign", tl, tr, 0, Operands, r)
<1>1. phase = "compiling" /\ Len(below) < Len(ast) /\ Node.op = "assign"
  BY DEF CompileAssignment, Compiling
<1>2. CASE StopWith("refused")
  BY <1>2, StopKeeps DEF Phases
<1>3. CASE /\ Node.v \in Variables /\ Len(instrs) < MaxInstr
           /\ instrs' = Append(instrs, n)
           /\ below' = Append(below, <<r>>)
           /\ UNCHANGED <<ast, phase, regs, mem, pc, truth, start, calls>>
  <2>1. r \in VariableCells /\ r \in Cells /\ Node.v \in DOMAIN Symbols
    BY <1>3, SymbolFacts DEF Variables
  <2>2. tl \in Types /\ tr \in Types
    BY <2>1, <1>1, SymbolFacts, OperandFacts, TypeAtType DEF SymbolType, IInv
  <2>3. /\ Operands \in Seq(Cells) /\ Operands # <<>>
        /\ \A a \in DOMAIN Operands : LiveOver(regs, Operands[a])
    BY <1>1, OperandFacts
  <2>4. ~(r <= MaxRegs) /\ LiveOver(regs, r)
    BY <2>1, EintAssumption, SymbolFacts DEF VariableCells, LiveOver
  <2> HIDE DEF r, tl, tr
  <2>5. /\ n.op = "assign" /\ n.args = Operands /\ n.res = r
        /\ n \in InstrType
    BY <2>1, <2>2, <2>3 DEF Instr, InstrType, NodeOps
  <2> HIDE DEF n
  <2>6. regs' = regs /\ regs \in Seq(Types) /\ Len(regs) <= Len(regs') /\ ast' = ast
    BY <1>3 DEF IInv, TypeOK
  <2>7. GoodInstr(regs', n)
    BY <2>3, <2>4, <2>5, <2>6 DEF GoodInstr
  <2>8. InstrInv' /\ RegistersFlowForward' /\ instrs' \in Seq(InstrType)
    BY <1>3, <2>4, <2>5, <2>6, <2>7, InstrsGrow
  <2>9. <<r>> \in Seq(Cells) /\ <<r>> # <<>> /\ \A i \in DOMAIN <<r>> : LiveOver(regs', <<r>>[i])
    BY <2>1, <2>4, <2>6
  <2>10. BelowInv' /\ below' \in Seq(Seq(Cells)) /\ Len(below') <= Len(ast)
    BY <1>1, <1>3, <2>6, <2>9, BelowGrows
  <2>11. instrs \in Seq(InstrType) /\ n \in InstrType
    BY <2>5 DEF IInv, TypeOK
  <2>12. Len(instrs') = Len(instrs) + 1 /\ Len(instrs) \in Nat
    BY <1>3, <2>11, AppendFacts
  <2>13. Len(instrs') <= MaxInstr
    BY <1>3, <2>12, EintAssumption
  <2>14. pc' \in 0..Len(instrs') + 1
    BY <1>3, <2>12 DEF IInv, TypeOK
  <2>15. TypeOK'
    BY <1>3, <2>6, <2>8, <2>10, <2>13, <2>14 DEF IInv, TypeOK
  <2> QED
    BY <1>1, <1>3, <2>8, <2>10, <2>15 DEF IInv
<1> QED
  BY <1>2, <1>3 DEF CompileAssignment

LEMMA CallKeeps ==
    ASSUME IInv, CompileCall
    PROVE  IInv'
<1> DEFINE f      == Symbols[Node.v]
           given  == IF Node.l = Null THEN <<>> ELSE below[Node.l]
           rs     == RegsWithHandle(f)
           handle == IF f.stateful THEN <<Len(rs)>> ELSE <<>>
           m      == IF f.stateful THEN [mem EXCEPT ![Len(rs)] = SiteMemory] ELSE mem
<1>1. phase = "compiling" /\ Len(below) < Len(ast) /\ Node.op = "call"
  BY DEF CompileCall, Compiling
<1>2. CASE StopWith("refused") \/ StopWith("crashed")
  BY <1>2, StopKeeps DEF Phases
<1>3. CASE /\ ~(f.stateful /\ RegsFull(regs))
           /\ AddComputation(rs, m, f.type, "call", "na", "na", Node.v, handle \o given)
  <2>1. Node.v \in DOMAIN Symbols /\ Node.v \in Nat /\ f \in SymbolType
    BY <1>1, NodeFacts, SymbolFacts
  <2>2. f.type \in Types /\ f.stateful \in BOOLEAN
    BY <2>1 DEF SymbolType
  <2>3. given \in Seq(Cells) /\ \A i \in DOMAIN given : LiveOver(regs, given[i])
    <3>1. CASE Node.l = Null
      <4>1. given = <<>>
        BY <3>1
      <4> HIDE DEF given
      <4> QED
        BY <4>1
    <3>2. CASE Node.l # Null
      <4>1. Node.l \in DOMAIN below
        BY <1>1, <3>2, NodeFacts DEF IInv, TypeOK, Null
      <4> QED
        BY <1>1, <3>2, <4>1, NodeFacts
    <3> QED
      BY <3>1, <3>2
  <2>4. /\ regs \in Seq(Types) /\ Len(regs) \in Nat /\ Len(regs) <= MaxRegs
        /\ mem \in [Cells -> Int] /\ SiteMemory \in Int /\ MaxRegs \in Nat
    BY EintAssumption DEF IInv, TypeOK, SiteMemory
  <2>7. /\ Symbols[Node.v].stateful = f.stateful
        /\ "call" \in Operators \cup {"call"} /\ "na" \in Types
    BY DEF Types
  <2>5. CASE f.stateful
    <3>1. rs = Append(regs, "ptr") /\ "ptr" \in Types
      BY <2>5 DEF RegsWithHandle, Types
    <3>2. rs \in Seq(Types) /\ Len(rs) = Len(regs) + 1 /\ Len(rs) <= MaxRegs
      BY <1>3, <2>4, <2>5, <3>1, AppendFacts DEF RegsFull
    <3>3. handle = <<Len(rs)>> /\ m = [mem EXCEPT ![Len(rs)] = SiteMemory]
      BY <2>5
    <3> HIDE DEF f, rs, handle, m, given
    <3>4. Len(rs) \in Cells /\ LiveOver(rs, Len(rs))
      BY <2>4, <3>2, SymbolFacts DEF Cells, LiveOver
    <3>5. m \in [Cells -> Int]
      BY <2>4, <3>3
    <3>6. \A i \in DOMAIN given : LiveOver(rs, given[i])
      BY <2>3, <2>4, <3>2, LiveGrows
    <3>7. \A i \in DOMAIN (<<Len(rs)>> \o given) :
              (<<Len(rs)>> \o given)[i] = Len(rs)
              \/ \E j \in DOMAIN given : (<<Len(rs)>> \o given)[i] = given[j]
      <4>1. \A i \in DOMAIN (<<Len(rs)>> \o given) :
                (<<Len(rs)>> \o given)[i] = IF i = 1 THEN Len(rs) ELSE given[i - 1]
        BY <2>3, <3>4
      <4>2. \A i \in DOMAIN (<<Len(rs)>> \o given) : i # 1 => i - 1 \in DOMAIN given
        BY <2>3, <3>4
      <4> QED
        BY <4>1, <4>2
    <3>8. <<Len(rs)>> \o given \in Seq(Cells) /\ <<Len(rs)>> \o given # <<>>
      BY <2>3, <3>4
    <3>9. \A a \in DOMAIN (handle \o given) : LiveOver(rs, (handle \o given)[a])
      BY <3>3, <3>4, <3>6, <3>7
    <3>10. handle \o given \in Seq(Cells) /\ handle \o given # <<>>
      BY <3>3, <3>8
    <3>11. Len(regs) <= Len(rs)
      BY <2>4, <3>2
    <3> QED
      BY <1>1, <1>3, <2>1, <2>2, <2>7, <3>2, <3>5, <3>9, <3>10, <3>11, AddKeeps
  <2>6. CASE ~f.stateful
    <3>1. rs = regs /\ handle = <<>> /\ m = mem
      BY <2>6 DEF RegsWithHandle
    <3> HIDE DEF f, rs, handle, m, given
    <3>2. handle \o given = given
      BY <2>3, <3>1
    <3>3. Len(regs) <= Len(regs)
      BY <2>4
    <3> QED
      BY <1>1, <1>3, <2>1, <2>2, <2>3, <2>4, <2>6, <2>7, <3>1, <3>2, <3>3, AddKeeps
  <2> QED
    BY <2>2, <2>5, <2>6
<1> QED
  BY <1>2, <1>3 DEF CompileCall

-----------------------------------------------------------------------------
(* The execution: the queues stay, the values change                       *)

LEMMA ValuesKeep ==
    ASSUME IInv, UNCHANGED <<ast, below, regs, instrs>>,
           phase' \in Phases, pc' \in 0..Len(instrs) + 1, phase' = "running" => pc' # 0,
           mem' \in [Cells -> Int], truth' \in 0..Unread,
           start' \in [DOMAIN Symbols -> Int], calls' \in Seq(CallType)
    PROVE  IInv'
<1>1. TypeOK'
  BY DEF IInv, TypeOK
<1>2. BelowInv' /\ InstrInv' /\ RegistersFlowForward'
  BY DEF IInv, BelowInv, InstrInv, RegistersFlowForward, LiveOver, VariableCells
<1> QED
  BY <1>1, <1>2 DEF IInv

LEMMA DoneKeeps ==
    ASSUME IInv, CompileDone
    PROVE  IInv'
BY ValuesKeep DEF CompileDone, IInv, TypeOK, Phases

LEMMA BeginKeeps ==
    ASSUME IInv, Begin
    PROVE  IInv'
<1>1. start' \in [DOMAIN Symbols -> Int]
  BY EintAssumption DEF Begin
<1>2. mem' = [c \in Cells |-> IF c > MaxRegs THEN start'[c - MaxRegs] ELSE mem[c]]
  BY DEF Begin
<1>3. mem \in [Cells -> Int]
  BY DEF IInv, TypeOK
<1>4. \A c \in Cells : (IF c > MaxRegs THEN start'[c - MaxRegs] ELSE mem[c]) \in Int
  <2> SUFFICES ASSUME NEW c \in Cells
               PROVE  (IF c > MaxRegs THEN start'[c - MaxRegs] ELSE mem[c]) \in Int
    OBVIOUS
  <2>1. CASE c > MaxRegs
    <3>1. c - MaxRegs \in DOMAIN Symbols
      BY <2>1, SymbolFacts, EintAssumption DEF Cells
    <3> QED
      BY <2>1, <3>1, <1>1
  <2>2. CASE ~(c > MaxRegs)
    BY <2>2, <1>3
  <2> QED
    BY <2>1, <2>2
<1>5. mem' \in [Cells -> Int]
  BY <1>2, <1>4
<1>6. Len(instrs) \in Nat
  BY DEF IInv, TypeOK
<1>7. phase' = "running" /\ pc' = 1 /\ truth' = Unread /\ calls' = <<>>
      /\ UNCHANGED <<ast, below, regs, instrs>>
  BY DEF Begin
<1>8. /\ phase' \in Phases /\ pc' \in 0..Len(instrs) + 1 /\ pc' # 0
      /\ truth' \in 0..Unread /\ calls' \in Seq(CallType)
  BY <1>6, <1>7 DEF Phases, Unread
<1> QED
  BY <1>1, <1>5, <1>7, <1>8, ValuesKeep

\* The instruction that is executed is one of the queue, with live operands.
LEMMA CurrentFacts ==
    ASSUME IInv, Executing
    PROVE  /\ phase = "running" /\ pc \in DOMAIN instrs /\ pc + 1 \in 1..Len(instrs) + 1
           /\ instrs[pc] \in InstrType
           /\ instrs[pc].res \in Cells /\ instrs[pc].args \in Seq(Cells)
<1>1. instrs \in Seq(InstrType) /\ pc \in 0..Len(instrs) + 1 /\ pc # 0 /\ pc <= Len(instrs)
  BY DEF IInv, TypeOK, Executing
<1>2. pc \in DOMAIN instrs /\ pc + 1 \in 1..Len(instrs) + 1
  BY <1>1
<1>3. instrs[pc] \in InstrType
  BY <1>1, <1>2
<1>4. instrs[pc].res \in Cells /\ instrs[pc].args \in Seq(Cells)
  BY <1>3 DEF InstrType
<1> QED
  BY <1>2, <1>3, <1>4 DEF Executing

LEMMA HandlerKeeps ==
    ASSUME IInv, ExecuteHandler
    PROVE  IInv'
<1> DEFINE i == instrs[pc]
           x == mem[i.args[1]]
           y == IF Len(i.args) = 2 THEN mem[i.args[2]] ELSE 0
<1>1. /\ Executing /\ i.op # "call"
      /\ mem' = [mem EXCEPT ![i.res] = Handler(i, x, y)]
      /\ pc' = pc + 1
      /\ UNCHANGED <<ast, phase, below, regs, instrs, truth, start, calls>>
  BY DEF ExecuteHandler
<1>2. i.op \in Operators \cup {"assign"} /\ i.args # <<>> /\ i.args \in Seq(Cells)
  BY <1>1, CurrentFacts DEF IInv, InstrInv
<1>3. mem \in [Cells -> Int]
  BY DEF IInv, TypeOK
<1>4. x \in Int
  <2>1. i.args[1] \in Cells
    BY <1>2
  <2> QED
    BY <1>3, <2>1
<1>5. y \in Int
  <2>1. CASE Len(i.args) = 2
    <3>1. i.args[2] \in Cells
      BY <1>2, <2>1
    <3> QED
      BY <1>3, <2>1, <3>1
  <2> QED
    BY <2>1
<1> HIDE DEF x, y
<1>6. Handler(i, x, y) \in Int
  BY <1>2, <1>4, <1>5, HandlerType
<1>7. mem' \in [Cells -> Int]
  BY <1>1, <1>3, <1>6
<1>8. /\ phase' \in Phases /\ pc' \in 0..Len(instrs) + 1 /\ (phase' = "running" => pc' # 0)
      /\ truth' \in 0..Unread /\ start' \in [DOMAIN Symbols -> Int] /\ calls' \in Seq(CallType)
  BY <1>1, CurrentFacts DEF IInv, TypeOK
<1> QED
  BY <1>1, <1>7, <1>8, ValuesKeep

LEMMA ExecuteCallKeeps ==
    ASSUME IInv, ExecuteCall
    PROVE  IInv'
<1> DEFINE i     == instrs[pc]
           f     == Symbols[i.sym]
           given == SubSeq(i.args, 1 + Bit(f.stateful), Len(i.args))
           args  == [k \in DOMAIN given |-> Halves(TypeAt(given[k]), mem[given[k]])]
           site  == IF f.stateful THEN mem[i.args[1]] ELSE 0
           call(ret) == [site |-> site, args |-> args, ret  |-> ret]
<1>1. Executing /\ i.op = "call"
  BY DEF ExecuteCall
<1>2. CASE StopWith("crashed")
  BY <1>2, StopKeeps DEF Phases
<1>3. ASSUME NEW ret \in 0..1,
             mem' = [mem EXCEPT ![i.res] = ret],
             calls' = Append(calls, call(ret)),
             pc' = pc + 1,
             UNCHANGED <<ast, phase, below, regs, instrs, truth, start>>
      PROVE  IInv'
  <2>1. mem \in [Cells -> Int] /\ calls \in Seq(CallType)
    BY DEF IInv, TypeOK
  <2>2. i.args \in Seq(Cells) /\ i.res \in Cells
    BY <1>1, CurrentFacts
  <2>3. f.stateful => i.args # <<>>
    BY <1>1, CurrentFacts DEF IInv, InstrInv
  <2>4. site \in Int
    <3>1. CASE f.stateful
      <4>1. i.args[1] \in Cells
        BY <2>2, <2>3, <3>1
      <4> QED
        BY <2>1, <3>1, <4>1
    <3> QED
      BY <3>1
  <2>5. given \in Seq(Cells)
    BY <2>2 DEF Bit
  <2> HIDE DEF given, site, i
  <2>6. \A k \in DOMAIN given : Halves(TypeAt(given[k]), mem[given[k]]) \in Int
    BY <2>1, <2>5 DEF Halves
  <2>7. args \in Seq(Int)
    <3>1. DOMAIN given = 1..Len(given) /\ Len(given) \in Nat
      BY <2>5
    <3> QED
      BY <2>6, <3>1
  <2> HIDE DEF args
  <2>8. call(ret) \in CallType
    BY <2>4, <2>7 DEF CallType
  <2>9. calls' \in Seq(CallType)
    BY <1>3, <2>1, <2>8, AppendFacts
  <2>10. mem' \in [Cells -> Int]
    <3>1. ret \in Int
      OBVIOUS
    <3> QED
      BY <1>3, <2>1, <3>1
  <2>11. /\ phase' \in Phases /\ pc' \in 0..Len(instrs) + 1 /\ (phase' = "running" => pc' # 0)
         /\ truth' \in 0..Unread /\ start' \in [DOMAIN Symbols -> Int]
    BY <1>1, <1>3, CurrentFacts DEF IInv, TypeOK
  <2> QED
    BY <1>3, <2>9, <2>10, <2>11, ValuesKeep
<1> QED
  BY <1>2, <1>3 DEF ExecuteCall

LEMMA FinishKeeps ==
    ASSUME IInv, FinishCondition \/ FinishAction
    PROVE  IInv'
<1>1. CASE StopWith("crashed")
  BY <1>1, StopKeeps DEF Phases
<1>2. CASE /\ truth' \in {truth, AsBool(Result)}
           /\ phase' = "evaluated"
           /\ UNCHANGED <<ast, below, regs, instrs, mem, pc, start, calls>>
  <2>1. AsBool(Result) \in 0..Unread
    BY DEF AsBool, Bit, Unread
  <2>2. truth' \in 0..Unread
    BY <1>2, <2>1 DEF IInv, TypeOK
  <2> QED
    BY <1>2, <2>2, ValuesKeep DEF IInv, TypeOK, Phases
<1> QED
  BY <1>1, <1>2 DEF FinishCondition, FinishAction

-----------------------------------------------------------------------------
LEMMA NextInv == IInv /\ [Next]_vars => IInv'
<1> SUFFICES ASSUME IInv, [Next]_vars PROVE IInv'
  OBVIOUS
<1>1. CASE Compile
  <2>1. CASE CompileNothing
    BY <2>1, StopKeeps DEF CompileNothing, Phases
  <2> QED
    BY <1>1, <2>1, ConstKeeps, OperatorKeeps, FlowKeeps, ReferenceKeeps, AssignmentKeeps,
       CallKeeps, DoneKeeps DEF Compile
<1>2. CASE Begin
  BY <1>2, BeginKeeps
<1>3. CASE Execute
  BY <1>3, HandlerKeeps, ExecuteCallKeeps, FinishKeeps DEF Execute
<1>4. CASE UNCHANGED vars
  <2>1. UNCHANGED <<ast, phase, below, regs, instrs, mem, pc, truth, start, calls>>
    BY <1>4 DEF vars
  <2> QED
    BY <2>1, ValuesKeep DEF IInv, TypeOK
<1> QED
  BY <1>1, <1>2, <1>3, <1>4 DEF Next

THEOREM EintInv == Spec => []IInv
<1>1. Init => IInv
  BY InitInv
<1>2. IInv /\ [Next]_vars => IInv'
  BY NextInv
<1> QED
  BY <1>1, <1>2, PTL DEF Spec

\* Whatever is compiled and however often it is evaluated, the queues keep to their
\* sizes and all of the state has its type.
THEOREM EintTypeCorrect == Spec => []TypeOK
<1>1. IInv => TypeOK
  BY DEF IInv
<1> QED
  BY <1>1, EintInv, PTL

\* Every register of every compiled script has at most one instruction that writes
\* it, and only later instructions read it.
THEOREM RegistersAlwaysFlowForward == Spec => []RegistersFlowForward
<1>1. IInv => RegistersFlowForward
  BY DEF IInv
<1> QED
  BY <1>1, EintInv, PTL

-----------------------------------------------------------------------------
(* Recursion over the nodes: the functions that the meaning is told with   *)
(* exist, hence obey their definitions.                                    *)

LEMMA LeastNat ==
    ASSUME NEW T \in SUBSET Nat, T # {}
    PROVE  \E x \in T : \A y \in T : x <= y
<1> DEFINE R == OpToRel(<, Nat)
<1>1. IsWellFoundedOn(R, Nat)
  BY NatLessThanWellFounded DEF OpToRel
<1>2. PICK x \in T : \A y \in T : ~(<<y, x>> \in R)
  <2> HIDE DEF R
  <2> QED BY <1>1, WFMin
<1>3. \A y \in T : ~(y < x)
  BY <1>2 DEF OpToRel
<1>4. \A y \in T : x <= y
  BY <1>3
<1> QED BY <1>4

ToldBody(a, st, cs, f, k) == IF k = 0 THEN BeforeAll(st) ELSE AfterNode(a, k, f[k - 1], cs)
ToldTo(a, st, cs, m, f) == f = [k \in 0..m |-> ToldBody(a, st, cs, f, k)]

LEMMA ToldExists ==
    ASSUME NEW a, NEW st, NEW cs, NEW n \in Nat
    PROVE  \E f : ToldTo(a, st, cs, n, f)
<1> DEFINE T == {m \in Nat : ~\E f : ToldTo(a, st, cs, m, f)}
<1>1. SUFFICES ASSUME T # {} PROVE FALSE
  OBVIOUS
<1>2. PICK m \in T : \A y \in T : m <= y
  BY <1>1, LeastNat
<1>3. m # 0
  <2> DEFINE f == [k \in 0..0 |-> BeforeAll(st)]
  <2>1. f = [k \in 0..0 |-> ToldBody(a, st, cs, f, k)]
    BY DEF ToldBody
  <2> HIDE DEF f
  <2>2. ToldTo(a, st, cs, 0, f)
    BY <2>1 DEF ToldTo
  <2> QED BY <2>2
<1>4. m - 1 \in Nat /\ m \in Nat /\ m - 1 \notin T
  BY <1>2, <1>3
<1>5. PICK f : ToldTo(a, st, cs, m - 1, f)
  BY <1>4
<1> DEFINE g == [k \in 0..m |-> IF k = m THEN ToldBody(a, st, cs, f, m) ELSE f[k]]
<1>10. \A k \in 0..m : g[k] = IF k = m THEN ToldBody(a, st, cs, f, m) ELSE f[k]
  OBVIOUS
<1>11. g = [k \in 0..m |-> g[k]]
  OBVIOUS
<1> HIDE DEF g
<1>12. \A k \in 0..m - 1 : f[k] = ToldBody(a, st, cs, f, k)
  BY <1>5 DEF ToldTo
<1>6. \A k \in 0..m - 1 : k \in 0..m /\ k # m
  BY <1>4
<1>7. ASSUME NEW k \in 0..m PROVE g[k] = ToldBody(a, st, cs, g, k)
  <2>0. g[k] = ToldBody(a, st, cs, f, k)
    <3>1. CASE k = m
      BY <1>10, <3>1
    <3>2. CASE k # m
      <4>1. k \in 0..m - 1
        BY <1>4, <3>2
      <4> QED BY <1>10, <1>12, <3>2, <4>1
    <3> QED BY <3>1, <3>2
  <2>1. CASE k = 0
    BY <2>0, <2>1 DEF ToldBody
  <2>2. CASE k # 0
    <3>1. k - 1 \in 0..m - 1
      BY <1>4, <2>2
    <3>2. g[k - 1] = f[k - 1]
      BY <1>6, <1>10, <3>1
    <3>3. ToldBody(a, st, cs, g, k) = ToldBody(a, st, cs, f, k)
      BY <3>2 DEF ToldBody
    <3> QED BY <2>0, <3>3
  <2> QED BY <2>1, <2>2
<1>8. g = [k \in 0..m |-> ToldBody(a, st, cs, g, k)]
  BY <1>7, <1>11
<1>9. ToldTo(a, st, cs, m, g)
  BY <1>8 DEF ToldTo
<1> QED BY <1>2, <1>9

LEMMA ToldFacts ==
    ASSUME NEW a, Len(a) \in Nat, NEW st, NEW cs
    PROVE  /\ Told(a, st, cs)[0] = BeforeAll(st)
           /\ \A k \in 1..Len(a) : Told(a, st, cs)[k] = AfterNode(a, k, Told(a, st, cs)[k - 1], cs)
<1> DEFINE n == Len(a)
           t == Told(a, st, cs)
<1>1. PICK f : ToldTo(a, st, cs, n, f)
  BY ToldExists
<1>2. f = [k \in 0..n |-> IF k = 0 THEN BeforeAll(st)
                          ELSE LET p == f[k - 1] IN AfterNode(a, k, p, cs)]
  BY <1>1 DEF ToldTo, ToldBody
<1>3. t = CHOOSE g : g = [k \in 0..n |-> IF k = 0 THEN BeforeAll(st)
                          ELSE LET p == g[k - 1] IN AfterNode(a, k, p, cs)]
  BY DEF Told
<1>4. t = [k \in 0..n |-> IF k = 0 THEN BeforeAll(st)
                          ELSE LET p == t[k - 1] IN AfterNode(a, k, p, cs)]
  <2> HIDE DEF t
  <2> QED BY <1>2, <1>3
<1>5. 0 \in 0..n /\ \A k \in 1..n : k \in 0..n /\ k # 0
  OBVIOUS
<1> HIDE DEF t, n
<1>6. t[0] = BeforeAll(st) /\ \A k \in 1..n : t[k] = AfterNode(a, k, t[k - 1], cs)
  BY <1>4, <1>5
<1> QED BY <1>6 DEF t, n

LeavesBody(a, f, k) ==
    IF k = Null THEN <<>> ELSE IF a[k].op = "list" THEN f[a[k].l] \o f[a[k].r] ELSE <<k>>
LeavesTo(a, m, f) == f = [k \in 0..m |-> LeavesBody(a, f, k)]

LEMMA LeavesExist ==
    ASSUME NEW a, IsTree(a), NEW n \in Nat, n <= Len(a)
    PROVE  \E f : LeavesTo(a, n, f)
<1> DEFINE T == {m \in Nat : m <= n /\ ~\E f : LeavesTo(a, m, f)}
<1>1. SUFFICES ASSUME ~\E f : LeavesTo(a, n, f) PROVE FALSE
  OBVIOUS
<1>13. n \in T /\ T \in SUBSET Nat
  <2>1. n <= n
    OBVIOUS
  <2> QED BY <1>1, <2>1
<1>2. PICK m \in T : \A y \in T : m <= y
  <2> HIDE DEF T
  <2> QED BY <1>13, LeastNat
<1>3. m # 0
  <2> DEFINE f == [k \in 0..0 |-> <<>>]
  <2>1. f = [k \in 0..0 |-> LeavesBody(a, f, k)]
    BY DEF LeavesBody, Null
  <2> HIDE DEF f
  <2>2. LeavesTo(a, 0, f)
    BY <2>1 DEF LeavesTo
  <2> QED BY <2>2
<1>4. m - 1 \in Nat /\ m \in Nat /\ m - 1 \notin T /\ m <= n
  BY <1>2, <1>3
<1>5. PICK f : LeavesTo(a, m - 1, f)
  BY <1>4
<1> DEFINE g == [k \in 0..m |-> IF k = m THEN LeavesBody(a, f, m) ELSE f[k]]
<1>10. \A k \in 0..m : g[k] = IF k = m THEN LeavesBody(a, f, m) ELSE f[k]
  OBVIOUS
<1>11. g = [k \in 0..m |-> g[k]]
  OBVIOUS
<1> HIDE DEF g
<1>12. \A k \in 0..m - 1 : f[k] = LeavesBody(a, f, k)
  BY <1>5 DEF LeavesTo
<1>6. \A k \in 0..m - 1 : k \in 0..m /\ k # m
  BY <1>4
<1>7. ASSUME NEW k \in 0..m PROVE g[k] = LeavesBody(a, g, k)
  <2>0. g[k] = LeavesBody(a, f, k)
    <3>1. CASE k = m
      BY <1>10, <3>1
    <3>2. CASE k # m
      <4>1. k \in 0..m - 1
        BY <1>4, <3>2
      <4> QED BY <1>10, <1>12, <3>2, <4>1
    <3> QED BY <3>1, <3>2
  <2>1. CASE k = Null
    BY <2>0, <2>1 DEF LeavesBody
  <2>2. CASE k # Null
    <3>1. k \in DOMAIN a /\ m - 1 \in Nat
      <4>1. a \in Seq(NodeType)
        BY DEF IsTree
      <4> QED BY <1>4, <2>2, <4>1 DEF Null
    <3>2. a[k].l \in 0..m - 1 /\ a[k].r \in 0..m - 1
      <4>1. a[k].l \in 0..k - 1 /\ a[k].r \in 0..k - 1 /\ k \in Nat
        BY <3>1, TreeFacts
      <4> QED BY <3>1, <4>1
    <3>3. g[a[k].l] = f[a[k].l] /\ g[a[k].r] = f[a[k].r]
      BY <1>6, <1>10, <3>2
    <3>4. LeavesBody(a, g, k) = LeavesBody(a, f, k)
      BY <3>3 DEF LeavesBody
    <3> QED BY <2>0, <3>4
  <2> QED BY <2>1, <2>2
<1>8. g = [k \in 0..m |-> LeavesBody(a, g, k)]
  BY <1>7, <1>11
<1>9. LeavesTo(a, m, g)
  BY <1>8 DEF LeavesTo
<1> QED BY <1>2, <1>9

LEMMA LeavesFacts ==
    ASSUME NEW a, IsTree(a)
    PROVE  /\ Leaves(a)[Null] = <<>>
           /\ \A k \in 1..Len(a) :
                 Leaves(a)[k] = IF a[k].op = "list" THEN Leaves(a)[a[k].l] \o Leaves(a)[a[k].r]
                                ELSE <<k>>
<1> DEFINE n == Len(a)
           t == Leaves(a)
<1>0. n \in Nat
  BY DEF IsTree
<1>1. PICK f : LeavesTo(a, n, f)
  BY <1>0, LeavesExist
<1>2. f = [k \in 0..n |-> IF k = Null THEN <<>>
                          ELSE IF a[k].op = "list" THEN f[a[k].l] \o f[a[k].r] ELSE <<k>>]
  BY <1>1 DEF LeavesTo, LeavesBody
<1>3. t = CHOOSE g : g = [k \in 0..n |-> IF k = Null THEN <<>>
                          ELSE IF a[k].op = "list" THEN g[a[k].l] \o g[a[k].r] ELSE <<k>>]
  BY DEF Leaves
<1>4. t = [k \in 0..n |-> IF k = Null THEN <<>>
                          ELSE IF a[k].op = "list" THEN t[a[k].l] \o t[a[k].r] ELSE <<k>>]
  <2> HIDE DEF t
  <2> QED BY <1>2, <1>3
<1>5. Null \in 0..n /\ \A k \in 1..n : k \in 0..n /\ k # Null
  BY <1>0 DEF Null
<1> HIDE DEF t, n
<1>6. t[Null] = <<>>
  BY <1>4, <1>5
<1>7. \A k \in 1..n : t[k] = IF a[k].op = "list" THEN t[a[k].l] \o t[a[k].r] ELSE <<k>>
  BY <1>4, <1>5
<1> QED BY <1>6, <1>7 DEF t, n

-----------------------------------------------------------------------------
(* Between an expression and what it is part of nothing is assigned.       *)

Assigns(n) == n.op \in {"assign", "stmt"}

\* Only a statement has a node under it that assigns.
LEMMA KidFacts ==
    ASSUME NEW a, IsTree(a), NEW m \in DOMAIN a, NEW c \in Kids(a[m])
    PROVE  /\ c \in 1..m - 1 /\ c \in DOMAIN a
           /\ a[m].op # "stmt" => ~Assigns(a[c])
           /\ a[m].op # "stmt" => a[c].op \in Expressions \cup {"list"}
           /\ a[m].op \notin {"stmt", "list", "call"} => a[c].op \in Expressions
<1>1. /\ a[m].l \in 0..m - 1 /\ a[m].r \in 0..m - 1 /\ IsNode(a, m) /\ a \in Seq(NodeType)
      /\ m \in Nat /\ m <= Len(a) /\ Len(a) \in Nat
  BY TreeFacts
<1>2. c \in 1..m - 1 /\ c \in DOMAIN a
  BY <1>1 DEF Kids, Null
<1>3. a[m].op # "stmt" => a[c].op \in Expressions \cup {"list"}
  BY <1>1 DEF IsNode, Kids, Unary, Operators, Expressions
<1>4. a[m].op \notin {"stmt", "list", "call"} => a[c].op \in Expressions
  BY <1>1 DEF IsNode, Kids, Unary, Operators, Expressions
<1> QED BY <1>2, <1>3, <1>4 DEF Assigns, Expressions, Operators

\* The operands of an operator or an assignment.
LEMMA OperandNodes ==
    ASSUME NEW a, IsTree(a), NEW k \in DOMAIN a, a[k].op \in Operators \cup {"assign"}
    PROVE  /\ a[k].l \in 1..k - 1 /\ a[k].l \in Kids(a[k]) /\ a[a[k].l].op \in Expressions
           /\ a[k].op \in Unary \cup {"assign"} => a[k].r = Null
           /\ a[k].op \notin Unary \cup {"assign"} =>
                 /\ a[k].r \in 1..k - 1 /\ a[k].r \in Kids(a[k]) /\ a[k].r # Null
                 /\ a[a[k].r].op \in Expressions
<1>1. IsNode(a, k) /\ k \in Nat
  BY TreeFacts
<1>2. CASE a[k].op \in Unary \cup {"assign"}
  <2>1. a[k].l \in 1..k - 1 /\ a[a[k].l].op \in Expressions /\ a[k].r = Null
    BY <1>1, <1>2 DEF IsNode, Operators, Unary, Expressions
  <2> QED BY <1>1, <1>2, <2>1 DEF Kids, Null
<1>3. CASE a[k].op \notin Unary \cup {"assign"}
  <2>1. /\ a[k].l \in 1..k - 1 /\ a[a[k].l].op \in Expressions
        /\ a[k].r \in 1..k - 1 /\ a[a[k].r].op \in Expressions
    BY <1>1, <1>3 DEF IsNode, Operators, Unary, Expressions
  <2> QED BY <1>1, <1>3, <2>1 DEF Kids, Null
<1> QED BY <1>2, <1>3

LEMMA NothingAssigned ==
    ASSUME NEW a, IsTree(a), NEW m \in DOMAIN a, a[m].op # "stmt", NEW c \in Kids(a[m]),
           NEW j \in c..m - 1
    PROVE  ~Assigns(a[j])
<1>1. a \in Seq(NodeType) /\ m \in Nat /\ m <= Len(a) /\ Len(a) \in Nat
  BY TreeFacts
<1>2. c \in 1..m - 1 /\ ~Assigns(a[c])
  BY KidFacts
<1> DEFINE T == {x \in Nat : m - x \in (c + 1)..(m - 1) /\ Assigns(a[m - x])}
<1>3. SUFFICES ASSUME Assigns(a[j]) PROVE FALSE
  OBVIOUS
<1>4. m - j \in T
  <2>1. j # c /\ j \in (c + 1)..(m - 1) /\ m - j \in Nat /\ m - (m - j) = j
    BY <1>1, <1>2, <1>3
  <2> QED BY <1>3, <2>1
<1>5. PICK x \in T : \A y \in T : x <= y
  <2> HIDE DEF T
  <2>1. T \in SUBSET Nat
    BY DEF T
  <2> QED BY <1>4, <2>1, LeastNat
<1> DEFINE i == m - x
<1>6. i \in (c + 1)..(m - 1) /\ Assigns(a[i]) /\ x \in Nat
  BY <1>5
<1>7. PICK p \in (i + 1)..m : i \in Kids(a[p])
  <2>1. HasParent(a, i, m)
    BY <1>6 DEF IsTree
  <2> QED BY <2>1 DEF HasParent
<1>8. p \in DOMAIN a /\ p \in Nat
  BY <1>1, <1>2, <1>6, <1>7
<1>9. a[p].op = "stmt"
  BY <1>6, <1>7, <1>8, KidFacts
<1>10. p # m
  BY <1>9
<1>11. m - p \in T
  <2>1. p \in (c + 1)..(m - 1) /\ m - p \in Nat /\ m - (m - p) = p
    <3>1. c \in Nat /\ i \in Nat /\ c + 1 <= i
      BY <1>2, <1>6
    <3>2. i + 1 <= p /\ p <= m
      BY <1>1, <1>7, <1>8, <3>1
    <3> HIDE DEF i, T
    <3> QED BY <1>1, <1>8, <1>10, <3>1, <3>2
  <2> QED BY <1>9, <2>1 DEF Assigns
<1>12. m - p < x
  BY <1>1, <1>6, <1>7, <1>8
<1>13. x <= m - p
  BY <1>5, <1>11
<1> QED BY <1>1, <1>6, <1>8, <1>12, <1>13

\* The leaves of a list are expressions, and nothing is assigned from them on.
LeafOf(a, c, k) ==
    /\ c \in 1..k /\ c \in DOMAIN a /\ a[c].op \in Expressions
    /\ \A j \in c..k : ~Assigns(a[j])
LeavesFine(a, k) ==
    /\ Leaves(a)[k] \in Seq(DOMAIN a)
    /\ \A i \in DOMAIN Leaves(a)[k] : LeafOf(a, Leaves(a)[k][i], k)

LEMMA LeafFacts ==
    ASSUME NEW a, IsTree(a), NEW k \in DOMAIN a, a[k].op \in Expressions \cup {"list"}
    PROVE  LeavesFine(a, k)
<1> DEFINE T == {m \in Nat : m \in DOMAIN a /\ a[m].op \in Expressions \cup {"list"} /\ ~LeavesFine(a, m)}
<1>1. SUFFICES ASSUME T # {} PROVE FALSE
  <2>1. k \in Nat
    BY TreeFacts
  <2> QED BY <2>1
<1>2. PICK m \in T : \A y \in T : m <= y
  <2> HIDE DEF T
  <2>1. T \in SUBSET Nat
    BY DEF T
  <2> QED BY <1>1, <2>1, LeastNat
<1>3. m \in DOMAIN a /\ m \in 1..Len(a) /\ m \in Nat /\ Len(a) \in Nat /\ IsNode(a, m)
  BY <1>2, TreeFacts
<1>4. ~Assigns(a[m])
  BY <1>2 DEF Assigns, Expressions, Operators
<1>5. CASE a[m].op # "list"
  <2>1. Leaves(a)[m] = <<m>>
    BY <1>3, <1>5, LeavesFacts
  <2>2. a[m].op \in Expressions
    BY <1>2, <1>5
  <2>3. LeafOf(a, m, m)
    BY <1>3, <1>4, <2>2 DEF LeafOf
  <2>4. <<m>> \in Seq(DOMAIN a) /\ \A i \in DOMAIN <<m>> : <<m>>[i] = m
    BY <1>3
  <2>5. LeavesFine(a, m)
    BY <2>1, <2>3, <2>4 DEF LeavesFine
  <2> QED BY <1>2, <2>5
<1>6. CASE a[m].op = "list"
  <2>1. /\ a[m].l \in 1..(m - 1) /\ a[m].r \in 1..(m - 1)
        /\ a[a[m].l].op \in Expressions /\ a[a[m].r].op \in Expressions \cup {"list"}
    BY <1>3, <1>6 DEF IsNode, Expressions, Operators, Unary
  <2> DEFINE l == a[m].l
             r == a[m].r
  <2>2. l \in Kids(a[m]) /\ r \in Kids(a[m]) /\ l \in DOMAIN a /\ r \in DOMAIN a /\ l < m /\ r < m
        /\ l \in Nat /\ r \in Nat
    <3>1. a \in Seq(NodeType)
      BY DEF IsTree
    <3> QED BY <1>3, <2>1, <3>1 DEF Kids, Null
  <2>3. LeavesFine(a, l) /\ LeavesFine(a, r)
    BY <1>2, <1>3, <2>1, <2>2
  <2>4. Leaves(a)[m] = Leaves(a)[l] \o Leaves(a)[r]
    BY <1>3, <1>6, LeavesFacts
  <2> HIDE DEF l, r
  <2>5. ASSUME NEW h \in {l, r}, NEW c, LeafOf(a, c, h) PROVE LeafOf(a, c, m)
    <3>1. \A j \in h..m - 1 : ~Assigns(a[j])
      BY <1>3, <1>6, <2>2, NothingAssigned
    <3>2. c \in Nat /\ c <= h
      BY <2>5 DEF LeafOf
    <3>3. \A j \in c..m : j \in c..h \/ j \in h..m - 1 \/ j = m
      BY <1>3, <2>2, <3>2
    <3>4. \A j \in c..m : ~Assigns(a[j])
      BY <1>4, <2>5, <3>1, <3>3 DEF LeafOf
    <3> QED BY <1>3, <2>2, <2>5, <3>2, <3>4 DEF LeafOf
  <2>6. Leaves(a)[m] \in Seq(DOMAIN a)
    BY <2>3, <2>4 DEF LeavesFine
  <2>7. \A i \in DOMAIN Leaves(a)[m] :
            \/ \E j \in DOMAIN Leaves(a)[l] : Leaves(a)[m][i] = Leaves(a)[l][j]
            \/ \E j \in DOMAIN Leaves(a)[r] : Leaves(a)[m][i] = Leaves(a)[r][j]
    <3> DEFINE u == Leaves(a)[l]
               v == Leaves(a)[r]
    <3>1. u \in Seq(DOMAIN a) /\ v \in Seq(DOMAIN a)
      BY <2>3 DEF LeavesFine
    <3> HIDE DEF u, v
    <3>2. ASSUME NEW i \in DOMAIN (u \o v)
          PROVE  \/ i \in DOMAIN u /\ (u \o v)[i] = u[i]
                 \/ i - Len(u) \in DOMAIN v /\ (u \o v)[i] = v[i - Len(u)]
      BY <3>1
    <3>3. \A i \in DOMAIN (u \o v) : \/ \E j \in DOMAIN u : (u \o v)[i] = u[j]
                                     \/ \E j \in DOMAIN v : (u \o v)[i] = v[j]
      BY <3>2
    <3> QED BY <2>4, <3>3 DEF u, v
  <2>8. \A i \in DOMAIN Leaves(a)[m] : LeafOf(a, Leaves(a)[m][i], m)
    BY <2>3, <2>5, <2>7 DEF LeavesFine
  <2>9. LeavesFine(a, m)
    BY <2>6, <2>8 DEF LeavesFine
  <2> QED BY <1>2, <2>9
<1> QED BY <1>5, <1>6

-----------------------------------------------------------------------------
(* The code of the nodes compiled so far.  What it is made of is given by  *)
(* name: a is the tree, bl the cells below the nodes, rg the types of the  *)
(* registers, ins the instructions and mm the values of the cells; nd says *)
(* which node an instruction computes.                                     *)

Computes(n) == n.op \in Operators \cup {"assign", "call"}

TypeIn(rg, c) == IF c <= MaxRegs THEN rg[c] ELSE Symbols[c - MaxRegs].type
CellFor(bl, k) == bl[k][1]
GivenTo(a, bl, k) == IF a[k].l = Null THEN <<>> ELSE bl[a[k].l]

\* A register that no instruction writes.
Fixed(rg, ins, c) == c \in 1..Len(rg) /\ \A i \in DOMAIN ins : ins[i].res # c

ComputesOperator(a, bl, rg, k, n) ==
    LET l == CellFor(bl, a[k].l)
        r == CellFor(bl, a[k].r)
    IN  /\ n.args = IF a[k].r = Null THEN <<l>> ELSE <<l, r>>
        /\ n.tl = TypeIn(rg, l)
        /\ n.tr = IF a[k].r = Null THEN "na" ELSE TypeIn(rg, r)
        /\ n.res \in 1..Len(rg)
        /\ \E w \in RulesFor(a[k].op, n.tl, n.tr) : TypeIn(rg, n.res) = w.tres

AssignsSymbol(a, bl, rg, k, n) ==
    LET l == CellFor(bl, a[k].l)
    IN  /\ n.args = <<l>>
        /\ a[k].v \in Variables /\ n.res = CellOf(a[k].v)
        /\ n.tl = Symbols[a[k].v].type /\ n.tr = TypeIn(rg, l)
        /\ RulesFor("assign", n.tl, n.tr) # {}

\* A stateful function is given the memory of its node first.
CallsFunction(a, bl, rg, ins, mm, k, n) ==
    LET f == Symbols[a[k].v]
        given == GivenTo(a, bl, k)
    IN  /\ n.sym = a[k].v /\ f.kind = "func"
        /\ n.res \in 1..Len(rg) /\ TypeIn(rg, n.res) = f.type
        /\ ~f.stateful => n.args = given
        /\ f.stateful => /\ n.args = <<n.args[1]>> \o given
                         /\ Fixed(rg, ins, n.args[1]) /\ mm[n.args[1]] = k

Implements(a, bl, rg, ins, mm, k, n) ==
    /\ n.op = a[k].op /\ n.res = CellFor(bl, k)
    /\ a[k].op \in Operators => ComputesOperator(a, bl, rg, k, n)
    /\ a[k].op = "assign" => AssignsSymbol(a, bl, rg, k, n)
    /\ a[k].op = "call" => CallsFunction(a, bl, rg, ins, mm, k, n)

HoldsLeaf(a, bl, rg, ins, mm, k) ==
    LET c == CellFor(bl, k)
    IN  /\ a[k].op = "const" => /\ Fixed(rg, ins, c)
                                /\ mm[c] = a[k].v /\ TypeIn(rg, c) = a[k].type
        /\ a[k].op = "ref" => a[k].v \in Variables /\ c = CellOf(a[k].v)

CellsOfLeaves(a, bl, k) ==
    a[k].op \in Expressions \cup {"list"} =>
        /\ Len(bl[k]) = Len(Leaves(a)[k])
        /\ \A i \in DOMAIN Leaves(a)[k] : bl[k][i] = CellFor(bl, Leaves(a)[k][i])

Code(a, nd, bl, rg, ins, mm) ==
    /\ nd \in [1..Len(ins) -> 1..Len(bl)]
    /\ \A i, j \in 1..Len(ins) : i < j => nd[i] < nd[j]
    /\ \A k \in 1..Len(bl) : Computes(a[k]) => \E i \in 1..Len(ins) : nd[i] = k
    /\ \A i \in 1..Len(ins) : Implements(a, bl, rg, ins, mm, nd[i], ins[i])
    /\ \A k \in 1..Len(bl) : HoldsLeaf(a, bl, rg, ins, mm, k) /\ CellsOfLeaves(a, bl, k)

Extends(s, t) == /\ Len(s) \in Nat /\ Len(t) \in Nat /\ Len(s) <= Len(t)
                 /\ \A k \in 1..Len(s) : t[k] = s[k]

AllLive(bl, rg) == \A k \in 1..Len(bl) : /\ bl[k] \in Seq(Cells)
                                         /\ \A i \in DOMAIN bl[k] : LiveOver(rg, bl[k][i])
SomeCell(a, bl) == \A k \in 1..Len(bl) : a[k].op \notin {"list", "stmt"} => bl[k] # <<>>

\* The type of what is live does not change when registers are added.
LEMMA TypeStays ==
    ASSUME NEW rg, NEW rg2, Extends(rg, rg2), NEW c, LiveOver(rg, c)
    PROVE  TypeIn(rg2, c) = TypeIn(rg, c)
<1>1. CASE c \in 1..Len(rg)
  BY <1>1 DEF Extends, TypeIn
<1>2. CASE c \in VariableCells
  <2>1. ~(c <= MaxRegs)
    BY <1>2, EintAssumption, SymbolFacts DEF VariableCells
  <2> QED BY <2>1 DEF TypeIn
<1> QED BY <1>1, <1>2 DEF LiveOver

KeepsCode(a, bl, rg, ins, mm, bl2, rg2, ins2, mm2) ==
    \A k \in 1..Len(bl) :
        /\ \A n : Implements(a, bl, rg, ins, mm, k, n) => Implements(a, bl2, rg2, ins2, mm2, k, n)
        /\ HoldsLeaf(a, bl, rg, ins, mm, k) => HoldsLeaf(a, bl2, rg2, ins2, mm2, k)
        /\ CellsOfLeaves(a, bl, k) => CellsOfLeaves(a, bl2, k)

\* What is compiled stays as it is when more is compiled, and when it is executed.
LEMMA StaysCompiled ==
    ASSUME NEW a, IsTree(a), NEW bl, NEW rg, NEW ins, NEW mm, NEW bl2, NEW rg2, NEW ins2, NEW mm2,
           Extends(bl, bl2), Extends(rg, rg2), Len(bl) <= Len(a), AllLive(bl, rg), SomeCell(a, bl),
           \A c : Fixed(rg, ins, c) => Fixed(rg2, ins2, c) /\ mm2[c] = mm[c]
    PROVE  KeepsCode(a, bl, rg, ins, mm, bl2, rg2, ins2, mm2)
<1> SUFFICES ASSUME NEW k \in 1..Len(bl)
             PROVE  /\ \A n : Implements(a, bl, rg, ins, mm, k, n) => Implements(a, bl2, rg2, ins2, mm2, k, n)
                    /\ HoldsLeaf(a, bl, rg, ins, mm, k) => HoldsLeaf(a, bl2, rg2, ins2, mm2, k)
                    /\ CellsOfLeaves(a, bl, k) => CellsOfLeaves(a, bl2, k)
  BY DEF KeepsCode
<1>1. /\ k \in DOMAIN a /\ k \in Nat /\ a[k].l \in 0..k - 1 /\ a[k].r \in 0..k - 1 /\ IsNode(a, k)
      /\ Len(bl) \in Nat /\ Len(bl2) \in Nat /\ Len(rg) \in Nat /\ Len(rg2) \in Nat /\ Len(rg) <= Len(rg2)
  <2>1. a \in Seq(NodeType) /\ Len(bl) \in Nat
    BY DEF IsTree, Extends
  <2>2. k \in DOMAIN a
    BY <2>1
  <2> QED BY <2>2, TreeFacts DEF Extends
<1>2. bl2[k] = bl[k] /\ \A j \in 1..k : bl2[j] = bl[j] /\ j \in 1..Len(bl)
  BY <1>1 DEF Extends
<1>3. \A j \in 1..Len(bl) : a[j].op \notin {"list", "stmt"} => LiveOver(rg, CellFor(bl, j))
  <2> SUFFICES ASSUME NEW j \in 1..Len(bl), a[j].op \notin {"list", "stmt"}
               PROVE  LiveOver(rg, CellFor(bl, j))
    OBVIOUS
  <2>1. bl[j] \in Seq(Cells) /\ bl[j] # <<>>
    BY DEF AllLive, SomeCell
  <2>2. 1 \in DOMAIN bl[j]
    BY <2>1
  <2> QED BY <2>2 DEF AllLive, CellFor
<1>4. \A j \in 1..k : CellFor(bl2, j) = CellFor(bl, j)
  BY <1>2 DEF CellFor
<1>5. \A c : c \in 1..Len(rg) => LiveOver(rg, c) /\ c \in 1..Len(rg2)
  BY <1>1 DEF LiveOver
<1>6. \A c : LiveOver(rg, c) => TypeIn(rg2, c) = TypeIn(rg, c)
  BY TypeStays
<1>7. ASSUME NEW n, Implements(a, bl, rg, ins, mm, k, n)
      PROVE  Implements(a, bl2, rg2, ins2, mm2, k, n)
  <2>1. n.op = a[k].op /\ n.res = CellFor(bl2, k)
    BY <1>1, <1>4, <1>7 DEF Implements
  <2>2. ASSUME a[k].op \in Operators PROVE ComputesOperator(a, bl2, rg2, k, n)
    <3>1. ComputesOperator(a, bl, rg, k, n)
      BY <1>7, <2>2 DEF Implements
    <3>2. /\ a[k].l \in 1..k /\ a[a[k].l].op \notin {"list", "stmt"}
          /\ a[k].r = Null \/ (a[k].r \in 1..k /\ a[a[k].r].op \notin {"list", "stmt"})
      <4>1. \A x : x \in 1..k - 1 => x \in 1..k
        BY <1>1
      <4>2. \A op \in Expressions : op \notin {"list", "stmt"}
        BY DEF Expressions, Operators
      <4> QED BY <1>1, <2>2, <4>1, <4>2, OperandNodes
    <3> DEFINE l == CellFor(bl, a[k].l)
               r == CellFor(bl, a[k].r)
    <3>3. l = CellFor(bl2, a[k].l) /\ LiveOver(rg, l)
      BY <1>2, <1>3, <1>4, <3>2
    <3>4. a[k].r # Null => r = CellFor(bl2, a[k].r) /\ LiveOver(rg, r)
      BY <1>2, <1>3, <1>4, <3>2
    <3>5. n.res \in 1..Len(rg2) /\ TypeIn(rg2, n.res) = TypeIn(rg, n.res)
      BY <1>5, <1>6, <3>1 DEF ComputesOperator
    <3>6. TypeIn(rg2, l) = TypeIn(rg, l) /\ (a[k].r # Null => TypeIn(rg2, r) = TypeIn(rg, r))
      BY <1>6, <3>3, <3>4
    <3> QED BY <3>1, <3>3, <3>4, <3>5, <3>6 DEF ComputesOperator
  <2>3. ASSUME a[k].op = "assign" PROVE AssignsSymbol(a, bl2, rg2, k, n)
    <3>1. AssignsSymbol(a, bl, rg, k, n)
      BY <1>7, <2>3 DEF Implements
    <3>2. a[k].l \in 1..k /\ a[a[k].l].op \notin {"list", "stmt"}
      BY <1>1, <2>3, SMTT(20) DEF IsNode, Operators, Unary, Expressions
    <3>3. CellFor(bl, a[k].l) = CellFor(bl2, a[k].l) /\ LiveOver(rg, CellFor(bl, a[k].l))
      BY <1>2, <1>3, <1>4, <3>2
    <3> QED BY <1>6, <3>1, <3>3 DEF AssignsSymbol
  <2>4. ASSUME a[k].op = "call" PROVE CallsFunction(a, bl2, rg2, ins2, mm2, k, n)
    <3>1. CallsFunction(a, bl, rg, ins, mm, k, n)
      BY <1>7, <2>4 DEF Implements
    <3>2. GivenTo(a, bl2, k) = GivenTo(a, bl, k)
      BY <1>1, <1>2, SMTT(20) DEF GivenTo, Null
    <3>3. n.res \in 1..Len(rg2) /\ TypeIn(rg2, n.res) = TypeIn(rg, n.res)
      BY <1>5, <1>6, <3>1 DEF CallsFunction
    <3> QED BY <3>1, <3>2, <3>3 DEF CallsFunction
  <2> QED BY <2>1, <2>2, <2>3, <2>4 DEF Implements
<1>8. ASSUME HoldsLeaf(a, bl, rg, ins, mm, k) PROVE HoldsLeaf(a, bl2, rg2, ins2, mm2, k)
  <2>1. CellFor(bl2, k) = CellFor(bl, k)
    BY <1>1, <1>4
  <2>2. \A c : Fixed(rg, ins, c) => LiveOver(rg, c)
    BY <1>5 DEF Fixed
  <2> QED BY <1>6, <1>8, <2>1, <2>2 DEF HoldsLeaf
<1>9. ASSUME CellsOfLeaves(a, bl, k) PROVE CellsOfLeaves(a, bl2, k)
  <2> SUFFICES ASSUME a[k].op \in Expressions \cup {"list"}
               PROVE  /\ Len(bl2[k]) = Len(Leaves(a)[k])
                      /\ \A i \in DOMAIN Leaves(a)[k] : bl2[k][i] = CellFor(bl2, Leaves(a)[k][i])
    BY DEF CellsOfLeaves
  <2>1. \A i \in DOMAIN Leaves(a)[k] : Leaves(a)[k][i] \in 1..k
    BY <1>1, LeafFacts DEF LeavesFine, LeafOf
  <2> QED BY <1>2, <1>4, <1>9, <2>1 DEF CellsOfLeaves
<1> QED BY <1>7, <1>8, <1>9

LEMMA GrowsByOne ==
    ASSUME NEW S, NEW s \in Seq(S), NEW e \in S
    PROVE  /\ Append(s, e) \in Seq(S)
           /\ Extends(s, Append(s, e)) /\ Len(Append(s, e)) = Len(s) + 1
           /\ Append(s, e)[Len(s) + 1] = e
           /\ 1..Len(Append(s, e)) = 1..Len(s) \cup {Len(s) + 1}
BY AppendFacts DEF Extends

\* A node that needs no instruction.
LEMMA CodeWithout ==
    ASSUME NEW a, IsTree(a), NEW nd, NEW bl \in Seq(Seq(Cells)), NEW rg, NEW ins, NEW mm,
           Code(a, nd, bl, rg, ins, mm), AllLive(bl, rg), SomeCell(a, bl), Len(bl) < Len(a),
           NEW rg2, Extends(rg, rg2), NEW mm2, \A c \in 1..Len(rg) : mm2[c] = mm[c],
           NEW cells \in Seq(Cells), NEW bl2, bl2 = Append(bl, cells),
           NEW k, k = Len(bl) + 1, ~Computes(a[k]),
           HoldsLeaf(a, bl2, rg2, ins, mm2, k), CellsOfLeaves(a, bl2, k)
    PROVE  Code(a, nd, bl2, rg2, ins, mm2)
<1>1. /\ Extends(bl, bl2) /\ Len(bl2) = k /\ 1..Len(bl2) = 1..Len(bl) \cup {k} /\ Len(bl) \in Nat
  BY GrowsByOne
<1>2. \A c : Fixed(rg, ins, c) => Fixed(rg2, ins, c) /\ mm2[c] = mm[c]
  BY DEF Fixed, Extends
<1>3. Len(bl) <= Len(a)
  <2>1. a \in Seq(NodeType)
    BY DEF IsTree
  <2> QED BY <1>1, <2>1
<1>4. KeepsCode(a, bl, rg, ins, mm, bl2, rg2, ins, mm2)
  BY <1>1, <1>2, <1>3, StaysCompiled
<1>5. nd \in [1..Len(ins) -> 1..Len(bl)]
  BY DEF Code
<1>6. nd \in [1..Len(ins) -> 1..Len(bl2)]
  BY <1>1, <1>5
<1>7. \A j \in 1..Len(bl2) : Computes(a[j]) => \E i \in 1..Len(ins) : nd[i] = j
  BY <1>1 DEF Code
<1>8. \A i \in 1..Len(ins) : Implements(a, bl2, rg2, ins, mm2, nd[i], ins[i])
  BY <1>4, <1>5 DEF Code, KeepsCode
<1>9. \A j \in 1..Len(bl2) : HoldsLeaf(a, bl2, rg2, ins, mm2, j) /\ CellsOfLeaves(a, bl2, j)
  BY <1>1, <1>4 DEF Code, KeepsCode
<1>10. \A i, j \in 1..Len(ins) : i < j => nd[i] < nd[j]
  BY DEF Code
<1> QED BY <1>6, <1>7, <1>8, <1>9, <1>10 DEF Code

\* The code before a node, and a node with its instruction n, which writes nothing that
\* is in use.
CodeBefore(a, nd, bl, rg, ins, mm) ==
    /\ IsTree(a) /\ bl \in Seq(Seq(Cells)) /\ ins \in Seq(InstrType) /\ Len(bl) < Len(a)
    /\ Code(a, nd, bl, rg, ins, mm) /\ AllLive(bl, rg) /\ SomeCell(a, bl)

CodeAdded(a, bl, rg, ins, mm, bl2, rg2, ins2, mm2, cells, n) ==
    LET k == Len(bl) + 1
    IN  /\ Extends(rg, rg2) /\ \A c \in 1..Len(rg) : mm2[c] = mm[c]
        /\ cells \in Seq(Cells) /\ bl2 = Append(bl, cells)
        /\ n \in InstrType /\ n.res \notin 1..Len(rg) /\ ins2 = Append(ins, n)
        /\ Computes(a[k]) /\ Implements(a, bl2, rg2, ins2, mm2, k, n) /\ CellsOfLeaves(a, bl2, k)

LEMMA CodeWith ==
    ASSUME NEW a, NEW nd, NEW bl, NEW rg, NEW ins, NEW mm, CodeBefore(a, nd, bl, rg, ins, mm),
           NEW bl2, NEW rg2, NEW ins2, NEW mm2, NEW cells, NEW n,
           CodeAdded(a, bl, rg, ins, mm, bl2, rg2, ins2, mm2, cells, n)
    PROVE  \E nd2 : Code(a, nd2, bl2, rg2, ins2, mm2)
<1> DEFINE k == Len(bl) + 1
<1>a. /\ IsTree(a) /\ bl \in Seq(Seq(Cells)) /\ ins \in Seq(InstrType) /\ Len(bl) < Len(a)
      /\ Code(a, nd, bl, rg, ins, mm) /\ AllLive(bl, rg) /\ SomeCell(a, bl)
  BY DEF CodeBefore
<1>b. /\ Extends(rg, rg2) /\ \A c \in 1..Len(rg) : mm2[c] = mm[c]
      /\ cells \in Seq(Cells) /\ bl2 = Append(bl, cells)
      /\ n \in InstrType /\ n.res \notin 1..Len(rg) /\ ins2 = Append(ins, n)
      /\ Computes(a[k]) /\ Implements(a, bl2, rg2, ins2, mm2, k, n) /\ CellsOfLeaves(a, bl2, k)
      /\ k = Len(bl) + 1
  BY DEF CodeAdded
<1> HIDE DEF k
<1> USE <1>a, <1>b
<1>1. /\ Extends(bl, bl2) /\ Len(bl2) = k /\ 1..Len(bl2) = 1..Len(bl) \cup {k} /\ Len(bl) \in Nat
  BY GrowsByOne
<1>2. /\ Len(ins) \in Nat /\ 1..Len(ins2) = 1..Len(ins) \cup {Len(ins) + 1}
      /\ DOMAIN ins = 1..Len(ins) /\ DOMAIN ins2 = 1..Len(ins2)
      /\ ins2[Len(ins) + 1] = n /\ \A i \in 1..Len(ins) : ins2[i] = ins[i]
  BY AppendFacts
<1>3. \A c : Fixed(rg, ins, c) => Fixed(rg2, ins2, c) /\ mm2[c] = mm[c]
  BY <1>2, SMTT(20) DEF Fixed, Extends
<1>4. Len(bl) <= Len(a)
  <2>1. a \in Seq(NodeType)
    BY DEF IsTree
  <2> QED BY <1>1, <2>1
<1>5. KeepsCode(a, bl, rg, ins, mm, bl2, rg2, ins2, mm2)
  BY <1>1, <1>3, <1>4, StaysCompiled
<1>6. nd \in [1..Len(ins) -> 1..Len(bl)]
  BY DEF Code
<1> DEFINE nd2 == [i \in 1..Len(ins2) |-> IF i = Len(ins) + 1 THEN k ELSE nd[i]]
<1>7. nd2[Len(ins) + 1] = k /\ \A i \in 1..Len(ins) : nd2[i] = nd[i] /\ nd[i] < k
  <2>1. \A i \in 1..Len(ins) : i # Len(ins) + 1 /\ i \in 1..Len(ins2) /\ nd[i] \in 1..Len(bl)
    BY <1>2, <1>6
  <2> QED BY <1>1, <1>2, <2>1
<1>8. nd2 \in [1..Len(ins2) -> 1..Len(bl2)]
  BY <1>1, <1>2, <1>6
<1> HIDE DEF nd2
<1>9. \A i, j \in 1..Len(ins2) : i < j => nd2[i] < nd2[j]
  <2> SUFFICES ASSUME NEW i \in 1..Len(ins2), NEW j \in 1..Len(ins2), i < j
               PROVE  nd2[i] < nd2[j]
    OBVIOUS
  <2>1. i \in 1..Len(ins)
    BY <1>2
  <2>2. CASE j = Len(ins) + 1
    BY <1>7, <2>1, <2>2
  <2>3. CASE j \in 1..Len(ins)
    BY <1>7, <2>1, <2>3 DEF Code
  <2> QED BY <1>2, <2>2, <2>3
<1>10. \A j \in 1..Len(bl2) : Computes(a[j]) => \E i \in 1..Len(ins2) : nd2[i] = j
  <2> SUFFICES ASSUME NEW j \in 1..Len(bl2), Computes(a[j]) PROVE \E i \in 1..Len(ins2) : nd2[i] = j
    OBVIOUS
  <2>1. CASE j = k
    BY <1>2, <1>7, <2>1
  <2>2. CASE j \in 1..Len(bl)
    <3>1. PICK i \in 1..Len(ins) : nd[i] = j
      BY <2>2 DEF Code
    <3> QED BY <1>2, <1>7, <3>1
  <2> QED BY <1>1, <2>1, <2>2
<1>11. \A i \in 1..Len(ins2) : Implements(a, bl2, rg2, ins2, mm2, nd2[i], ins2[i])
  <2> SUFFICES ASSUME NEW i \in 1..Len(ins2)
               PROVE  Implements(a, bl2, rg2, ins2, mm2, nd2[i], ins2[i])
    OBVIOUS
  <2>1. CASE i = Len(ins) + 1
    BY <1>2, <1>7, <2>1
  <2>2. CASE i \in 1..Len(ins)
    <3>1. Implements(a, bl, rg, ins, mm, nd[i], ins[i]) /\ nd[i] \in 1..Len(bl)
      BY <1>6, <2>2 DEF Code
    <3> QED BY <1>2, <1>5, <1>7, <2>2, <3>1 DEF KeepsCode
  <2> QED BY <1>2, <2>1, <2>2
<1>12. HoldsLeaf(a, bl2, rg2, ins2, mm2, k)
  BY DEF HoldsLeaf, Computes, Operators
<1>13. \A j \in 1..Len(bl2) : HoldsLeaf(a, bl2, rg2, ins2, mm2, j) /\ CellsOfLeaves(a, bl2, j)
  BY <1>1, <1>5, <1>12 DEF Code, KeepsCode
<1>14. Code(a, nd2, bl2, rg2, ins2, mm2)
  BY <1>8, <1>9, <1>10, <1>11, <1>13 DEF Code
<1> QED BY <1>14

-----------------------------------------------------------------------------
(* Compiling a node.                                                       *)

Compiled == \E nd : Code(ast, nd, below, regs, instrs, mem)

LEMMA CompileFacts ==
    ASSUME IInv, phase = "compiling", Len(below) < Len(ast)
    PROVE  /\ IsTree(ast) /\ below \in Seq(Seq(Cells)) /\ instrs \in Seq(InstrType)
           /\ regs \in Seq(Types) /\ Len(regs) \in Nat /\ Len(regs) <= MaxRegs /\ MaxRegs \in Nat
           /\ mem \in [Cells -> Int]
           /\ AllLive(below, regs) /\ SomeCell(ast, below) /\ Extends(regs, regs)
           /\ Len(below) + 1 \in DOMAIN ast /\ Node = ast[Len(below) + 1] /\ IsNode(ast, Len(below) + 1)
           /\ Len(below) \in Nat
           /\ \A i \in DOMAIN instrs : \A c \in Len(regs) + 1..MaxRegs : instrs[i].res # c
<1>1. /\ IsTree(ast) /\ below \in Seq(Seq(Cells)) /\ instrs \in Seq(InstrType)
      /\ regs \in Seq(Types) /\ Len(regs) <= MaxRegs /\ mem \in [Cells -> Int] /\ MaxRegs \in Nat
      /\ ast \in Seq(NodeType)
  BY EintAssumption DEF IInv, TypeOK, IsTree
<1>2. Len(regs) \in Nat /\ Extends(regs, regs)
  BY <1>1 DEF Extends
<1>3. AllLive(below, regs)
  BY <1>1 DEF IInv, BelowInv, AllLive
<1>4. SomeCell(ast, below)
  BY <1>1 DEF IInv, BelowInv, SomeCell
<1>5. Len(below) + 1 \in DOMAIN ast /\ Node = ast[Len(below) + 1] /\ Len(below) \in Nat
  BY <1>1 DEF Node
<1>6. IsNode(ast, Len(below) + 1)
  BY <1>1, <1>5, TreeFacts
<1>7. ASSUME NEW i \in DOMAIN instrs, NEW c \in Len(regs) + 1..MaxRegs PROVE instrs[i].res # c
  <2>1. LiveOver(regs, instrs[i].res)
    BY DEF IInv, InstrInv
  <2> QED BY <1>1, <1>2, <2>1, SymbolFacts DEF LiveOver, VariableCells
<1> QED BY <1>1, <1>2, <1>3, <1>4, <1>5, <1>6, <1>7

\* An expression leaves one cell.
LEMMA OneCell ==
    ASSUME NEW a, IsTree(a), NEW bl, NEW k \in DOMAIN a, a[k].op # "list", NEW c, bl[k] = <<c>>
    PROVE  CellsOfLeaves(a, bl, k) /\ CellFor(bl, k) = c
<1>1. k \in 1..Len(a)
  BY TreeFacts
<1>2. Leaves(a)[k] = <<k>>
  BY <1>1, LeavesFacts
<1>3. DOMAIN <<k>> = {1} /\ Len(<<k>>) = 1 /\ <<k>>[1] = k /\ Len(<<c>>) = 1 /\ <<c>>[1] = c
  OBVIOUS
<1> QED BY <1>2, <1>3 DEF CellsOfLeaves, CellFor

LEMMA ConstCompiled ==
    ASSUME IInv, Compiled, CompileConst
    PROVE  Compiled'
<1>1. phase = "compiling" /\ Len(below) < Len(ast) /\ Node.op = "const"
  BY DEF CompileConst, Compiling
<1>2. CASE StopWith("crashed")
  BY <1>2 DEF StopWith, Compiled
<1>3. CASE /\ ~RegsFull(regs)
           /\ regs' = Append(regs, Node.type)
           /\ mem' = [mem EXCEPT ![Len(regs) + 1] = Node.v]
           /\ below' = Append(below, <<Len(regs) + 1>>)
           /\ UNCHANGED <<ast, phase, instrs, pc, truth, start, calls>>
  <2> DEFINE k == Len(below) + 1
             c == Len(regs) + 1
  <2>1. k \in DOMAIN ast /\ Node = ast[k] /\ Node.type \in Types /\ IsTree(ast)
    BY <1>1, CompileFacts, NodeFacts
  <2>2. c \in Len(regs) + 1..MaxRegs /\ c \in Cells /\ c \in Nat
    BY <1>1, <1>3, CompileFacts, SymbolFacts DEF RegsFull, Cells
  <2>3. regs \in Seq(Types) /\ below \in Seq(Seq(Cells)) /\ <<c>> \in Seq(Cells)
    BY <1>1, <2>2, CompileFacts
  <2>4. Extends(regs, regs') /\ regs'[c] = Node.type /\ c \in 1..Len(regs')
    BY <1>3, <2>1, <2>3, GrowsByOne
  <2>5. below'[k] = <<c>>
    BY <1>3, <2>3, GrowsByOne
  <2>6. mem'[c] = Node.v /\ \A d \in 1..Len(regs) : mem'[d] = mem[d]
    BY <1>1, <1>3, <2>2, CompileFacts, SymbolFacts DEF Cells
  <2>7. TypeIn(regs', c) = Node.type
    BY <2>2, <2>4 DEF TypeIn
  <2>8. CellsOfLeaves(ast, below', k) /\ CellFor(below', k) = c
    BY <1>1, <2>1, <2>5, OneCell
  <2>9. Fixed(regs', instrs, c)
    BY <1>1, <2>2, <2>4, CompileFacts DEF Fixed
  <2>10. HoldsLeaf(ast, below', regs', instrs, mem', k)
    BY <1>1, <2>1, <2>6, <2>7, <2>8, <2>9 DEF HoldsLeaf
  <2>11. ~Computes(ast[k])
    BY <1>1, <2>1 DEF Computes, Operators
  <2>12. PICK nd : Code(ast, nd, below, regs, instrs, mem)
    BY DEF Compiled
  <2> HIDE DEF c
  <2>13. Code(ast, nd, below', regs', instrs, mem')
    <3> DEFINE cells == <<c>>
    <3>1. below' = Append(below, cells) /\ cells \in Seq(Cells)
      BY <1>3, <2>3 DEF c
    <3>2. IsTree(ast) /\ AllLive(below, regs) /\ SomeCell(ast, below)
      BY <1>1, CompileFacts
    <3> HIDE DEF cells
    <3> QED BY <1>1, <2>3, <2>4, <2>6, <2>8, <2>10, <2>11, <2>12, <3>1, <3>2, CodeWithout
  <2> QED BY <1>3, <2>13 DEF Compiled
<1> QED BY <1>2, <1>3 DEF CompileConst

LEMMA ReferenceCompiled ==
    ASSUME IInv, Compiled, CompileReference
    PROVE  Compiled'
<1>1. phase = "compiling" /\ Len(below) < Len(ast) /\ Node.op = "ref"
  BY DEF CompileReference, Compiling
<1>2. CASE StopWith("refused")
  BY <1>2 DEF StopWith, Compiled
<1>3. CASE /\ Node.v \in Variables
           /\ below' = Append(below, <<CellOf(Node.v)>>)
           /\ UNCHANGED <<ast, phase, regs, instrs, mem, pc, truth, start, calls>>
  <2> DEFINE k == Len(below) + 1
             c == CellOf(Node.v)
  <2>1. k \in DOMAIN ast /\ Node = ast[k] /\ IsTree(ast)
    BY <1>1, CompileFacts
  <2>2. c \in Cells
    BY <1>3, SymbolFacts DEF Variables
  <2>3. below \in Seq(Seq(Cells)) /\ <<c>> \in Seq(Cells)
    BY <1>1, <2>2, CompileFacts
  <2>5. below'[k] = <<c>>
    BY <1>3, <2>3, GrowsByOne
  <2>8. CellsOfLeaves(ast, below', k) /\ CellFor(below', k) = c
    BY <1>1, <2>1, <2>5, OneCell
  <2>10. HoldsLeaf(ast, below', regs, instrs, mem, k)
    BY <1>1, <1>3, <2>1, <2>8 DEF HoldsLeaf
  <2>11. ~Computes(ast[k])
    BY <1>1, <2>1 DEF Computes, Operators
  <2>12. PICK nd : Code(ast, nd, below, regs, instrs, mem)
    BY DEF Compiled
  <2> HIDE DEF c
  <2>13. Code(ast, nd, below', regs, instrs, mem)
    BY <1>1, <1>3, <2>3, <2>8, <2>10, <2>11, <2>12, CompileFacts, CodeWithout DEF c
  <2> QED BY <1>3, <2>13 DEF Compiled
<1> QED BY <1>2, <1>3 DEF CompileReference

\* The cells of a list are those of its leaves.
LEMMA ListCells ==
    ASSUME NEW a, IsTree(a), NEW k \in DOMAIN a, a[k].op = "list",
           NEW bl, Len(bl) \in Nat, k = Len(bl) + 1,
           \A j \in 1..Len(bl) : bl[j] \in Seq(Cells) /\ CellsOfLeaves(a, bl, j),
           NEW bl2, Extends(bl, bl2), bl2[k] = bl[a[k].l] \o bl[a[k].r]
    PROVE  CellsOfLeaves(a, bl2, k)
<1> DEFINE l == a[k].l
           r == a[k].r
           u == Leaves(a)[l]
           v == Leaves(a)[r]
<1>1. /\ l \in 1..Len(bl) /\ r \in 1..Len(bl) /\ l \in DOMAIN a /\ r \in DOMAIN a
      /\ a[l].op \in Expressions \cup {"list"} /\ a[r].op \in Expressions \cup {"list"}
      /\ k \in 1..Len(a)
  <2>1. IsNode(a, k) /\ k \in Nat /\ k <= Len(a) /\ Len(a) \in Nat /\ a \in Seq(NodeType)
    BY TreeFacts
  <2>2. /\ l \in 1..(k - 1) /\ r \in 1..(k - 1)
        /\ a[l].op \in Expressions \cup {"list"} /\ a[r].op \in Expressions \cup {"list"}
    BY <2>1 DEF IsNode, Expressions, Operators, Unary
  <2> QED BY <2>1, <2>2
<1>2. Leaves(a)[k] = u \o v
  BY <1>1, LeavesFacts
<1>3. /\ u \in Seq(DOMAIN a) /\ \A i \in DOMAIN u : u[i] \in 1..l
      /\ v \in Seq(DOMAIN a) /\ \A i \in DOMAIN v : v[i] \in 1..r
  BY <1>1, LeafFacts DEF LeavesFine, LeafOf
<1>4. /\ Len(bl[l]) = Len(u) /\ \A i \in DOMAIN u : bl[l][i] = CellFor(bl, u[i])
      /\ Len(bl[r]) = Len(v) /\ \A i \in DOMAIN v : bl[r][i] = CellFor(bl, v[i])
  BY <1>1 DEF CellsOfLeaves
<1>5. bl[l] \in Seq(Cells) /\ bl[r] \in Seq(Cells)
  BY <1>1
<1>6. \A j \in 1..Len(bl) : CellFor(bl2, j) = CellFor(bl, j)
  BY DEF Extends, CellFor
<1> DEFINE p == bl[l]
           q == bl[r]
<1>9. \A i \in DOMAIN u : u[i] \in 1..Len(bl)
  BY <1>1, <1>3, SMTT(20)
<1>10. \A i \in DOMAIN v : v[i] \in 1..Len(bl)
  <2>1. r \in Nat /\ r <= Len(bl) /\ \A j \in 1..r : j \in 1..Len(bl)
    BY <1>1
  <2> HIDE DEF v, r
  <2> QED BY <1>3, <2>1
<1>7. /\ Len(p) = Len(u) /\ \A i \in DOMAIN u : p[i] = CellFor(bl2, u[i])
      /\ Len(q) = Len(v) /\ \A i \in DOMAIN v : q[i] = CellFor(bl2, v[i])
  BY <1>4, <1>6, <1>9, <1>10
<1>11. p \in Seq(Cells) /\ q \in Seq(Cells) /\ u \in Seq(DOMAIN a) /\ v \in Seq(DOMAIN a)
  BY <1>3, <1>5
<1>12. bl2[k] = p \o q
  OBVIOUS
<1> HIDE DEF p, q, u, v
<1>8. Len(p \o q) = Len(u \o v)
  <2>1. Len(p \o q) = Len(p) + Len(q)
    BY <1>11
  <2>2. Len(u \o v) = Len(u) + Len(v)
    BY <1>11
  <2> QED BY <1>7, <2>1, <2>2
<1>13. ASSUME NEW i \in DOMAIN (u \o v) PROVE (p \o q)[i] = CellFor(bl2, (u \o v)[i])
  <2>1. CASE i <= Len(u)
    <3>1. i \in DOMAIN u /\ (u \o v)[i] = u[i] /\ (p \o q)[i] = p[i]
      BY <1>7, <1>11, <2>1
    <3> QED BY <1>7, <3>1
  <2>2. CASE ~(i <= Len(u))
    <3>1. i - Len(u) \in DOMAIN v /\ (u \o v)[i] = v[i - Len(u)] /\ (p \o q)[i] = q[i - Len(u)]
      BY <1>7, <1>11, <2>2
    <3> QED BY <1>7, <3>1
  <2> QED BY <2>1, <2>2
<1> QED BY <1>2, <1>8, <1>12, <1>13 DEF CellsOfLeaves

LEMMA FlowCompiled ==
    ASSUME IInv, Compiled, CompileFlow
    PROVE  Compiled'
<1>1. /\ phase = "compiling" /\ Len(below) < Len(ast) /\ Node.op \in {"list", "stmt"}
      /\ below' = Append(below, IF Node.op = "stmt" \/ Node.r = Null THEN <<>>
                                ELSE below[Node.l] \o below[Node.r])
      /\ UNCHANGED <<ast, phase, regs, instrs, mem, pc, truth, start, calls>>
  BY DEF CompileFlow, Compiling
<1> DEFINE k == Len(below) + 1
           cells == IF Node.op = "stmt" \/ Node.r = Null THEN <<>>
                    ELSE below[Node.l] \o below[Node.r]
<1>2. k \in DOMAIN ast /\ Node = ast[k] /\ IsTree(ast) /\ below \in Seq(Seq(Cells)) /\ Len(below) \in Nat
  BY <1>1, CompileFacts
<1>3. PICK nd : Code(ast, nd, below, regs, instrs, mem)
  BY DEF Compiled
<1>4. cells \in Seq(Cells)
  <2>1. CASE Node.op = "stmt" \/ Node.r = Null
    BY <2>1
  <2>2. CASE ~(Node.op = "stmt" \/ Node.r = Null)
    <3>1. Node.l \in DOMAIN below /\ Node.r \in DOMAIN below
      BY <1>1, <1>2, <2>2, NodeFacts DEF Null
    <3>2. below[Node.l] \in Seq(Cells) /\ below[Node.r] \in Seq(Cells)
      BY <1>2, <3>1
    <3> QED BY <2>2, <3>2
  <2> QED BY <2>1, <2>2
<1>5. Extends(below, below') /\ below'[k] = cells
  <2>1. below' = Append(below, cells)
    BY <1>1
  <2> HIDE DEF cells
  <2> QED BY <1>2, <1>4, <2>1, GrowsByOne
<1>6. CellsOfLeaves(ast, below', k)
  <2>1. CASE Node.op = "stmt"
    BY <1>2, <2>1 DEF CellsOfLeaves, Expressions, Operators
  <2>2. CASE Node.op = "list"
    <3>1. Node.r # Null
      BY <1>1, <1>2, <2>2, CompileFacts DEF IsNode, Operators, Unary, Null
    <3>2. cells = below[ast[k].l] \o below[ast[k].r]
      BY <1>2, <2>2, <3>1
    <3>3. \A j \in 1..Len(below) : below[j] \in Seq(Cells) /\ CellsOfLeaves(ast, below, j)
      BY <1>2, <1>3 DEF Code
    <3> HIDE DEF cells
    <3> QED BY <1>2, <1>5, <2>2, <3>2, <3>3, ListCells
  <2> QED BY <1>1, <2>1, <2>2
<1>7. ~Computes(ast[k]) /\ HoldsLeaf(ast, below', regs, instrs, mem, k)
  BY <1>1, <1>2 DEF Computes, Operators, HoldsLeaf
<1> HIDE DEF cells
<1>8. below' = Append(below, cells)
  BY <1>1 DEF cells
<1>10. Extends(regs, regs) /\ \A c \in 1..Len(regs) : mem[c] = mem[c]
  BY <1>1, CompileFacts
<1>9. Code(ast, nd, below', regs, instrs, mem)
  BY <1>1, <1>2, <1>3, <1>4, <1>6, <1>7, <1>8, <1>10, CompileFacts, CodeWithout
<1> QED BY <1>1, <1>9 DEF Compiled

\* What an operator or a call is computed from, as it is compiled.
OperatorGiven(type, tl, tr, args) ==
    LET l == CellFor(below, Node.l)
        r == CellFor(below, Node.r)
    IN  /\ args = IF Node.r = Null THEN <<l>> ELSE <<l, r>>
        /\ tl = TypeIn(regs, l)
        /\ tr = IF Node.r = Null THEN "na" ELSE TypeIn(regs, r)
        /\ \E w \in RulesFor(Node.op, tl, tr) : type = w.tres

CallGiven(rs, m, type, sym, args) ==
    LET f == Symbols[Node.v]
        given == GivenTo(ast, below, Len(below) + 1)
    IN  /\ sym = Node.v /\ f.kind = "func" /\ type = f.type
        /\ ~f.stateful => args = given
        /\ f.stateful => /\ args = <<Len(rs)>> \o given
                         /\ Len(rs) = Len(regs) + 1 /\ m[Len(rs)] = Len(below) + 1

\* The operands of an operator and of an assignment are compiled and live.
LEMMA OperandCells ==
    ASSUME IInv, phase = "compiling", Len(below) < Len(ast), Node.op \in Operators \cup {"assign"}
    PROVE  /\ Node.l \in 1..Len(below) /\ LiveOver(regs, CellFor(below, Node.l))
           /\ Node.r # Null => Node.r \in 1..Len(below) /\ LiveOver(regs, CellFor(below, Node.r))
<1>1. Node.l \in DOMAIN below /\ below \in Seq(Seq(Cells)) /\ Len(below) \in Nat
  BY NodeFacts, CompileFacts
<1>2. Node.l \in 1..Len(below) /\ (Node.r # Null => Node.r \in 1..Len(below))
  BY <1>1, NodeFacts DEF Null
<1>3. LiveOver(regs, Operand(Node.l)) /\ (Node.r # Null => LiveOver(regs, Operand(Node.r)))
  BY OperandFacts
<1> QED BY <1>2, <1>3 DEF Operand, CellFor

LEMMA AddCompiled ==
    ASSUME IInv, Compiled, phase = "compiling", Len(below) < Len(ast),
           NEW rs \in Seq(Types), Extends(regs, rs), Len(rs) <= MaxRegs,
           NEW m \in [Cells -> Int], \A c \in 1..Len(regs) : m[c] = mem[c], NEW type \in Types,
           Node.op \in Operators \cup {"call"}, NEW tl \in Types, NEW tr \in Types,
           NEW sym \in Nat, NEW args \in Seq(Cells),
           Node.op \in Operators => OperatorGiven(type, tl, tr, args),
           Node.op = "call" => CallGiven(rs, m, type, sym, args),
           AddComputation(rs, m, type, Node.op, tl, tr, sym, args)
    PROVE  Compiled'
<1>1. CASE StopWith("refused") \/ StopWith("crashed")
  BY <1>1 DEF StopWith, Compiled
<1>2. CASE /\ Len(instrs) < MaxInstr /\ ~RegsFull(rs)
           /\ regs' = Append(rs, type)
           /\ instrs' = Append(instrs, Instr(Node.op, tl, tr, sym, args, ResultRegister(rs)))
           /\ below' = Append(below, <<ResultRegister(rs)>>)
           /\ mem' = m
           /\ UNCHANGED <<ast, phase, pc, truth, start, calls>>
  <2> DEFINE k == Len(below) + 1
             r == ResultRegister(rs)
             n == Instr(Node.op, tl, tr, sym, args, r)
  <2>1. /\ k \in DOMAIN ast /\ Node = ast[k] /\ IsTree(ast) /\ below \in Seq(Seq(Cells))
        /\ Len(below) \in Nat /\ instrs \in Seq(InstrType) /\ MaxRegs \in Nat
        /\ AllLive(below, regs) /\ SomeCell(ast, below)
    BY CompileFacts
  <2>2. /\ Len(rs) \in Nat /\ Len(regs) \in Nat /\ Len(regs) <= Len(rs) /\ r = Len(rs) + 1
        /\ r \in Len(regs) + 1..MaxRegs /\ r \in Cells
    BY <1>2, <2>1, SymbolFacts DEF Extends, RegsFull, ResultRegister, Cells
  <2>3. Extends(rs, regs') /\ regs'[r] = type /\ r \in 1..Len(regs') /\ Len(regs') = Len(rs) + 1
    BY <1>2, <2>2, GrowsByOne
  <2>4. Extends(regs, regs')
    BY <2>3 DEF Extends
  <2>5. Extends(below, below') /\ below'[k] = <<r>> /\ <<r>> \in Seq(Cells) /\ below' = Append(below, <<r>>)
    <3>1. <<r>> \in Seq(Cells)
      BY <2>2
    <3> HIDE DEF r
    <3>2. below' = Append(below, <<r>>)
      BY <1>2 DEF r
    <3>3. Extends(below, Append(below, <<r>>)) /\ Append(below, <<r>>)[Len(below) + 1] = <<r>>
      <4> DEFINE cells == <<r>>
      <4>1. cells \in Seq(Cells)
        BY <3>1
      <4> HIDE DEF cells
      <4>2. Extends(below, Append(below, cells)) /\ Append(below, cells)[Len(below) + 1] = cells
        BY <2>1, <4>1, GrowsByOne
      <4> QED BY <4>2 DEF cells
    <3> QED BY <3>1, <3>2, <3>3
  <2>6. CellsOfLeaves(ast, below', k) /\ CellFor(below', k) = r
    <3>1. Node.op # "list"
      BY DEF Operators
    <3> HIDE DEF r
    <3> QED BY <2>1, <2>5, <3>1, OneCell
  <2>7. /\ n.op = Node.op /\ n.tl = tl /\ n.tr = tr /\ n.sym = sym /\ n.args = args /\ n.res = r
        /\ n \in InstrType
    BY <2>2 DEF Instr, InstrType, NodeOps, Operators
  <2>8. instrs' = Append(instrs, n)
    BY <1>2
  <2> HIDE DEF n, r
  <2>9. /\ DOMAIN instrs = 1..Len(instrs) /\ DOMAIN instrs' = 1..Len(instrs) + 1 /\ Len(instrs) \in Nat
        /\ \A i \in DOMAIN instrs : instrs'[i] = instrs[i]
        /\ instrs'[Len(instrs) + 1] = n
    BY <2>1, <2>7, <2>8, AppendFacts
  <2>10. TypeIn(regs', r) = type
    BY <2>2, <2>3 DEF TypeIn
  <2>11. \A j \in 1..Len(below) : CellFor(below', j) = CellFor(below, j) /\ below'[j] = below[j]
    BY <2>5 DEF Extends, CellFor
  <2>12. ASSUME Node.op \in Operators PROVE ComputesOperator(ast, below', regs', k, n)
    <3>1. OperatorGiven(type, tl, tr, args)
      BY <2>12
    <3>2. /\ Node.l \in 1..Len(below) /\ LiveOver(regs, CellFor(below, Node.l))
          /\ Node.r # Null => Node.r \in 1..Len(below) /\ LiveOver(regs, CellFor(below, Node.r))
      BY <2>12, OperandCells
    <3>3. /\ TypeIn(regs', CellFor(below, Node.l)) = TypeIn(regs, CellFor(below, Node.l))
          /\ Node.r # Null => TypeIn(regs', CellFor(below, Node.r)) = TypeIn(regs, CellFor(below, Node.r))
      BY <2>4, <3>2, TypeStays
    <3> QED BY <2>1, <2>3, <2>7, <2>10, <2>11, <3>1, <3>2, <3>3 DEF ComputesOperator, OperatorGiven
  <2>13. ASSUME Node.op = "call" PROVE CallsFunction(ast, below', regs', instrs', mem', k, n)
    <3>1. CallGiven(rs, m, type, sym, args)
      BY <2>13
    <3>2. GivenTo(ast, below', k) = GivenTo(ast, below, k)
      <4>1. ast[k].l # Null => ast[k].l \in 1..Len(below)
        BY <2>1, NodeFacts DEF Null
      <4> QED BY <2>11, <4>1 DEF GivenTo
    <3> DEFINE f == Symbols[ast[k].v]
    <3>3. ASSUME f.stateful
          PROVE  /\ n.args = <<n.args[1]>> \o GivenTo(ast, below', k)
                 /\ Fixed(regs', instrs', n.args[1]) /\ mem'[n.args[1]] = k
      <4>1. /\ args = <<Len(rs)>> \o GivenTo(ast, below, k)
            /\ Len(rs) = Len(regs) + 1 /\ m[Len(rs)] = k
        BY <2>1, <3>1, <3>3 DEF CallGiven
      <4>2. GivenTo(ast, below, k) \in Seq(Cells)
        BY <2>1, NodeFacts DEF GivenTo, Null
      <4>3. args[1] = Len(rs)
        <5> DEFINE g == GivenTo(ast, below, k)
        <5>1. Len(rs) \in Cells
          BY <2>1, <2>2, <4>1, SymbolFacts DEF Cells
        <5>2. g \in Seq(Cells)
          BY <4>2
        <5> HIDE DEF g
        <5>3. (<<Len(rs)>> \o g)[1] = Len(rs)
          BY <5>1, <5>2
        <5> QED BY <4>1, <5>3 DEF g
      <4>4. Len(rs) \in Len(regs) + 1..MaxRegs /\ Len(rs) # r /\ Len(rs) \in 1..Len(regs')
        BY <2>2, <2>3, <4>1
      <4>5. \A i \in DOMAIN instrs : instrs[i].res # Len(rs)
        BY <4>4, CompileFacts
      <4>6. \A i \in DOMAIN instrs' : instrs'[i].res # Len(rs)
        <5> SUFFICES ASSUME NEW i \in DOMAIN instrs' PROVE instrs'[i].res # Len(rs)
          OBVIOUS
        <5>1. CASE i \in DOMAIN instrs
          BY <2>9, <4>5, <5>1
        <5>2. CASE i = Len(instrs) + 1
          BY <2>7, <2>9, <4>4, <5>2
        <5> QED BY <2>9, <5>1, <5>2
      <4>7. Fixed(regs', instrs', args[1])
        BY <4>3, <4>4, <4>6 DEF Fixed
      <4>8. mem'[args[1]] = k
        BY <1>2, <4>1, <4>3
      <4> QED BY <2>7, <3>2, <4>1, <4>3, <4>7, <4>8
    <3>4. /\ n.sym = ast[k].v /\ f.kind = "func" /\ TypeIn(regs', n.res) = f.type
          /\ ~f.stateful => n.args = GivenTo(ast, below', k)
      BY <2>1, <2>7, <2>10, <3>1, <3>2 DEF CallGiven
    <3> QED BY <2>3, <2>7, <3>3, <3>4 DEF CallsFunction
  <2>14. Implements(ast, below', regs', instrs', mem', k, n)
    BY <2>1, <2>6, <2>7, <2>12, <2>13 DEF Implements, Operators
  <2>15. Computes(ast[k]) /\ n.res \notin 1..Len(regs)
    BY <2>1, <2>2, <2>7 DEF Computes
  <2>16. \A c \in 1..Len(regs) : mem'[c] = mem[c]
    BY <1>2
  <2>17. PICK nd : Code(ast, nd, below, regs, instrs, mem)
    BY DEF Compiled
  <2>18. \E nd2 : Code(ast, nd2, below', regs', instrs', mem')
    <3>2. below' = Append(below, <<r>>) /\ <<r>> \in Seq(Cells)
      BY <2>5
    <3>3. n \in InstrType
      BY <2>7
    <3>4. CodeBefore(ast, nd, below, regs, instrs, mem)
      BY <2>1, <2>17 DEF CodeBefore
    <3>5. CodeAdded(ast, below, regs, instrs, mem, below', regs', instrs', mem', <<r>>, n)
      BY <2>4, <2>6, <2>8, <2>14, <2>15, <2>16, <3>2, <3>3 DEF CodeAdded
    <3> QED BY <3>4, <3>5, CodeWith
  <2> QED BY <1>2, <2>18 DEF Compiled
<1> QED BY <1>1, <1>2 DEF AddComputation

LEMMA OperatorCompiled ==
    ASSUME IInv, Compiled, CompileOperator
    PROVE  Compiled'
<1> DEFINE tl == TypeAt(Operand(Node.l))
           tr == IF Node.r = Null THEN "na" ELSE TypeAt(Operand(Node.r))
<1>1. phase = "compiling" /\ Len(below) < Len(ast) /\ Node.op \in Operators
  BY DEF CompileOperator, Compiling
<1>2. CASE StopWith("refused")
  BY <1>2 DEF StopWith, Compiled
<1>3. ASSUME NEW w \in RulesFor(Node.op, tl, tr),
             AddComputation(regs, mem, w.tres, Node.op, tl, tr, 0, Operands)
      PROVE  Compiled'
  <2>1. w.tres \in Types
    BY <1>3, RuleFacts DEF RulesFor
  <2>2. tl \in Types /\ tr \in Types
    BY <1>1, OperandFacts, TypeAtType DEF IInv, Types
  <2>3. /\ regs \in Seq(Types) /\ Len(regs) <= MaxRegs /\ mem \in [Cells -> Int] /\ Extends(regs, regs)
        /\ Operands \in Seq(Cells)
    BY <1>1, CompileFacts, OperandFacts
  <2>4. OperatorGiven(w.tres, tl, tr, Operands)
    BY <1>3 DEF OperatorGiven, Operands, Operand, CellFor, TypeIn, TypeAt
  <2>5. Node.op # "call" /\ 0 \in Nat
    BY <1>1 DEF Operators
  <2>6. \A c \in 1..Len(regs) : mem[c] = mem[c]
    OBVIOUS
  <2> HIDE DEF tl, tr
  <2> QED BY <1>1, <1>3, <2>1, <2>2, <2>3, <2>4, <2>5, <2>6, AddCompiled
<1> QED BY <1>2, <1>3 DEF CompileOperator

LEMMA AssignmentCompiled ==
    ASSUME IInv, Compiled, CompileAssignment
    PROVE  Compiled'
<1> DEFINE tl == Symbols[Node.v].type
           tr == TypeAt(Operand(Node.l))
           k  == Len(below) + 1
           r  == CellOf(Node.v)
           n  == Instr("assign", tl, tr, 0, Operands, r)
<1>1. phase = "compiling" /\ Len(below) < Len(ast) /\ Node.op = "assign"
  BY DEF CompileAssignment, Compiling
<1>2. CASE StopWith("refused")
  BY <1>2 DEF StopWith, Compiled
<1>3. CASE /\ Node.v \in Variables /\ RulesFor("assign", tl, tr) # {} /\ Len(instrs) < MaxInstr
           /\ instrs' = Append(instrs, n)
           /\ below' = Append(below, <<r>>)
           /\ UNCHANGED <<ast, phase, regs, mem, pc, truth, start, calls>>
  <2>1. /\ k \in DOMAIN ast /\ Node = ast[k] /\ IsTree(ast) /\ below \in Seq(Seq(Cells))
        /\ Len(below) \in Nat /\ instrs \in Seq(InstrType) /\ MaxRegs \in Nat /\ regs \in Seq(Types)
        /\ AllLive(below, regs) /\ SomeCell(ast, below) /\ Extends(regs, regs)
        /\ Len(regs) \in Nat /\ Len(regs) <= MaxRegs
    BY <1>1, CompileFacts
  <2>2. r \in VariableCells /\ r \in Cells /\ Node.v \in DOMAIN Symbols
    BY <1>3, SymbolFacts DEF Variables
  <2>3. tl \in Types /\ tr \in Types
    BY <2>2, <1>1, SymbolFacts, OperandFacts, TypeAtType DEF SymbolType, IInv
  <2>4. Operands \in Seq(Cells) /\ Node.r = Null
    BY <1>1, <2>1, OperandFacts, OperandNodes
  <2>5. r \notin 1..Len(regs)
    BY <2>1, <2>2, SymbolFacts DEF VariableCells
  <2>6. <<r>> \in Seq(Cells)
    BY <2>2
  <2>7. n.op = "assign" /\ n.args = Operands /\ n.res = r /\ n.tl = tl /\ n.tr = tr /\ n \in InstrType
    BY <2>2, <2>3, <2>4 DEF Instr, InstrType, NodeOps
  <2>8. /\ Node.l \in 1..Len(below) /\ LiveOver(regs, CellFor(below, Node.l))
    BY <1>1, OperandCells
  <2>9. Extends(below, below') /\ below'[k] = <<r>> /\ below' = Append(below, <<r>>)
    <3> HIDE DEF r
    <3>2. below' = Append(below, <<r>>)
      BY <1>3 DEF r
    <3> QED BY <2>1, <2>6, <3>2, GrowsByOne
  <2>10. CellsOfLeaves(ast, below', k) /\ CellFor(below', k) = r
    <3> HIDE DEF r
    <3> QED BY <1>1, <2>1, <2>9, OneCell
  <2>11. AssignsSymbol(ast, below', regs, k, n)
    <3>1. CellFor(below', Node.l) = CellFor(below, Node.l)
      BY <2>8, <2>9 DEF Extends, CellFor
    <3>2. n.args = <<CellFor(below, Node.l)>> /\ n.tr = TypeIn(regs, CellFor(below, Node.l))
      BY <2>4, <2>7 DEF Operands, Operand, CellFor, TypeAt, TypeIn
    <3> QED BY <1>3, <2>1, <2>7, <3>1, <3>2 DEF AssignsSymbol
  <2>12. Implements(ast, below', regs, instrs', mem, k, n)
    BY <1>1, <2>1, <2>7, <2>10, <2>11 DEF Implements, Operators
  <2>13. Computes(ast[k])
    BY <1>1, <2>1 DEF Computes
  <2>14. instrs' = Append(instrs, n) /\ n.res \notin 1..Len(regs)
    BY <1>3, <2>5, <2>7
  <2>15. PICK nd : Code(ast, nd, below, regs, instrs, mem)
    BY DEF Compiled
  <2>16. \A c \in 1..Len(regs) : mem[c] = mem[c]
    OBVIOUS
  <2> HIDE DEF n, r
  <2>17. \E nd2 : Code(ast, nd2, below', regs, instrs', mem)
    <3>2. below' = Append(below, <<r>>) /\ <<r>> \in Seq(Cells)
      BY <2>6, <2>9
    <3>3. n \in InstrType
      BY <2>7
    <3>4. CodeBefore(ast, nd, below, regs, instrs, mem)
      BY <1>1, <2>1, <2>15 DEF CodeBefore
    <3>5. CodeAdded(ast, below, regs, instrs, mem, below', regs, instrs', mem, <<r>>, n)
      BY <2>1, <2>10, <2>12, <2>13, <2>14, <2>16, <3>2, <3>3 DEF CodeAdded
    <3> QED BY <3>4, <3>5, CodeWith
  <2> QED BY <1>3, <2>17 DEF Compiled
<1> QED BY <1>2, <1>3 DEF CompileAssignment

LEMMA CallCompiled ==
    ASSUME IInv, Compiled, CompileCall
    PROVE  Compiled'
<1> DEFINE f      == Symbols[Node.v]
           given  == IF Node.l = Null THEN <<>> ELSE below[Node.l]
           rs     == RegsWithHandle(f)
           handle == IF f.stateful THEN <<Len(rs)>> ELSE <<>>
           m      == IF f.stateful THEN [mem EXCEPT ![Len(rs)] = SiteMemory] ELSE mem
<1>1. phase = "compiling" /\ Len(below) < Len(ast) /\ Node.op = "call"
  BY DEF CompileCall, Compiling
<1>2. CASE StopWith("refused") \/ StopWith("crashed")
  BY <1>2 DEF StopWith, Compiled
<1>3. CASE /\ f.kind = "func" /\ ~(f.stateful /\ RegsFull(regs))
           /\ AddComputation(rs, m, f.type, "call", "na", "na", Node.v, handle \o given)
  <2>1. Node.v \in DOMAIN Symbols /\ Node.v \in Nat /\ f \in SymbolType
    BY <1>1, NodeFacts, SymbolFacts
  <2>2. f.type \in Types /\ f.stateful \in BOOLEAN
    BY <2>1 DEF SymbolType
  <2>3. given \in Seq(Cells) /\ given = GivenTo(ast, below, Len(below) + 1)
    <3>1. given = GivenTo(ast, below, Len(below) + 1)
      BY <1>1, CompileFacts DEF GivenTo
    <3>2. CASE Node.l = Null
      BY <3>1, <3>2
    <3>3. CASE Node.l # Null
      <4>1. Node.l \in DOMAIN below
        BY <1>1, <3>3, NodeFacts, CompileFacts DEF Null
      <4> QED BY <1>1, <3>1, <3>3, <4>1, NodeFacts
    <3> QED BY <3>1, <3>2, <3>3
  <2>4. /\ regs \in Seq(Types) /\ Len(regs) \in Nat /\ Len(regs) <= MaxRegs /\ Extends(regs, regs)
        /\ mem \in [Cells -> Int] /\ SiteMemory \in Int /\ MaxRegs \in Nat
        /\ SiteMemory = Len(below) + 1
    BY <1>1, CompileFacts DEF SiteMemory
  <2>5. "na" \in Types /\ Node.op \notin Operators
    BY <1>1 DEF Types, Operators
  <2>6. CASE f.stateful
    <3>1. rs = Append(regs, "ptr") /\ "ptr" \in Types
      BY <2>6 DEF RegsWithHandle, Types
    <3>2. rs \in Seq(Types) /\ Len(rs) = Len(regs) + 1 /\ Extends(regs, rs)
      BY <2>4, <3>1, GrowsByOne
    <3>3. Len(rs) <= MaxRegs /\ Len(rs) \in Cells
      BY <1>3, <2>4, <2>6, <3>2, SymbolFacts DEF RegsFull, Cells
    <3>4. handle = <<Len(rs)>> /\ m = [mem EXCEPT ![Len(rs)] = SiteMemory]
      BY <2>6
    <3> HIDE DEF f, rs, handle, m, given
    <3>5. m \in [Cells -> Int] /\ m[Len(rs)] = SiteMemory
      BY <2>4, <3>3, <3>4
    <3>6. \A c \in 1..Len(regs) : m[c] = mem[c]
      <4>1. \A c \in 1..Len(regs) : c \in Cells /\ c # Len(rs)
        BY <2>4, <3>2, SymbolFacts DEF Cells
      <4> QED BY <2>4, <3>4, <4>1
    <3>7. handle \o given \in Seq(Cells) /\ handle \o given = <<Len(rs)>> \o given
      BY <2>3, <3>3, <3>4
    <3>8. CallGiven(rs, m, f.type, Node.v, handle \o given)
      BY <1>3, <2>3, <2>4, <2>6, <3>2, <3>5, <3>7 DEF CallGiven, f
    <3>9. AddComputation(rs, m, f.type, Node.op, "na", "na", Node.v, handle \o given)
      BY <1>1, <1>3
    <3>10. f.type \in Types /\ handle \o given \in Seq(Cells) /\ Len(rs) <= MaxRegs
      BY <2>2, <3>3, <3>7
    <3> DEFINE args == handle \o given
               type == f.type
    <3> HIDE DEF args, type
    <3>11. CallGiven(rs, m, type, Node.v, args) /\ AddComputation(rs, m, type, Node.op, "na", "na", Node.v, args)
      BY <3>8, <3>9 DEF args, type
    <3>12. type \in Types /\ args \in Seq(Cells)
      BY <3>10 DEF args, type
    <3> QED BY <1>1, <2>1, <2>5, <3>2, <3>5, <3>6, <3>10, <3>11, <3>12, AddCompiled
  <2>7. CASE ~f.stateful
    <3>1. rs = regs /\ handle = <<>> /\ m = mem
      BY <2>7 DEF RegsWithHandle
    <3> HIDE DEF f, rs, handle, m, given
    <3>2. handle \o given = given
      BY <2>3, <3>1
    <3>3. CallGiven(rs, m, f.type, Node.v, handle \o given)
      BY <1>3, <2>3, <2>7, <3>2 DEF CallGiven, f
    <3>4. \A c \in 1..Len(regs) : m[c] = mem[c]
      BY <3>1
    <3>5. AddComputation(rs, m, f.type, Node.op, "na", "na", Node.v, handle \o given)
      BY <1>1, <1>3
    <3>6. rs \in Seq(Types) /\ Extends(regs, rs) /\ Len(rs) <= MaxRegs /\ m \in [Cells -> Int]
      BY <2>4, <3>1
    <3> DEFINE args == handle \o given
               type == f.type
    <3> HIDE DEF args, type
    <3>7. CallGiven(rs, m, type, Node.v, args) /\ AddComputation(rs, m, type, Node.op, "na", "na", Node.v, args)
      BY <3>3, <3>5 DEF args, type
    <3>8. type \in Types /\ args \in Seq(Cells)
      BY <2>2, <2>3, <3>2 DEF args, type
    <3> QED BY <1>1, <2>1, <2>5, <3>4, <3>6, <3>7, <3>8, AddCompiled
  <2> QED BY <2>6, <2>7
<1> QED BY <1>2, <1>3 DEF CompileCall

\* What of a script's state is there whatever it does.
LEMMA QueueFacts ==
    ASSUME IInv
    PROVE  /\ IsTree(ast) /\ ast \in Seq(NodeType) /\ Len(ast) \in Nat
           /\ below \in Seq(Seq(Cells)) /\ Len(below) \in Nat /\ Len(below) <= Len(ast)
           /\ regs \in Seq(Types) /\ Len(regs) \in Nat /\ Len(regs) <= MaxRegs /\ MaxRegs \in Nat
           /\ instrs \in Seq(InstrType) /\ Len(instrs) \in Nat /\ DOMAIN instrs = 1..Len(instrs)
           /\ mem \in [Cells -> Int] /\ calls \in Seq(CallType) /\ pc \in 0..Len(instrs) + 1
           /\ start \in [DOMAIN Symbols -> Int]
           /\ AllLive(below, regs) /\ SomeCell(ast, below)
<1>1. /\ IsTree(ast) /\ below \in Seq(Seq(Cells)) /\ instrs \in Seq(InstrType)
      /\ regs \in Seq(Types) /\ Len(regs) <= MaxRegs /\ mem \in [Cells -> Int] /\ MaxRegs \in Nat
      /\ ast \in Seq(NodeType) /\ calls \in Seq(CallType) /\ pc \in 0..Len(instrs) + 1
      /\ start \in [DOMAIN Symbols -> Int] /\ Len(below) <= Len(ast)
  BY EintAssumption DEF IInv, TypeOK, IsTree
<1>2. /\ Len(regs) \in Nat /\ Len(below) \in Nat /\ Len(instrs) \in Nat /\ Len(ast) \in Nat
      /\ DOMAIN instrs = 1..Len(instrs)
  BY <1>1
<1>3. AllLive(below, regs) /\ SomeCell(ast, below)
  BY <1>1 DEF IInv, BelowInv, AllLive, SomeCell
<1> QED BY <1>1, <1>2, <1>3

\* An execution writes what instructions write, and the variables.
LEMMA ExecutedCode ==
    ASSUME IInv, NEW nd, Code(ast, nd, below, regs, instrs, mem),
           UNCHANGED <<ast, below, regs, instrs>>,
           \A c : Fixed(regs, instrs, c) => mem'[c] = mem[c]
    PROVE  Code(ast', nd, below', regs', instrs', mem')
<1>1. Extends(below, below) /\ Extends(regs, regs)
  BY QueueFacts DEF Extends
<1>2. \A c : Fixed(regs, instrs, c) => Fixed(regs, instrs, c) /\ mem'[c] = mem[c]
  OBVIOUS
<1>3. KeepsCode(ast, below, regs, instrs, mem, below, regs, instrs, mem')
  BY <1>1, <1>2, QueueFacts, StaysCompiled
<1>4. nd \in [1..Len(instrs) -> 1..Len(below)]
  BY DEF Code
<1>5. \A i \in 1..Len(instrs) : Implements(ast, below, regs, instrs, mem', nd[i], instrs[i])
  BY <1>3, <1>4 DEF Code, KeepsCode
<1>6. \A j \in 1..Len(below) : HoldsLeaf(ast, below, regs, instrs, mem', j) /\ CellsOfLeaves(ast, below, j)
  BY <1>3 DEF Code, KeepsCode
<1>7. Code(ast, nd, below, regs, instrs, mem')
  BY <1>4, <1>5, <1>6 DEF Code
<1> QED BY <1>7

-----------------------------------------------------------------------------
(* What is told of the nodes, step by step.                                *)

LEMMA UpTo ==
    ASSUME NEW n \in Nat, NEW T, 0 \in T, \A k \in 1..n : k - 1 \in T => k \in T
    PROVE  0..n \subseteq T
<1> DEFINE F == {k \in Nat : k <= n /\ k \notin T}
<1>1. SUFFICES ASSUME F # {} PROVE FALSE
  OBVIOUS
<1>2. PICK k \in F : \A j \in F : k <= j
  <2>1. F \in SUBSET Nat
    OBVIOUS
  <2> HIDE DEF F
  <2> QED BY <1>1, <2>1, LeastNat
<1>3. k # 0 /\ k \in 1..n /\ k - 1 \in Nat /\ k - 1 <= n /\ ~(k <= k - 1)
  BY <1>2
<1>4. k - 1 \in T
  BY <1>2, <1>3
<1> QED BY <1>2, <1>3, <1>4

\* The value of a node, from what became of the nodes before it.
Value(a, st, cs, k) == ValueOf(a[k], Told(a, st, cs)[k - 1], cs)

ToldStepped(a, st, cs, k) ==
    LET p == Told(a, st, cs)[k - 1]
        q == Told(a, st, cs)[k]
        v == Value(a, st, cs, k)
    IN  /\ q.val = Append(p.val, v)
        /\ q.asked = IF a[k].op = "call" THEN Append(p.asked, AskedBy(a, k, p)) ELSE p.asked
        /\ q.store = IF a[k].op = "assign" THEN [p.store EXCEPT ![a[k].v] = v] ELSE p.store

LEMMA ToldStep ==
    ASSUME NEW a, IsTree(a), NEW st, NEW cs, NEW k \in 1..Len(a)
    PROVE  ToldStepped(a, st, cs, k)
<1> DEFINE t == Told(a, st, cs)
<1>1. Len(a) \in Nat
  BY DEF IsTree
<1>2. t[k] = AfterNode(a, k, t[k - 1], cs)
  BY <1>1, ToldFacts
<1> HIDE DEF t
<1>3. /\ t[k].val = Append(t[k - 1].val, ValueOf(a[k], t[k - 1], cs))
      /\ t[k].asked = IF a[k].op = "call" THEN Append(t[k - 1].asked, AskedBy(a, k, t[k - 1]))
                      ELSE t[k - 1].asked
      /\ t[k].store = IF a[k].op = "assign"
                      THEN [t[k - 1].store EXCEPT ![a[k].v] = ValueOf(a[k], t[k - 1], cs)]
                      ELSE t[k - 1].store
  BY <1>2 DEF AfterNode
<1> QED BY <1>3 DEF t, Value, ToldStepped

\* Every node adds its value to those of the nodes before it.
LEMMA ToldValues ==
    ASSUME NEW a, IsTree(a), NEW st, NEW cs, NEW k \in 0..Len(a)
    PROVE  LET t == Told(a, st, cs)
           IN  /\ Len(t[k].val) = k
               /\ \A j \in 1..k : t[k].val[j] = Value(a, st, cs, j)
               /\ \E S : t[k].asked \in Seq(S)
<1> DEFINE t == Told(a, st, cs)
           V == {Value(a, st, cs, j) : j \in 1..Len(a)}
           Q == {AskedBy(a, j, t[j - 1]) : j \in 1..Len(a)}
           Fine(m) == /\ t[m].val \in Seq(V) /\ Len(t[m].val) = m /\ t[m].asked \in Seq(Q)
                      /\ \A j \in 1..m : t[m].val[j] = Value(a, st, cs, j)
           T == {m \in Nat : Fine(m)}
<1>1. Len(a) \in Nat
  BY DEF IsTree
<1>2. 0 \in T
  <2>1. t[0] = BeforeAll(st)
    BY <1>1, ToldFacts
  <2> HIDE DEF t, V, Q
  <2>2. t[0].val = <<>> /\ t[0].asked = <<>>
    BY <2>1 DEF BeforeAll
  <2>3. <<>> \in Seq(V) /\ <<>> \in Seq(Q) /\ Len(<<>>) = 0
    OBVIOUS
  <2>4. \A j \in 1..0 : t[0].val[j] = Value(a, st, cs, j)
    OBVIOUS
  <2> QED BY <2>2, <2>3, <2>4
<1>3. ASSUME NEW m \in 1..Len(a), m - 1 \in T PROVE m \in T
  <2> DEFINE v == Value(a, st, cs, m)
             q == AskedBy(a, m, t[m - 1])
  <2>1. v \in V /\ q \in Q
    OBVIOUS
  <2>2. /\ t[m].val = Append(t[m - 1].val, v)
        /\ t[m].asked = IF a[m].op = "call" THEN Append(t[m - 1].asked, q) ELSE t[m - 1].asked
    <3>1. ToldStepped(a, st, cs, m)
      BY ToldStep
    <3> QED BY <3>1 DEF ToldStepped
  <2>3. /\ t[m - 1].val \in Seq(V) /\ Len(t[m - 1].val) = m - 1 /\ t[m - 1].asked \in Seq(Q)
        /\ \A j \in 1..m - 1 : t[m - 1].val[j] = Value(a, st, cs, j)
    BY <1>3
  <2> HIDE DEF t, V, Q, q
  <2>4. t[m].asked \in Seq(Q)
    BY <2>1, <2>2, <2>3
  <2>6. v = Value(a, st, cs, m)
    OBVIOUS
  <2> HIDE DEF v
  <2>5. /\ t[m].val \in Seq(V) /\ Len(t[m].val) = m /\ t[m].val[m] = v
        /\ \A j \in 1..m - 1 : t[m].val[j] = t[m - 1].val[j]
    <3>1. DOMAIN t[m - 1].val = 1..m - 1 /\ (m - 1) + 1 = m
      BY <2>3
    <3> QED BY <2>1, <2>2, <2>3, <3>1, AppendFacts
  <2>7. \A j \in 1..m : t[m].val[j] = Value(a, st, cs, j)
    <3>1. \A j \in 1..m : j = m \/ j \in 1..m - 1
      OBVIOUS
    <3> QED BY <2>3, <2>5, <2>6, <3>1
  <2> QED BY <2>4, <2>5, <2>7
<1> HIDE DEF T
<1>4. k \in T
  BY <1>1, <1>2, <1>3, UpTo
<1>5. Fine(k)
  BY <1>4 DEF T
<1> QED BY <1>5

\* Nodes that compute nothing leave the symbols as they are and ask nothing, and nodes
\* that do not assign leave the symbols.
LEMMA ToldQuiet ==
    ASSUME NEW a, IsTree(a), NEW st, NEW cs, NEW j \in 0..Len(a), NEW k \in j..Len(a)
    PROVE  LET t == Told(a, st, cs)
           IN  /\ (\A i \in j + 1..k : a[i].op # "assign") => t[k].store = t[j].store
               /\ (\A i \in j + 1..k : ~Computes(a[i])) => t[k].asked = t[j].asked
<1> DEFINE t == Told(a, st, cs)
           T == {m \in Nat : j <= m =>
                   /\ (\A i \in j + 1..m : a[i].op # "assign") => t[m].store = t[j].store
                   /\ (\A i \in j + 1..m : ~Computes(a[i])) => t[m].asked = t[j].asked}
<1>1. Len(a) \in Nat /\ j \in Nat
  BY DEF IsTree
<1>2. 0 \in T
  <2>1. j <= 0 => j = 0
    BY <1>1
  <2> QED BY <2>1
<1>3. ASSUME NEW m \in 1..Len(a), m - 1 \in T PROVE m \in T
  <2>1. CASE j <= m - 1
    <3>1. /\ t[m].asked = IF a[m].op = "call" THEN Append(t[m - 1].asked, AskedBy(a, m, t[m - 1]))
                          ELSE t[m - 1].asked
          /\ t[m].store = IF a[m].op = "assign"
                          THEN [t[m - 1].store EXCEPT ![a[m].v] = Value(a, st, cs, m)]
                          ELSE t[m - 1].store
      <4>1. ToldStepped(a, st, cs, m)
        BY ToldStep
      <4> QED BY <4>1 DEF ToldStepped
    <3>2. m \in j + 1..m /\ \A i \in j + 1..m - 1 : i \in j + 1..m
      BY <1>1, <2>1
    <3>3. /\ (\A i \in j + 1..m - 1 : a[i].op # "assign") => t[m - 1].store = t[j].store
          /\ (\A i \in j + 1..m - 1 : ~Computes(a[i])) => t[m - 1].asked = t[j].asked
      BY <1>3, <2>1
    <3> HIDE DEF t
    <3>4. (\A i \in j + 1..m : a[i].op # "assign") => t[m].store = t[j].store
      BY <3>1, <3>2, <3>3
    <3>5. (\A i \in j + 1..m : ~Computes(a[i])) => t[m].asked = t[j].asked
      BY <3>1, <3>2, <3>3 DEF Computes
    <3> QED BY <3>4, <3>5
  <2>2. CASE ~(j <= m - 1)
    <3>1. j <= m => j = m
      BY <1>1, <2>2
    <3> QED BY <3>1
  <2> QED BY <2>1, <2>2
<1> HIDE DEF T
<1>4. k \in T
  <2>1. k \in 0..Len(a)
    BY <1>1
  <2> QED BY <1>1, <1>2, <1>3, <2>1, UpTo
<1>5. j <= k
  BY <1>1
<1> QED BY <1>4, <1>5 DEF T

\* The symbols keep their domain.
LEMMA ToldStore ==
    ASSUME NEW a, IsTree(a), NEW st, NEW cs, NEW k \in 0..Len(a)
    PROVE  LET t == Told(a, st, cs)
           IN  t[k].store = [s \in DOMAIN Symbols |-> t[k].store[s]]
<1> DEFINE t == Told(a, st, cs)
           T == {m \in Nat : t[m].store = [s \in DOMAIN Symbols |-> t[m].store[s]]}
<1>1. Len(a) \in Nat
  BY DEF IsTree
<1>2. 0 \in T
  <2>1. t[0] = BeforeAll(st)
    BY <1>1, ToldFacts
  <2> HIDE DEF t
  <2>2. t[0].store = [s \in DOMAIN Symbols |-> Halves(Symbols[s].type, st[s])]
    BY <2>1 DEF BeforeAll
  <2> QED BY <2>2
<1>3. ASSUME NEW m \in 1..Len(a), m - 1 \in T PROVE m \in T
  <2>1. t[m].store = IF a[m].op = "assign"
                     THEN [t[m - 1].store EXCEPT ![a[m].v] = Value(a, st, cs, m)]
                     ELSE t[m - 1].store
    <3>1. ToldStepped(a, st, cs, m)
      BY ToldStep
    <3> QED BY <3>1 DEF ToldStepped
  <2> HIDE DEF t
  <2> QED BY <1>3, <2>1
<1> HIDE DEF T
<1>4. k \in T
  BY <1>1, <1>2, <1>3, UpTo
<1> QED BY <1>4 DEF T

\* What was told of the calls so far stays told when there is another one.
NoMoreAsked(a, st, cs, k) == k \in 0..Len(a) /\ Len(Told(a, st, cs)[k].asked) <= Len(cs)

LEMMA ToldStays ==
    ASSUME NEW a, IsTree(a), NEW st, NEW cs, NEW c, cs \in Seq(CallType), c \in CallType, NEW k,
           NoMoreAsked(a, st, cs, k)
    PROVE  Told(a, st, Append(cs, c))[k] = Told(a, st, cs)[k]
<1> DEFINE t == Told(a, st, cs)
           u == Told(a, st, Append(cs, c))
           T == {m \in Nat : Len(t[m].asked) <= Len(cs) => u[m] = t[m]}
<1>1. Len(a) \in Nat /\ Len(cs) \in Nat
  BY DEF IsTree
<1>2. 0 \in T
  BY <1>1, ToldFacts
<1>3. ASSUME NEW m \in 1..Len(a), m - 1 \in T, Len(t[m].asked) <= Len(cs) PROVE u[m] = t[m]
  <2>1. t[m] = AfterNode(a, m, t[m - 1], cs) /\ u[m] = AfterNode(a, m, u[m - 1], Append(cs, c))
    BY <1>1, ToldFacts
  <2>2. t[m].asked = IF a[m].op = "call" THEN Append(t[m - 1].asked, AskedBy(a, m, t[m - 1]))
                     ELSE t[m - 1].asked
    <3>1. ToldStepped(a, st, cs, m)
      BY ToldStep
    <3> QED BY <3>1 DEF ToldStepped
  <2>3. PICK Q0 : t[m - 1].asked \in Seq(Q0)
    <3>1. m - 1 \in 0..Len(a)
      BY <1>1
    <3> QED BY <3>1, ToldValues
  <2>4. \E Q : t[m - 1].asked \in Seq(Q) /\ AskedBy(a, m, t[m - 1]) \in Q
    <3> DEFINE q == AskedBy(a, m, t[m - 1])
               s == t[m - 1].asked
    <3>1. s \in Seq(Q0)
      BY <2>3
    <3> HIDE DEF s, q
    <3>2. s \in Seq(Q0 \cup {q}) /\ q \in Q0 \cup {q}
      BY <3>1
    <3> QED BY <3>2 DEF s, q
  <2>5. /\ a[m].op = "call" => Len(t[m].asked) = Len(t[m - 1].asked) + 1
        /\ Len(t[m - 1].asked) \in Nat
    <3> HIDE DEF t
    <3> QED BY <2>2, <2>4
  <2>6. Len(t[m - 1].asked) <= Len(cs)
    BY <1>1, <1>3, <2>2, <2>5
  <2>7. u[m - 1] = t[m - 1]
    BY <1>3, <2>6
  <2>8. a[m].op = "call" => Append(cs, c)[Len(t[m - 1].asked) + 1] = cs[Len(t[m - 1].asked) + 1]
    <3>1. a[m].op = "call" => Len(t[m - 1].asked) + 1 \in DOMAIN cs
      BY <1>1, <1>3, <2>5
    <3> QED BY <3>1
  <2> HIDE DEF t, u
  <2>9. ValueOf(a[m], t[m - 1], Append(cs, c)) = ValueOf(a[m], t[m - 1], cs)
    BY <2>8 DEF ValueOf
  <2> QED BY <2>1, <2>7, <2>9 DEF AfterNode
<1>4. \A m \in 1..Len(a) : m - 1 \in T => m \in T
  BY <1>3
<1> HIDE DEF T
<1>5. k \in 0..Len(a) /\ Len(t[k].asked) <= Len(cs)
  BY DEF NoMoreAsked
<1>6. k \in T
  BY <1>1, <1>2, <1>4, <1>5, UpTo
<1> QED BY <1>5, <1>6 DEF T

-----------------------------------------------------------------------------
(* The handlers compute what the operators mean, whatever row was found.   *)

LEMMA RowFacts ==
    ASSUME NEW op, NEW tl, NEW tr, NEW w \in RulesFor(op, tl, tr)
    PROVE  /\ op \in {"plus", "minus"} =>
                 /\ tl \in Numeric /\ tr \in Numeric
                 /\ w.tres = IF tl = "int" /\ tr = "int" THEN "int" ELSE "float"
           /\ op \in {"gt", "ge"} => tl \in Numeric /\ tr \in Numeric /\ w.tres = "bool"
           /\ op \in {"eq", "neq"} =>
                 /\ ({tl, tr} \subseteq Numeric \/ {tl, tr} = {"bool"})
                 /\ w.tres = "bool"
           /\ op \in {"and", "or"} => tl = "bool" /\ tr = "bool" /\ w.tres = "bool"
           /\ op = "not" => tl = "bool" /\ w.tres = "bool"
           /\ op = "umin" => tl \in Numeric /\ w.tres = tl
           /\ op = "assign" => ({tl, tr} \subseteq Numeric \/ {tl, tr} = {"bool"})
<1>1. w \in Rules /\ w.op = op /\ w.tl = tl /\ w.tr = tr
  BY DEF RulesFor
<1>2. CASE \E o \in {"plus", "minus"}, l, r \in Numeric :
              w = Row(o, l, r, IF l = "int" /\ r = "int" THEN "int" ELSE "float")
  BY <1>1, <1>2 DEF Row
<1>3. CASE \E o \in {"gt", "ge", "eq", "neq"}, l, r \in Numeric : w = Row(o, l, r, "bool")
  BY <1>1, <1>3 DEF Row
<1>4. CASE \E o \in {"eq", "neq", "and", "or", "assign"} : w = Row(o, "bool", "bool", "bool")
  BY <1>1, <1>4 DEF Row
<1>5. CASE w = Row("not", "bool", "na", "bool")
  BY <1>1, <1>5 DEF Row
<1>6. CASE \E l \in Numeric : w = Row("umin", l, "na", l)
  BY <1>1, <1>6 DEF Row
<1>7. CASE \E l, r \in Numeric : w = Row("assign", l, r, l)
  BY <1>1, <1>7 DEF Row
<1> QED BY <1>1, <1>2, <1>3, <1>4, <1>5, <1>6, <1>7 DEF Rules

LEMMA TruncatedFacts ==
    \A x \in Int : Truncated(x) \in Int /\ Truncated(2 * x) = x
BY DEF Truncated

LEMMA HandlerTells ==
    ASSUME NEW i, i.op \in Operators, NEW w \in RulesFor(i.op, i.tl, i.tr),
           NEW x \in Int, NEW y \in Int, NEW n, n.op = i.op, NEW p, NEW cs,
           p.val[n.l] = Halves(i.tl, x), i.op \notin Unary => p.val[n.r] = Halves(i.tr, y)
    PROVE  Halves(w.tres, Handler(i, x, y)) = ValueOf(n, p, cs)
<1> DEFINE u == p.val[n.l]
           v == p.val[n.r]
<1>1. CASE i.op \in {"plus", "minus"}
  <2>1. /\ i.tl \in Numeric /\ i.tr \in Numeric
        /\ w.tres = IF i.tl = "int" /\ i.tr = "int" THEN "int" ELSE "float"
    BY <1>1, RowFacts
  <2>2. v = Halves(i.tr, y) /\ u = Halves(i.tl, x)
    BY <1>1 DEF Unary
  <2>3. ValueOf(n, p, cs) = IF i.op = "plus" THEN u + v ELSE u - v
    BY <1>1 DEF ValueOf
  <2>4. Handler(i, x, y) = IF i.op = "plus" THEN Promoted(i.tl, i.tr, x) + Promoted(i.tr, i.tl, y)
                           ELSE Promoted(i.tl, i.tr, x) - Promoted(i.tr, i.tl, y)
    BY <1>1 DEF Handler
  <2> HIDE DEF u, v
  <2> QED BY <1>1, <2>1, <2>2, <2>3, <2>4 DEF Halves, Promoted, Numeric
<1>2. CASE i.op \in {"gt", "ge", "eq", "neq"}
  <2>1. /\ ({i.tl, i.tr} \subseteq Numeric \/ {i.tl, i.tr} = {"bool"})
        /\ w.tres = "bool"
    BY <1>2, RowFacts
  <2>2. v = Halves(i.tr, y) /\ u = Halves(i.tl, x)
    BY <1>2 DEF Unary
  <2>3. ValueOf(n, p, cs) = CASE i.op = "gt" -> Bit(u > v) [] i.op = "ge" -> Bit(u > v \/ u = v)
                              [] i.op = "eq" -> Bit(u = v) [] i.op = "neq" -> 1 - Bit(u = v)
    BY <1>2 DEF ValueOf
  <2> DEFINE a == Promoted(i.tl, i.tr, x)
             b == Promoted(i.tr, i.tl, y)
  <2>4. Handler(i, x, y) = CASE i.op = "gt" -> Bit(a > b) [] i.op = "ge" -> Bit(a >= b)
                             [] i.op = "eq" -> Bit(a = b) [] i.op = "neq" -> Bit(a # b)
    BY <1>2 DEF Handler
  <2>5. a \in Int /\ b \in Int /\ (<<u, v>> = <<a, b>> \/ <<u, v>> = <<2 * a, 2 * b>>)
    <3> HIDE DEF u, v
    <3> QED BY <2>1, <2>2 DEF Halves, Promoted, Numeric
  <2> HIDE DEF u, v, a, b
  <2> QED BY <1>2, <2>1, <2>3, <2>4, <2>5 DEF Halves, Bit
<1>3. CASE i.op \in {"and", "or"}
  <2>1. i.tl = "bool" /\ i.tr = "bool" /\ w.tres = "bool"
    BY <1>3, RowFacts
  <2>2. v = y /\ u = x
    BY <1>3, <2>1 DEF Unary, Halves
  <2>3. ValueOf(n, p, cs) = IF i.op = "and" THEN IF u = 0 THEN 0 ELSE Bit(v # 0)
                            ELSE IF u = 0 THEN Bit(v # 0) ELSE 1
    BY <1>3 DEF ValueOf
  <2>4. Handler(i, x, y) = IF i.op = "and" THEN Bit(x # 0 /\ y # 0) ELSE Bit(x # 0 \/ y # 0)
    BY <1>3 DEF Handler
  <2> HIDE DEF u, v
  <2> QED BY <1>3, <2>1, <2>2, <2>3, <2>4 DEF Halves, Bit
<1>4. CASE i.op = "not"
  <2>1. i.tl = "bool" /\ w.tres = "bool"
    BY <1>4, RowFacts
  <2>2. u = x
    BY <2>1 DEF Halves
  <2>3. ValueOf(n, p, cs) = 1 - Bit(u # 0) /\ Handler(i, x, y) = Bit(x = 0)
    BY <1>4 DEF ValueOf, Handler
  <2> HIDE DEF u
  <2> QED BY <2>1, <2>2, <2>3 DEF Halves, Bit
<1>5. CASE i.op = "umin"
  <2>1. w.tres = i.tl
    BY <1>5, RowFacts
  <2>2. ValueOf(n, p, cs) = -u /\ Handler(i, x, y) = -x
    BY <1>5 DEF ValueOf, Handler
  <2>3. u = Halves(i.tl, x)
    OBVIOUS
  <2> HIDE DEF u
  <2> QED BY <2>1, <2>2, <2>3 DEF Halves
<1> QED BY <1>1, <1>2, <1>3, <1>4, <1>5 DEF Operators

LEMMA AssignmentTells ==
    ASSUME NEW i, i.op = "assign", RulesFor("assign", i.tl, i.tr) # {}, NEW x \in Int, NEW y \in Int,
           NEW n, n.op = "assign", i.tl = Symbols[n.v].type, NEW p, NEW cs,
           p.val[n.l] = Halves(i.tr, x)
    PROVE  Halves(i.tl, Handler(i, x, y)) = ValueOf(n, p, cs)
<1> DEFINE u == p.val[n.l]
<1>1. PICK w : w \in RulesFor("assign", i.tl, i.tr)
  OBVIOUS
<1>2. ({i.tl, i.tr} \subseteq Numeric \/ {i.tl, i.tr} = {"bool"})
  BY <1>1, RowFacts
<1>3. ValueOf(n, p, cs) = IF i.tl = "int" THEN 2 * Truncated(u) ELSE u
  BY DEF ValueOf
<1>4. Handler(i, x, y) = IF i.tl = i.tr THEN x ELSE IF i.tl = "float" THEN 2 * x ELSE Truncated(x)
  BY DEF Handler
<1>5. u = Halves(i.tr, x)
  OBVIOUS
<1>6. Truncated(x) \in Int /\ Truncated(2 * x) = x
  BY TruncatedFacts
<1> HIDE DEF u
<1> QED BY <1>2, <1>3, <1>4, <1>5, <1>6 DEF Halves, Numeric

-----------------------------------------------------------------------------
(* An evaluation follows what is told of the nodes.                        *)

\* The nodes of the instruction executed last and of the one at p.
Done(nd, p) == IF p = 1 THEN 0 ELSE nd[p - 1]
Ahead(nd, p) == IF p > Len(instrs) THEN Len(ast) + 1 ELSE nd[p]

ToldCalls(cs) == [i \in DOMAIN cs |-> [site |-> cs[i].site, args |-> cs[i].args]]

\* The registers written so far hold the values of their nodes, the variables and the
\* calls are what is told of the node that is done.
RunAt(nd, p, mm, st, cs) ==
    LET t == Told(ast, st, cs)[Done(nd, p)]
    IN  /\ \A i \in 1..p - 1 : instrs[i].op # "assign" =>
              Halves(TypeIn(regs, instrs[i].res), mm[instrs[i].res]) = Value(ast, st, cs, nd[i])
        /\ \A s \in Variables : Halves(Symbols[s].type, mm[CellOf(s)]) = t.store[s]
        /\ t.asked = ToldCalls(cs)

AllCompiled == Len(below) = Len(ast) /\ ast # <<>>

Running(nd) ==
    /\ AllCompiled
    /\ Code(ast, nd, below, regs, instrs, mem)
    /\ pc \in 1..Len(instrs) + 1
    /\ RunAt(nd, pc, mem, start, calls)

LEMMA NodeOrder ==
    ASSUME IInv, NEW nd, Running(nd)
    PROVE  /\ Done(nd, pc) \in 0..Len(ast) /\ Ahead(nd, pc) \in 1..Len(ast) + 1
           /\ Done(nd, pc) < Ahead(nd, pc)
           /\ \A j \in Done(nd, pc) + 1..Ahead(nd, pc) - 1 : ~Computes(ast[j])
           /\ \A i \in 1..Len(instrs) :
                 /\ nd[i] \in 1..Len(ast) /\ nd[i] \in DOMAIN ast /\ Computes(ast[nd[i]])
                 /\ Implements(ast, below, regs, instrs, mem, nd[i], instrs[i])
                 /\ i < pc <=> nd[i] < Ahead(nd, pc)
<1>1. /\ nd \in [1..Len(instrs) -> 1..Len(ast)]
      /\ \A i, j \in 1..Len(instrs) : i < j => nd[i] < nd[j]
      /\ \A k \in 1..Len(ast) : Computes(ast[k]) => \E i \in 1..Len(instrs) : nd[i] = k
      /\ \A i \in 1..Len(instrs) : Implements(ast, below, regs, instrs, mem, nd[i], instrs[i])
      /\ pc \in 1..Len(instrs) + 1
  BY DEF Running, AllCompiled, Code
<1>2. Len(ast) \in Nat /\ Len(instrs) \in Nat /\ DOMAIN instrs = 1..Len(instrs) /\ DOMAIN ast = 1..Len(ast)
  BY QueueFacts
<1>3. \A i \in 1..Len(instrs) : nd[i] \in 1..Len(ast)
  BY <1>1
<1>4. Done(nd, pc) \in 0..Len(ast)
  <2>1. pc # 1 => pc - 1 \in 1..Len(instrs)
    BY <1>1, <1>2
  <2> QED BY <1>2, <1>3, <2>1 DEF Done
<1>5. Ahead(nd, pc) \in 1..Len(ast) + 1
  <2>1. ~(pc > Len(instrs)) => pc \in 1..Len(instrs)
    BY <1>1, <1>2
  <2> QED BY <1>2, <1>3, <2>1 DEF Ahead
<1>6. \A i \in 1..Len(instrs) : i < pc => nd[i] <= Done(nd, pc)
  <2> SUFFICES ASSUME NEW i \in 1..Len(instrs), i < pc PROVE nd[i] <= Done(nd, pc)
    OBVIOUS
  <2>1. pc # 1 /\ pc - 1 \in 1..Len(instrs) /\ (i = pc - 1 \/ i < pc - 1) /\ Done(nd, pc) = nd[pc - 1]
    BY <1>1, <1>2 DEF Done
  <2>2. i < pc - 1 => nd[i] < nd[pc - 1]
    BY <1>1, <2>1
  <2> QED BY <1>3, <2>1, <2>2
<1>7. \A i \in 1..Len(instrs) : ~(i < pc) => Ahead(nd, pc) <= nd[i]
  <2> SUFFICES ASSUME NEW i \in 1..Len(instrs), ~(i < pc) PROVE Ahead(nd, pc) <= nd[i]
    OBVIOUS
  <2>1. pc \in 1..Len(instrs) /\ (i = pc \/ pc < i) /\ Ahead(nd, pc) = nd[pc]
    BY <1>1, <1>2 DEF Ahead
  <2>2. pc < i => nd[pc] < nd[i]
    BY <1>1, <2>1
  <2> QED BY <1>3, <2>1, <2>2
<1>8. Done(nd, pc) < Ahead(nd, pc)
  <2>1. CASE pc > Len(instrs)
    BY <1>2, <1>4, <2>1 DEF Ahead
  <2>2. CASE ~(pc > Len(instrs))
    <3>1. pc \in 1..Len(instrs) /\ Ahead(nd, pc) = nd[pc] /\ nd[pc] \in 1..Len(ast)
      BY <1>1, <1>2, <1>3, <2>2 DEF Ahead
    <3>2. CASE pc = 1
      BY <3>1, <3>2 DEF Done
    <3>3. CASE pc # 1
      <4>1. pc - 1 \in 1..Len(instrs) /\ pc - 1 < pc /\ Done(nd, pc) = nd[pc - 1]
        BY <1>2, <3>1, <3>3 DEF Done
      <4> QED BY <1>1, <3>1, <4>1
    <3> QED BY <3>2, <3>3
  <2> QED BY <2>1, <2>2
<1>9. \A i \in 1..Len(instrs) : i < pc <=> nd[i] < Ahead(nd, pc)
  BY <1>3, <1>4, <1>5, <1>6, <1>7, <1>8
<1>10. \A i \in 1..Len(instrs) : Computes(ast[nd[i]])
  <2> SUFFICES ASSUME NEW i \in 1..Len(instrs) PROVE Computes(ast[nd[i]])
    OBVIOUS
  <2>1. instrs[i].op = ast[nd[i]].op
    BY <1>1 DEF Implements
  <2>2. instrs[i].op \in Operators \cup {"assign", "call"}
    BY <1>2 DEF IInv, InstrInv
  <2> QED BY <2>1, <2>2 DEF Computes
<1>11. ASSUME NEW j \in Done(nd, pc) + 1..Ahead(nd, pc) - 1, Computes(ast[j]) PROVE FALSE
  <2>1. j \in 1..Len(ast)
    BY <1>2, <1>4, <1>5
  <2>2. PICK i \in 1..Len(instrs) : nd[i] = j
    BY <1>1, <1>11, <2>1
  <2> QED BY <1>4, <1>5, <1>6, <1>7, <2>1, <2>2
<1> QED BY <1>1, <1>2, <1>3, <1>4, <1>5, <1>8, <1>9, <1>10, <1>11

\* Before the node ahead, what is told is what is told of the node that is done.
LEMMA ToldBefore ==
    ASSUME IInv, NEW nd, Running(nd), NEW k, k = Ahead(nd, pc) - 1
    PROVE  LET t == Told(ast, start, calls)
           IN  /\ k \in 0..Len(ast)
               /\ t[k].asked = ToldCalls(calls)
               /\ \A s \in Variables : Halves(Symbols[s].type, mem[CellOf(s)]) = t[k].store[s]
               /\ \A c \in 1..k : t[k].val[c] = Value(ast, start, calls, c)
<1> DEFINE t == Told(ast, start, calls)
           d == Done(nd, pc)
<1>1. /\ IsTree(ast) /\ Len(ast) \in Nat /\ d \in 0..Len(ast) /\ k \in d..Len(ast) /\ k \in 0..Len(ast)
      /\ \A i \in d + 1..k : ~Computes(ast[i])
  BY QueueFacts, NodeOrder
<1>2. \A i \in d + 1..k : ast[i].op # "assign"
  BY <1>1 DEF Computes
<1> HIDE DEF d
<1>3. t[k].store = t[d].store /\ t[k].asked = t[d].asked
  BY <1>1, <1>2, ToldQuiet, SMTT(20)
<1>4. RunAt(nd, pc, mem, start, calls)
  BY DEF Running
<1>5. t[d].asked = ToldCalls(calls)
  BY <1>4 DEF RunAt, d
<1>6. \A s \in Variables : Halves(Symbols[s].type, mem[CellOf(s)]) = t[d].store[s]
  BY <1>4 DEF RunAt, d
<1>7. \A c \in 1..k : t[k].val[c] = Value(ast, start, calls, c)
  BY <1>1, ToldValues
<1> QED BY <1>1, <1>3, <1>5, <1>6, <1>7

\* The cell of an expression from which on nothing is assigned holds its value.
LEMMA OperandValue ==
    ASSUME IInv, NEW nd, Running(nd), NEW k, k = Ahead(nd, pc) - 1,
           NEW c \in 1..k, ast[c].op \in Expressions, \A j \in c..k : ~Assigns(ast[j])
    PROVE  LET cell == CellFor(below, c)
           IN  Halves(TypeIn(regs, cell), mem[cell]) = Value(ast, start, calls, c)
<1> DEFINE t == Told(ast, start, calls)
           cell == CellFor(below, c)
<1>1. IsTree(ast) /\ Len(ast) \in Nat /\ k \in 0..Len(ast) /\ c \in 1..Len(ast)
  BY QueueFacts, ToldBefore
<1>2. HoldsLeaf(ast, below, regs, instrs, mem, c)
  BY <1>1 DEF Running, AllCompiled, Code
<1>3. CASE ast[c].op = "const"
  <2>1. mem[cell] = ast[c].v /\ TypeIn(regs, cell) = ast[c].type
    BY <1>2, <1>3 DEF HoldsLeaf
  <2>2. Value(ast, start, calls, c) = Halves(ast[c].type, ast[c].v)
    BY <1>3 DEF Value, ValueOf
  <2> QED BY <2>1, <2>2
<1>4. CASE ast[c].op = "ref"
  <2> DEFINE s == ast[c].v
  <2>1. s \in Variables /\ cell = CellOf(s)
    BY <1>2, <1>4 DEF HoldsLeaf
  <2>2. Halves(Symbols[s].type, mem[cell]) = t[k].store[s]
    BY <2>1, ToldBefore
  <2>3. t[k].store = t[c - 1].store
    <3>1. c - 1 \in 0..Len(ast) /\ k \in c - 1..Len(ast) /\ (c - 1) + 1 = c
      BY <1>1
    <3>2. \A i \in c..k : ast[i].op # "assign"
      BY DEF Assigns
    <3> QED BY <1>1, <3>1, <3>2, ToldQuiet
  <2>4. Value(ast, start, calls, c) = t[c - 1].store[s]
    BY <1>4 DEF Value, ValueOf
  <2>5. TypeIn(regs, cell) = Symbols[s].type
    BY <2>1, SymbolFacts, EintAssumption DEF TypeIn, CellOf, Variables
  <2> QED BY <2>2, <2>3, <2>4, <2>5
<1>5. CASE ast[c].op \in Operators \cup {"call"}
  <2>1. PICK i \in 1..Len(instrs) : nd[i] = c
    BY <1>1, <1>5 DEF Running, AllCompiled, Code, Computes
  <2>2. /\ i < pc
        /\ Implements(ast, below, regs, instrs, mem, c, instrs[i])
    <3>1. c < Ahead(nd, pc)
      BY <1>1, NodeOrder
    <3> QED BY <2>1, <3>1, NodeOrder
  <2>3. instrs[i].op # "assign" /\ instrs[i].res = cell
    BY <1>5, <2>2 DEF Implements, Operators
  <2>4. RunAt(nd, pc, mem, start, calls) /\ i \in 1..pc - 1
    BY <2>1, <2>2, QueueFacts DEF Running
  <2> QED BY <2>1, <2>3, <2>4 DEF RunAt
<1> QED BY <1>3, <1>4, <1>5 DEF Expressions

\* An instruction writes the value of its node and nothing that is still needed.
Executes(m, v, cs) ==
    LET i == instrs[pc]
    IN  /\ mem' = [mem EXCEPT ![i.res] = v]
        /\ Told(ast, start, cs)[m - 1] = Told(ast, start, calls)[m - 1]
        /\ i.op # "assign" => Halves(TypeIn(regs, i.res), v) = Value(ast, start, cs, m)
        /\ i.op = "assign" => Halves(Symbols[ast[m].v].type, v) = Value(ast, start, cs, m)
        /\ Told(ast, start, cs)[m].asked = ToldCalls(cs)

LEMMA InstructionRuns ==
    ASSUME IInv, NEW nd, Running(nd), Executing, NEW m, m = nd[pc], NEW v \in Int, NEW cs,
           Executes(m, v, cs)
    PROVE  /\ RunAt(nd, pc + 1, mem', start, cs)
           /\ \A c : Fixed(regs, instrs, c) => mem'[c] = mem[c]
<1> DEFINE t == Told(ast, start, calls)
           u == Told(ast, start, cs)
           res == instrs[pc].res
<1>a. /\ mem' = [mem EXCEPT ![instrs[pc].res] = v]
      /\ u[m - 1] = t[m - 1]
      /\ instrs[pc].op # "assign" => Halves(TypeIn(regs, instrs[pc].res), v) = Value(ast, start, cs, m)
      /\ instrs[pc].op = "assign" => Halves(Symbols[ast[m].v].type, v) = Value(ast, start, cs, m)
      /\ u[m].asked = ToldCalls(cs)
  BY DEF Executes
<1> USE <1>a
<1>1. /\ IsTree(ast) /\ Len(ast) \in Nat /\ mem \in [Cells -> Int] /\ Len(regs) \in Nat
      /\ Len(regs) <= MaxRegs /\ MaxRegs \in Nat
      /\ DOMAIN instrs = 1..Len(instrs) /\ Len(instrs) \in Nat
      /\ pc \in 1..Len(instrs) /\ instrs[pc].res \in Cells
  BY QueueFacts, CurrentFacts
<1>2. Ahead(nd, pc) = m
  BY <1>1 DEF Ahead
<1>3. /\ m \in 1..Len(ast) /\ m - 1 \in 0..Len(ast)
      /\ Implements(ast, below, regs, instrs, mem, m, instrs[pc])
      /\ \A i \in 1..pc - 1 : /\ nd[i] \in 1..m - 1 /\ i \in 1..Len(instrs)
                              /\ Implements(ast, below, regs, instrs, mem, nd[i], instrs[i])
                              /\ Computes(ast[nd[i]])
  <2>1. \A i \in 1..pc - 1 : i \in 1..Len(instrs) /\ i < pc
    BY <1>1
  <2>2. m \in 1..Len(ast) /\ Implements(ast, below, regs, instrs, mem, m, instrs[pc])
    BY <1>1, NodeOrder
  <2>3. \A i \in 1..pc - 1 :
           /\ nd[i] \in 1..Len(ast) /\ nd[i] < m /\ Computes(ast[nd[i]])
           /\ Implements(ast, below, regs, instrs, mem, nd[i], instrs[i])
    BY <1>2, <2>1, NodeOrder
  <2> QED BY <1>1, <2>1, <2>2, <2>3
<1>4. Done(nd, pc + 1) = m
  <2>1. pc + 1 # 1 /\ (pc + 1) - 1 = pc
    BY <1>1
  <2> QED BY <2>1 DEF Done
<1>5. /\ t[m - 1].asked = ToldCalls(calls)
      /\ \A s \in Variables : Halves(Symbols[s].type, mem[CellOf(s)]) = t[m - 1].store[s]
      /\ \A c \in 1..m - 1 : t[m - 1].val[c] = Value(ast, start, calls, c)
      /\ u[m - 1] = t[m - 1]
  BY <1>2, <1>3, ToldBefore
<1>6. \A i \in 1..pc : instrs[i].op # "assign" => instrs[i].res \in 1..Len(regs) /\ instrs[i].res \in Cells
  <2> SUFFICES ASSUME NEW i \in 1..pc, instrs[i].op # "assign"
               PROVE  instrs[i].res \in 1..Len(regs) /\ instrs[i].res \in Cells
    OBVIOUS
  <2> DEFINE j == nd[i]
  <2>1. /\ Implements(ast, below, regs, instrs, mem, j, instrs[i]) /\ Computes(ast[j])
    <3>1. i \in 1..Len(instrs)
      BY <1>1
    <3> QED BY <3>1, NodeOrder
  <2> HIDE DEF j
  <2>2. instrs[i].res \in 1..Len(regs)
    <3>1. CASE ast[j].op \in Operators
      BY <2>1, <3>1 DEF Implements, ComputesOperator
    <3>2. CASE ast[j].op = "call"
      BY <2>1, <3>2 DEF Implements, CallsFunction
    <3>3. ast[j].op # "assign"
      BY <2>1 DEF Implements
    <3> QED BY <2>1, <3>1, <3>2, <3>3 DEF Computes
  <2>3. instrs[i].res \in Cells
    BY <1>1, <2>2, SymbolFacts DEF Cells
  <2> QED BY <2>2, <2>3
<1>7. ASSUME NEW i \in 1..pc - 1, instrs[i].op # "assign" PROVE mem'[instrs[i].res] = mem[instrs[i].res]
  <2>1. i \in DOMAIN instrs /\ pc \in DOMAIN instrs /\ i # pc /\ i \in 1..pc
    BY <1>1
  <2>2. instrs[i].res \in Cells /\ instrs[i].res <= MaxRegs
    BY <1>1, <1>6, <1>7, <2>1
  <2>3. instrs[i].res # res
    BY <2>1, <2>2 DEF IInv, RegistersFlowForward
  <2> QED BY <1>1, <2>2, <2>3
<1>8. \A i \in 1..pc - 1 : Value(ast, start, cs, nd[i]) = Value(ast, start, calls, nd[i])
  <2> SUFFICES ASSUME NEW i \in 1..pc - 1
               PROVE  Value(ast, start, cs, nd[i]) = Value(ast, start, calls, nd[i])
    OBVIOUS
  <2>1. nd[i] \in 1..m - 1
    BY <1>3
  <2>2. u[m - 1].val[nd[i]] = Value(ast, start, cs, nd[i])
    BY <1>1, <1>3, <2>1, ToldValues, SMTT(20)
  <2> QED BY <1>5, <2>1, <2>2
<1>9. \A i \in 1..pc : instrs[i].op # "assign" =>
          Halves(TypeIn(regs, instrs[i].res), mem'[instrs[i].res]) = Value(ast, start, cs, nd[i])
  <2> SUFFICES ASSUME NEW i \in 1..pc, instrs[i].op # "assign"
               PROVE  Halves(TypeIn(regs, instrs[i].res), mem'[instrs[i].res]) = Value(ast, start, cs, nd[i])
    OBVIOUS
  <2>1. CASE i = pc
    <3>1. mem'[instrs[i].res] = v
      BY <1>1, <2>1
    <3> QED BY <2>1, <3>1
  <2>2. CASE i \in 1..pc - 1
    <3>1. RunAt(nd, pc, mem, start, calls)
      BY DEF Running
    <3>2. Halves(TypeIn(regs, instrs[i].res), mem[instrs[i].res]) = Value(ast, start, calls, nd[i])
      BY <2>2, <3>1 DEF RunAt
    <3> QED BY <1>7, <1>8, <2>2, <3>2
  <2> QED BY <1>1, <2>1, <2>2
<1>10. ToldStepped(ast, start, cs, m)
  BY <1>1, <1>3, ToldStep
<1>11. u[m].store = IF ast[m].op = "assign"
                    THEN [t[m - 1].store EXCEPT ![ast[m].v] = Value(ast, start, cs, m)]
                    ELSE t[m - 1].store
  BY <1>5, <1>10 DEF ToldStepped
<1>12. t[m - 1].store = [s \in DOMAIN Symbols |-> t[m - 1].store[s]]
  <2> DEFINE j == m - 1
  <2>1. j \in 0..Len(ast)
    BY <1>1, <1>3
  <2> HIDE DEF j, u
  <2>2. t[j].store = [s \in DOMAIN Symbols |-> t[j].store[s]]
    BY <1>1, <2>1, ToldStore, ZenonT(30)
  <2> QED BY <2>2 DEF j
<1> HIDE DEF t, u
<1>13. \A s \in Variables : s \in DOMAIN Symbols /\ CellOf(s) \in Cells /\ CellOf(s) > MaxRegs
  BY <1>1, SymbolFacts DEF Variables, CellOf, VariableCells
<1>14. ASSUME NEW s \in Variables PROVE Halves(Symbols[s].type, mem'[CellOf(s)]) = u[m].store[s]
  <2>1. CASE ast[m].op = "assign"
    <3>1. instrs[pc].op = "assign" /\ ast[m].v \in Variables /\ res = CellOf(ast[m].v)
      BY <1>3, <2>1 DEF Implements, AssignsSymbol
    <3>2. CASE s = ast[m].v
      <4>1. mem'[CellOf(s)] = v
        BY <1>1, <3>1, <3>2
      <4>2. u[m].store[s] = Value(ast, start, cs, m)
        BY <1>11, <1>12, <1>13, <2>1, <3>2
      <4> QED BY <3>1, <3>2, <4>1, <4>2
    <3>3. CASE s # ast[m].v
      <4>1. CellOf(s) # res
        <5>1. s \in Int /\ ast[m].v \in Int
          BY <1>13, <3>1, SymbolFacts
        <5> QED BY <1>1, <3>1, <3>3, <5>1 DEF CellOf
      <4>2. mem'[CellOf(s)] = mem[CellOf(s)]
        BY <1>1, <1>13, <4>1
      <4>3. u[m].store[s] = t[m - 1].store[s]
        BY <1>11, <1>12, <1>13, <2>1, <3>3
      <4> QED BY <1>5, <4>2, <4>3
    <3> QED BY <3>2, <3>3
  <2>2. CASE ast[m].op # "assign"
    <3>1. instrs[pc].op # "assign"
      BY <1>3, <2>2 DEF Implements
    <3>2. CellOf(s) # res
      BY <1>1, <1>6, <1>13, <3>1
    <3>3. mem'[CellOf(s)] = mem[CellOf(s)]
      BY <1>1, <1>13, <3>2
    <3> QED BY <1>5, <1>11, <2>2, <3>3
  <2> QED BY <2>1, <2>2
<1>15. RunAt(nd, pc + 1, mem', start, cs)
  <2>1. (pc + 1) - 1 = pc
    BY <1>1
  <2> QED BY <1>4, <1>9, <1>14, <2>1 DEF RunAt, u
<1>16. ASSUME NEW c, Fixed(regs, instrs, c) PROVE mem'[c] = mem[c]
  <2>1. c \in Cells /\ c # res
    BY <1>1, <1>16, SymbolFacts DEF Fixed, Cells
  <2> QED BY <1>1, <2>1
<1> QED BY <1>15, <1>16

LEMMA OperatorRuns ==
    ASSUME IInv, NEW nd, Running(nd), ExecuteHandler, instrs[pc].op # "assign"
    PROVE  /\ RunAt(nd, pc + 1, mem', start, calls)
           /\ \A c : Fixed(regs, instrs, c) => mem'[c] = mem[c]
<1> DEFINE i == instrs[pc]
           x == mem[i.args[1]]
           y == IF Len(i.args) = 2 THEN mem[i.args[2]] ELSE 0
           m == nd[pc]
           n == ast[m]
           t == Told(ast, start, calls)
           l == CellFor(below, n.l)
           r == CellFor(below, n.r)
<1>1. /\ Executing /\ i.op # "call" /\ mem' = [mem EXCEPT ![i.res] = Handler(i, x, y)]
  BY DEF ExecuteHandler
<1>2. /\ IsTree(ast) /\ mem \in [Cells -> Int] /\ pc \in 1..Len(instrs) /\ i.args \in Seq(Cells)
      /\ i.args # <<>>
  BY <1>1, QueueFacts, CurrentFacts DEF IInv, InstrInv
<1>3. /\ Ahead(nd, pc) = m /\ m \in 1..Len(ast) /\ m \in DOMAIN ast
      /\ Implements(ast, below, regs, instrs, mem, m, i)
  BY <1>2, NodeOrder, QueueFacts DEF Ahead
<1>4. n.op = i.op /\ n.op \in Operators
  <2>1. n.op = i.op
    BY <1>3 DEF Implements
  <2>2. i.op \in Operators \cup {"assign"}
    BY <1>1, <1>2, QueueFacts DEF IInv, InstrInv
  <2> QED BY <2>1, <2>2
<1>5. ComputesOperator(ast, below, regs, m, i)
  BY <1>3, <1>4 DEF Implements
<1>6. /\ \A c \in 1..m - 1 : t[m - 1].val[c] = Value(ast, start, calls, c)
      /\ t[m - 1].asked = ToldCalls(calls)
  BY <1>3, ToldBefore
<1>7. n.op # "stmt"
  BY <1>4 DEF Operators
<1>8. ASSUME NEW c \in Kids(n), c \in 1..m - 1, ast[c].op \in Expressions
      PROVE  Halves(TypeIn(regs, CellFor(below, c)), mem[CellFor(below, c)]) = t[m - 1].val[c]
  <2>1. \A j \in c..m - 1 : ~Assigns(ast[j])
    BY <1>2, <1>3, <1>7, NothingAssigned
  <2>2. Halves(TypeIn(regs, CellFor(below, c)), mem[CellFor(below, c)]) = Value(ast, start, calls, c)
    BY <1>3, <1>8, <2>1, OperandValue
  <2> QED BY <1>6, <1>8, <2>2
<1>9. /\ n.l \in 1..m - 1 /\ n.l \in Kids(n) /\ ast[n.l].op \in Expressions
      /\ n.op \in Unary => n.r = Null
      /\ n.op \notin Unary => /\ n.r \in 1..m - 1 /\ n.r \in Kids(n) /\ n.r # Null
                              /\ ast[n.r].op \in Expressions
  <2>1. n.op # "assign"
    BY <1>4 DEF Operators
  <2> QED BY <1>2, <1>3, <1>4, <2>1, OperandNodes
<1>10. x = mem[l] /\ x \in Int /\ i.tl = TypeIn(regs, l)
  <2>1. i.args[1] = l /\ i.tl = TypeIn(regs, l)
    BY <1>5 DEF ComputesOperator
  <2>2. i.args[1] \in Cells
    BY <1>2
  <2> QED BY <1>2, <2>1, <2>2
<1>11. y \in Int /\ (n.op \notin Unary => y = mem[r] /\ i.tr = TypeIn(regs, r))
  <2>1. CASE n.op \in Unary
    <3>1. Len(i.args) = 1
      BY <1>5, <1>9, <2>1 DEF ComputesOperator
    <3> QED BY <2>1, <3>1
  <2>2. CASE n.op \notin Unary
    <3>1. i.args = <<l, r>> /\ i.tr = TypeIn(regs, r)
      BY <1>5, <1>9, <2>2 DEF ComputesOperator
    <3>2. i.args[2] = r /\ Len(i.args) = 2 /\ i.args[2] \in Cells
      <4> HIDE DEF l, r
      <4>1. Len(i.args) = 2 /\ i.args[2] = r
        BY <3>1
      <4> QED BY <1>2, <4>1
    <3> QED BY <1>2, <2>2, <3>1, <3>2
  <2> QED BY <2>1, <2>2
<1>12. PICK w \in RulesFor(i.op, i.tl, i.tr) : TypeIn(regs, i.res) = w.tres
  BY <1>4, <1>5 DEF ComputesOperator
<1>13. /\ t[m - 1].val[n.l] = Halves(i.tl, x)
       /\ i.op \notin Unary => t[m - 1].val[n.r] = Halves(i.tr, y)
  BY <1>4, <1>8, <1>9, <1>10, <1>11
<1> HIDE DEF x, y
<1>14. Halves(w.tres, Handler(i, x, y)) = ValueOf(n, t[m - 1], calls)
  BY <1>4, <1>10, <1>11, <1>13, HandlerTells
<1>15. Handler(i, x, y) \in Int
  BY <1>4, <1>10, <1>11, HandlerType
<1>16. Halves(TypeIn(regs, i.res), Handler(i, x, y)) = Value(ast, start, calls, m)
  BY <1>12, <1>14 DEF Value
<1>17. t[m].asked = ToldCalls(calls)
  <2>1. ToldStepped(ast, start, calls, m)
    BY <1>2, <1>3, ToldStep
  <2>2. n.op # "call"
    BY <1>4 DEF Operators
  <2> QED BY <1>6, <2>1, <2>2 DEF ToldStepped
<1>18. Executes(m, Handler(i, x, y), calls)
  BY <1>1, <1>4, <1>16, <1>17 DEF Executes, Operators
<1> QED BY <1>1, <1>15, <1>18, InstructionRuns

LEMMA AssignmentRuns ==
    ASSUME IInv, NEW nd, Running(nd), ExecuteHandler, instrs[pc].op = "assign"
    PROVE  /\ RunAt(nd, pc + 1, mem', start, calls)
           /\ \A c : Fixed(regs, instrs, c) => mem'[c] = mem[c]
<1> DEFINE i == instrs[pc]
           x == mem[i.args[1]]
           y == IF Len(i.args) = 2 THEN mem[i.args[2]] ELSE 0
           m == nd[pc]
           n == ast[m]
           t == Told(ast, start, calls)
           l == CellFor(below, n.l)
<1>1. /\ Executing /\ mem' = [mem EXCEPT ![i.res] = Handler(i, x, y)]
  BY DEF ExecuteHandler
<1>2. /\ IsTree(ast) /\ mem \in [Cells -> Int] /\ pc \in 1..Len(instrs) /\ i.args \in Seq(Cells)
  BY <1>1, QueueFacts, CurrentFacts
<1>3. /\ Ahead(nd, pc) = m /\ m \in 1..Len(ast) /\ m \in DOMAIN ast
      /\ Implements(ast, below, regs, instrs, mem, m, i)
  BY <1>2, NodeOrder, QueueFacts DEF Ahead
<1>4. n.op = "assign" /\ AssignsSymbol(ast, below, regs, m, i)
  BY <1>3 DEF Implements
<1>6. /\ \A c \in 1..m - 1 : t[m - 1].val[c] = Value(ast, start, calls, c)
      /\ t[m - 1].asked = ToldCalls(calls)
  BY <1>3, ToldBefore
<1>7. n.l \in 1..m - 1 /\ n.l \in Kids(n) /\ ast[n.l].op \in Expressions
  BY <1>2, <1>3, <1>4, OperandNodes
<1>8. Halves(TypeIn(regs, l), mem[l]) = t[m - 1].val[n.l]
  <2>1. \A j \in n.l..m - 1 : ~Assigns(ast[j])
    BY <1>2, <1>3, <1>4, <1>7, NothingAssigned
  <2>2. Halves(TypeIn(regs, l), mem[l]) = Value(ast, start, calls, n.l)
    BY <1>3, <1>7, <2>1, OperandValue
  <2> QED BY <1>6, <1>7, <2>2
<1>9. /\ i.args = <<l>> /\ i.tl = Symbols[n.v].type /\ i.tr = TypeIn(regs, l)
      /\ RulesFor("assign", i.tl, i.tr) # {}
  BY <1>4 DEF AssignsSymbol
<1>10. x = mem[l] /\ x \in Int
  <2>1. i.args[1] = l /\ 1 \in DOMAIN i.args
    BY <1>9
  <2> QED BY <1>2, <2>1
<1>11. y \in Int
  <2>1. Len(i.args) = 1
    BY <1>9
  <2> QED BY <2>1
<1>12. t[m - 1].val[n.l] = Halves(i.tr, x)
  BY <1>8, <1>9, <1>10
<1> HIDE DEF x, y
<1>14. Halves(i.tl, Handler(i, x, y)) = ValueOf(n, t[m - 1], calls)
  <2>1. i.op = "assign" /\ n.op = "assign"
    BY <1>4
  <2> DEFINE p == t[m - 1]
  <2>2. p.val[n.l] = Halves(i.tr, x)
    BY <1>12
  <2>3. i.tl = Symbols[n.v].type /\ RulesFor("assign", i.tl, i.tr) # {}
    BY <1>9
  <2> HIDE DEF i, n, p
  <2>4. Halves(i.tl, Handler(i, x, y)) = ValueOf(n, p, calls)
    BY <1>10, <1>11, <2>1, <2>2, <2>3, AssignmentTells
  <2> QED BY <2>4 DEF p
<1>15. Handler(i, x, y) \in Int
  BY <1>10, <1>11, HandlerType
<1>16. Halves(Symbols[n.v].type, Handler(i, x, y)) = Value(ast, start, calls, m)
  BY <1>9, <1>14 DEF Value
<1>17. t[m].asked = ToldCalls(calls)
  <2>1. ToldStepped(ast, start, calls, m)
    BY <1>2, <1>3, ToldStep
  <2> QED BY <1>4, <1>6, <2>1 DEF ToldStepped
<1>18. Executes(m, Handler(i, x, y), calls)
  BY <1>1, <1>4, <1>16, <1>17 DEF Executes, Operators
<1> QED BY <1>1, <1>15, <1>18, InstructionRuns

\* What follows a first element.
LEMMA RestOfSequence ==
    ASSUME NEW S, NEW g \in Seq(S)
    PROVE  /\ SubSeq(g, 1, Len(g)) = g
           /\ \A h \in S : SubSeq(<<h>> \o g, 2, Len(<<h>> \o g)) = g
<1>1. SubSeq(g, 1, Len(g)) = g
  OBVIOUS
<1>2. ASSUME NEW h \in S PROVE SubSeq(<<h>> \o g, 2, Len(<<h>> \o g)) = g
  <2> DEFINE s == <<h>> \o g
             r == SubSeq(s, 2, Len(s))
  <2>1. s \in Seq(S) /\ Len(s) = Len(g) + 1 /\ \A k \in 1..Len(g) : s[k + 1] = g[k]
    OBVIOUS
  <2> HIDE DEF s
  <2>2. r \in Seq(S) /\ Len(r) = Len(g) /\ \A k \in 1..Len(g) : r[k] = s[k + 1]
    BY <2>1
  <2> HIDE DEF r
  <2>3. r = g
    BY <2>1, <2>2
  <2> QED BY <2>3 DEF r, s
<1> QED BY <1>1, <1>2

\* The arguments an instruction gives are the values of the leaves.
LEMMA ArgumentsTold ==
    ASSUME IInv, NEW nd, Running(nd), NEW m, m = Ahead(nd, pc), m \in DOMAIN ast, ast[m].op = "call",
           NEW given, given = GivenTo(ast, below, m)
    PROVE  [k \in DOMAIN given |-> Halves(TypeIn(regs, given[k]), mem[given[k]])]
              = AskedBy(ast, m, Told(ast, start, calls)[m - 1]).args
<1> DEFINE l == ast[m].l
           leaves == Leaves(ast)[l]
           t == Told(ast, start, calls)
<1>1. /\ IsTree(ast) /\ IsNode(ast, m) /\ m \in Nat /\ l \in 0..m - 1 /\ ast \in Seq(NodeType)
      /\ m <= Len(ast) /\ Len(ast) \in Nat
  BY QueueFacts, TreeFacts
<1>2. AskedBy(ast, m, t[m - 1]).args = [i \in DOMAIN leaves |-> t[m - 1].val[leaves[i]]]
  BY DEF AskedBy
<1>3. CASE l = Null
  <2>1. given = <<>> /\ leaves = <<>>
    BY <1>1, <1>3, LeavesFacts DEF GivenTo
  <2> HIDE DEF leaves
  <2>2. DOMAIN given = {} /\ DOMAIN leaves = {}
    BY <2>1
  <2> QED BY <1>2, <2>2
<1>4. CASE l # Null
  <2>1. /\ l \in 1..m - 1 /\ l \in DOMAIN ast /\ l \in Kids(ast[m])
        /\ ast[l].op \in Expressions \cup {"list"}
    BY <1>1, <1>4 DEF IsNode, Kids, Null, Operators, Unary
  <2>2. LeavesFine(ast, l)
    BY <1>1, <2>1, LeafFacts
  <2>3. given = below[l] /\ below[l] \in Seq(Cells) /\ CellsOfLeaves(ast, below, l) /\ l \in 1..Len(below)
    <3>1. l \in 1..Len(below)
      BY <1>1, <2>1 DEF Running, AllCompiled
    <3> QED BY <1>4, <3>1, QueueFacts DEF GivenTo, Running, Code
  <2>4. leaves \in Seq(DOMAIN ast) /\ Len(given) = Len(leaves)
        /\ \A i \in DOMAIN leaves : given[i] = CellFor(below, leaves[i]) /\ LeafOf(ast, leaves[i], l)
    BY <2>1, <2>2, <2>3 DEF CellsOfLeaves, LeavesFine
  <2> HIDE DEF leaves
  <2>5. DOMAIN given = DOMAIN leaves
    BY <2>3, <2>4
  <2>6. \A j \in l..m - 1 : ~Assigns(ast[j])
    BY <1>1, <2>1, NothingAssigned
  <2>7. ASSUME NEW i \in DOMAIN leaves
        PROVE  Halves(TypeIn(regs, given[i]), mem[given[i]]) = t[m - 1].val[leaves[i]]
    <3> DEFINE c == leaves[i]
    <3>1. c \in 1..l /\ ast[c].op \in Expressions /\ (\A j \in c..l : ~Assigns(ast[j])) /\ given[i] = CellFor(below, c)
      BY <2>4 DEF LeafOf
    <3> HIDE DEF c
    <3>2. c \in 1..m - 1
      BY <1>1, <2>1, <3>1
    <3>3. \A j \in c..m - 1 : j \in c..l \/ j \in l..m - 1
      BY <1>1, <2>1, <3>1
    <3>4. \A j \in c..m - 1 : ~Assigns(ast[j])
      BY <2>6, <3>1, <3>3
    <3>5. Halves(TypeIn(regs, given[i]), mem[given[i]]) = Value(ast, start, calls, c)
      BY <3>1, <3>2, <3>4, OperandValue
    <3>6. t[m - 1].val[c] = Value(ast, start, calls, c)
      BY <3>2, ToldBefore
    <3> QED BY <3>5, <3>6 DEF c
  <2> DEFINE p == t[m - 1]
  <2>8. p = t[m - 1]
    OBVIOUS
  <2> HIDE DEF p, t
  <2>9. \A i \in DOMAIN leaves : Halves(TypeIn(regs, given[i]), mem[given[i]]) = p.val[leaves[i]]
    BY <2>7, <2>8
  <2>10. [k \in DOMAIN given |-> Halves(TypeIn(regs, given[k]), mem[given[k]])]
            = [i \in DOMAIN leaves |-> p.val[leaves[i]]]
    BY <2>5, <2>9
  <2> QED BY <1>2, <2>8, <2>10 DEF t, leaves
<1> QED BY <1>3, <1>4

LEMMA ToldCallsFacts ==
    ASSUME NEW cs \in Seq(CallType), NEW c \in CallType
    PROVE  /\ Len(ToldCalls(cs)) = Len(cs)
           /\ ToldCalls(Append(cs, c)) = Append(ToldCalls(cs), [site |-> c.site, args |-> c.args])
<1> DEFINE told(x) == [site |-> x.site, args |-> x.args]
           T == {told(x) : x \in CallType}
           s == ToldCalls(cs)
           r == ToldCalls(Append(cs, c))
           q == told(c)
<1>1. cs \in Seq(CallType) /\ Len(cs) \in Nat /\ DOMAIN cs = 1..Len(cs) /\ \A i \in DOMAIN cs : cs[i] \in CallType
  OBVIOUS
<1>2. s = [i \in 1..Len(cs) |-> told(cs[i])] /\ \A i \in 1..Len(cs) : told(cs[i]) \in T
  BY <1>1 DEF ToldCalls
<1>3. s \in Seq(T) /\ Len(s) = Len(cs) /\ \A i \in 1..Len(cs) : s[i] = told(cs[i])
  <2> HIDE DEF s, T, told
  <2>1. s \in [1..Len(cs) -> T]
    BY <1>2
  <2>2. s \in Seq(T)
    BY <1>1, <2>1
  <2> QED BY <1>1, <1>2, <2>1, <2>2
<1>4. /\ Append(cs, c) \in Seq(CallType)
      /\ DOMAIN Append(cs, c) = 1..Len(cs) + 1 /\ Append(cs, c)[Len(cs) + 1] = c
      /\ \A i \in 1..Len(cs) : Append(cs, c)[i] = cs[i]
  BY <1>1, AppendFacts
<1>5. r = [i \in 1..Len(cs) + 1 |-> told(Append(cs, c)[i])]
  BY <1>4 DEF ToldCalls
<1>6. q \in T
  OBVIOUS
<1>7. /\ DOMAIN Append(s, q) = 1..Len(cs) + 1 /\ Append(s, q)[Len(cs) + 1] = q
      /\ \A i \in 1..Len(cs) : Append(s, q)[i] = s[i]
      /\ Append(s, q) \in Seq(T)
  <2> HIDE DEF s, T, q
  <2> QED BY <1>1, <1>3, <1>6, AppendFacts
<1>8. \A i \in 1..Len(cs) + 1 : told(Append(cs, c)[i]) = Append(s, q)[i]
  <2> SUFFICES ASSUME NEW i \in 1..Len(cs) + 1 PROVE told(Append(cs, c)[i]) = Append(s, q)[i]
    OBVIOUS
  <2>1. CASE i = Len(cs) + 1
    BY <1>4, <1>7, <2>1
  <2>2. CASE i \in 1..Len(cs)
    BY <1>3, <1>4, <1>7, <2>2
  <2>3. i = Len(cs) + 1 \/ i \in 1..Len(cs)
    BY <1>1
  <2> QED BY <2>1, <2>2, <2>3
<1> HIDE DEF s, T, q, told, r
<1>9. r = Append(s, q)
  <2>1. Append(s, q) \in [1..Len(cs) + 1 -> T]
    <3>1. \A z \in Seq(T) : z \in [DOMAIN z -> T]
      OBVIOUS
    <3> QED BY <1>7, <3>1
  <2> QED BY <1>5, <1>8, <2>1
<1> QED BY <1>3, <1>9 DEF s, q, r, told

\* What ExecuteCall notes of a call.
GivenBy(i) == SubSeq(i.args, 1 + Bit(Symbols[i.sym].stateful), Len(i.args))
IsCall(call, i, ret) ==
    LET given == GivenBy(i)
    IN  /\ call.ret = ret
        /\ call.site = IF Symbols[i.sym].stateful THEN mem[i.args[1]] ELSE 0
        /\ call.args = [k \in DOMAIN given |-> Halves(TypeAt(given[k]), mem[given[k]])]

\* The instruction of a call has the arguments of its node.
LEMMA GivenToNode ==
    ASSUME IInv, NEW nd, Running(nd), Executing, instrs[pc].op = "call"
    PROVE  LET i == instrs[pc]
               k == nd[pc]
           IN  /\ k \in DOMAIN ast /\ k \in 1..Len(ast) /\ ast[k].op = "call"
               /\ i.sym = ast[k].v /\ i.sym \in DOMAIN Symbols
               /\ GivenBy(i) = GivenTo(ast, below, k)
               /\ Len(GivenBy(i)) = Len(Leaves(ast)[ast[k].l])
<1> DEFINE i == instrs[pc]
           k == nd[pc]
           n == ast[k]
           f == Symbols[n.v]
           g == GivenTo(ast, below, k)
<1>1. /\ IsTree(ast) /\ pc \in 1..Len(instrs) /\ Len(below) = Len(ast) /\ Len(ast) \in Nat
      /\ below \in Seq(Seq(Cells))
  BY QueueFacts, CurrentFacts DEF Running, AllCompiled
<1>2. k \in 1..Len(ast) /\ k \in DOMAIN ast /\ Implements(ast, below, regs, instrs, mem, k, i)
  BY <1>1, NodeOrder
<1>3. n.op = "call" /\ CallsFunction(ast, below, regs, instrs, mem, k, i)
  BY <1>2 DEF Implements
<1>4. /\ i.sym = n.v /\ n.v \in DOMAIN Symbols /\ f.stateful \in BOOLEAN
      /\ n.l # Null => n.l \in 1..Len(below) /\ ast[n.l].op \in Expressions \cup {"list"}
  <2>1. i.sym = n.v
    BY <1>3 DEF CallsFunction
  <2>2. /\ n.v \in DOMAIN Symbols
        /\ n.l # Null => n.l \in 1..k - 1 /\ ast[n.l].op \in Expressions \cup {"list"}
    BY <1>1, <1>2, <1>3, TreeFacts DEF IsNode, Operators, Unary
  <2>3. f.stateful \in BOOLEAN
    BY <2>2, SymbolFacts DEF SymbolType
  <2>4. k \in 1..Len(ast)
    BY <1>2
  <2> HIDE DEF k, n
  <2> QED BY <1>1, <2>1, <2>2, <2>3, <2>4
<1>5. g \in Seq(Cells) /\ Len(g) = Len(Leaves(ast)[n.l])
  <2>1. CASE n.l = Null
    <3>1. g = <<>> /\ Leaves(ast)[n.l] = <<>>
      BY <1>1, <2>1, LeavesFacts DEF GivenTo
    <3> HIDE DEF g
    <3> QED BY <3>1
  <2>2. CASE n.l # Null
    <3>1. g = below[n.l] /\ CellsOfLeaves(ast, below, n.l)
      BY <1>4, <2>2 DEF GivenTo, Running, Code
    <3> HIDE DEF g
    <3> QED BY <1>1, <1>4, <2>2, <3>1 DEF CellsOfLeaves
  <2> QED BY <2>1, <2>2
<1> HIDE DEF g
<1>6. CASE f.stateful
  <2>1. i.args = <<i.args[1]>> \o g /\ Fixed(regs, instrs, i.args[1])
    BY <1>3, <1>6 DEF CallsFunction, g
  <2>2. i.args[1] \in Cells
    BY <2>1, QueueFacts, SymbolFacts DEF Fixed, Cells
  <2>3. SubSeq(<<i.args[1]>> \o g, 2, Len(<<i.args[1]>> \o g)) = g
    BY <1>5, <2>2, RestOfSequence
  <2>4. GivenBy(i) = SubSeq(i.args, 2, Len(i.args))
    BY <1>4, <1>6 DEF Bit, GivenBy
  <2>5. GivenBy(i) = g
    BY <2>1, <2>3, <2>4
  <2> QED BY <1>2, <1>3, <1>4, <1>5, <2>5 DEF g
<1>7. CASE ~f.stateful
  <2>1. i.args = g
    BY <1>3, <1>7 DEF CallsFunction, g
  <2>2. GivenBy(i) = SubSeq(i.args, 1, Len(i.args))
    BY <1>4, <1>7 DEF Bit, GivenBy
  <2>3. GivenBy(i) = g
    BY <1>5, <2>1, <2>2, RestOfSequence
  <2> QED BY <1>2, <1>3, <1>4, <1>5, <2>3 DEF g
<1> QED BY <1>4, <1>6, <1>7

LEMMA CallRuns ==
    ASSUME IInv, NEW nd, Running(nd), Executing, instrs[pc].op = "call",
           NEW ret \in 0..1, mem' = [mem EXCEPT ![instrs[pc].res] = ret],
           NEW call \in CallType, IsCall(call, instrs[pc], ret)
    PROVE  /\ RunAt(nd, pc + 1, mem', start, Append(calls, call))
           /\ \A c : Fixed(regs, instrs, c) => mem'[c] = mem[c]
<1> DEFINE i == instrs[pc]
           m == nd[pc]
           n == ast[m]
           f == Symbols[n.v]
           t == Told(ast, start, calls)
           cs == Append(calls, call)
           u == Told(ast, start, cs)
           given == GivenBy(i)
<1>2. /\ IsTree(ast) /\ mem \in [Cells -> Int] /\ pc \in 1..Len(instrs) /\ i.args \in Seq(Cells)
      /\ calls \in Seq(CallType) /\ Len(calls) \in Nat
  BY QueueFacts, CurrentFacts
<1>3. /\ Ahead(nd, pc) = m /\ m \in 1..Len(ast) /\ m \in DOMAIN ast /\ m - 1 \in 0..Len(ast)
      /\ Implements(ast, below, regs, instrs, mem, m, i)
  <2>1. Ahead(nd, pc) = m
    BY <1>2, QueueFacts DEF Ahead
  <2> QED BY <1>2, <2>1, NodeOrder, QueueFacts
<1>4. n.op = "call" /\ CallsFunction(ast, below, regs, instrs, mem, m, i)
  BY <1>3 DEF Implements
<1>5. i.sym = n.v /\ n.v \in DOMAIN Symbols /\ f \in SymbolType /\ f.stateful \in BOOLEAN
  <2>1. i.sym = n.v
    BY <1>4 DEF CallsFunction
  <2>2. n.v \in DOMAIN Symbols
    BY <1>2, <1>3, <1>4, TreeFacts DEF IsNode
  <2> QED BY <2>1, <2>2, SymbolFacts DEF SymbolType
<1>6. given = GivenTo(ast, below, m)
  BY GivenToNode
<1>7. t[m - 1].asked = ToldCalls(calls) /\ Len(t[m - 1].asked) = Len(calls)
  <2>1. t[m - 1].asked = ToldCalls(calls)
    BY <1>3, ToldBefore
  <2>2. Len(ToldCalls(calls)) = Len(calls)
    BY <1>2, ToldCallsFacts
  <2> QED BY <2>1, <2>2
<1>8. u[m - 1] = t[m - 1]
  <2>1. Len(t[m - 1].asked) <= Len(calls)
    BY <1>2, <1>7
  <2> DEFINE k == m - 1
  <2>2. NoMoreAsked(ast, start, calls, k)
    BY <1>3, <2>1 DEF NoMoreAsked
  <2> HIDE DEF k
  <2>3. Told(ast, start, Append(calls, call))[k] = Told(ast, start, calls)[k]
    BY <1>2, <2>2, ToldStays
  <2> QED BY <2>3 DEF k
<1>9. AskedBy(ast, m, t[m - 1]) = [site |-> call.site, args |-> call.args]
  <2>1. [k \in DOMAIN given |-> Halves(TypeIn(regs, given[k]), mem[given[k]])]
           = AskedBy(ast, m, t[m - 1]).args
    BY <1>3, <1>4, <1>6, ArgumentsTold
  <2>2. call.args = AskedBy(ast, m, t[m - 1]).args
    BY <2>1 DEF TypeAt, TypeIn, IsCall
  <2>3. call.site = IF f.stateful THEN m ELSE 0
    <3>1. f.stateful => mem[i.args[1]] = m
      BY <1>4 DEF CallsFunction
    <3> QED BY <1>5, <3>1 DEF IsCall
  <2>4. AskedBy(ast, m, t[m - 1]) = [site |-> IF f.stateful THEN m ELSE 0,
                                     args |-> AskedBy(ast, m, t[m - 1]).args]
    BY DEF AskedBy
  <2> QED BY <2>2, <2>3, <2>4
<1>10. u[m].asked = ToldCalls(cs)
  <2>1. ToldStepped(ast, start, cs, m)
    BY <1>2, <1>3, ToldStep
  <2>2. u[m].asked = Append(t[m - 1].asked, AskedBy(ast, m, t[m - 1]))
    BY <1>4, <1>8, <2>1 DEF ToldStepped
  <2>3. ToldCalls(cs) = Append(ToldCalls(calls), [site |-> call.site, args |-> call.args])
    BY <1>2, ToldCallsFacts
  <2> QED BY <1>7, <1>9, <2>2, <2>3
<1>11. Value(ast, start, cs, m) = Halves(f.type, ret)
  <2>1. Value(ast, start, cs, m) = Halves(f.type, cs[Len(u[m - 1].asked) + 1].ret)
    BY <1>4 DEF Value, ValueOf
  <2>2. cs[Len(calls) + 1] = call
    BY <1>2, AppendFacts
  <2> QED BY <1>7, <1>8, <2>1, <2>2 DEF IsCall
<1>12. TypeIn(regs, i.res) = f.type
  BY <1>4 DEF CallsFunction
<1>13. Halves(TypeIn(regs, i.res), ret) = Value(ast, start, cs, m) /\ ret \in Int
  BY <1>11, <1>12
<1>14. i.op # "assign"
  OBVIOUS
<1>15. cs = Append(calls, call) /\ m = nd[pc]
  OBVIOUS
<1>16. mem' = [mem EXCEPT ![instrs[pc].res] = ret]
  OBVIOUS
<1> HIDE DEF m, cs
<1>17. /\ RunAt(nd, pc + 1, mem', start, cs)
       /\ \A c : Fixed(regs, instrs, c) => mem'[c] = mem[c]
  <2>1. Executes(m, ret, cs)
    BY <1>8, <1>10, <1>13, <1>14, <1>16 DEF Executes
  <2> QED BY <1>13, <1>15, <2>1, InstructionRuns
<1> QED BY <1>15, <1>17

-----------------------------------------------------------------------------
(* The whole of it.                                                        *)

HasCode == phase \in {"ready", "running", "evaluated"}

MeaningInv ==
    /\ IInv
    /\ \E nd : /\ Code(ast, nd, below, regs, instrs, mem)
               /\ phase \in {"running", "evaluated"} => RunAt(nd, pc, mem, start, calls)
    /\ HasCode => AllCompiled
    /\ phase = "running" => truth = Unread
    /\ phase = "evaluated" =>
          pc = Len(instrs) + 1 /\ (truth # Unread => truth = AsBool(Result))

LEMMA InitMeaning == Init => MeaningInv
<1> SUFFICES ASSUME Init PROVE MeaningInv
  OBVIOUS
<1>1. IInv
  BY InitInv
<1>2. below = <<>> /\ regs = <<>> /\ instrs = <<>> /\ phase = "compiling"
  BY DEF Init
<1> DEFINE nd == [i \in 1..0 |-> 0]
<1>3. Len(below) = 0 /\ Len(instrs) = 0
  BY <1>2
<1>4. nd \in [1..0 -> 1..0]
  OBVIOUS
<1>5. Code(ast, nd, below, regs, instrs, mem)
  <2> HIDE DEF nd
  <2>1. \A x : x \notin 1..0
    OBVIOUS
  <2> QED BY <1>3, <1>4, <2>1 DEF Code
<1> QED BY <1>1, <1>2, <1>5 DEF MeaningInv, HasCode

\* Compiling goes on, stops, or is done.
LEMMA CompilePhases ==
    ASSUME Compile
    PROVE  \/ phase' \in {"compiling", "refused", "crashed"}
           \/ CompileDone
BY DEF Compile, CompileConst, CompileOperator, CompileFlow, CompileReference, CompileAssignment,
       CompileCall, CompileNothing, AddComputation, StopWith, Compiling

LEMMA CompileMeaning ==
    ASSUME MeaningInv, Compile
    PROVE  MeaningInv'
<1>1. IInv /\ Compiled
  BY DEF MeaningInv, Compiled
<1>2. IInv'
  BY <1>1, NextInv DEF Next
<1>3. Compiled'
  <2>1. CASE CompileNothing
    BY <1>1, <2>1 DEF CompileNothing, StopWith, Compiled
  <2>2. CASE CompileDone
    BY <1>1, <2>2 DEF CompileDone, Compiled
  <2> QED BY <1>1, <2>1, <2>2, ConstCompiled, OperatorCompiled, FlowCompiled, ReferenceCompiled,
             AssignmentCompiled, CallCompiled DEF Compile
<1>4. CASE phase' \in {"compiling", "refused", "crashed"}
  BY <1>2, <1>3, <1>4 DEF MeaningInv, HasCode, Compiled
<1>5. CASE CompileDone
  <2>1. phase' = "ready" /\ AllCompiled'
    BY <1>5 DEF CompileDone, AllCompiled
  <2> QED BY <1>2, <1>3, <2>1 DEF MeaningInv, HasCode, Compiled
<1> QED BY <1>4, <1>5, CompilePhases

\* The first instruction finds the symbols as the evaluation begins with them.
LEMMA BeginMeaning ==
    ASSUME MeaningInv, Begin
    PROVE  MeaningInv'
<1>1. IInv /\ IInv'
  BY NextInv DEF MeaningInv, Next
<1>2. PICK nd : Code(ast, nd, below, regs, instrs, mem)
  BY DEF MeaningInv
<1>3. /\ phase \in {"ready", "evaluated"} /\ phase' = "running" /\ pc' = 1 /\ truth' = Unread
      /\ calls' = <<>> /\ UNCHANGED <<ast, below, regs, instrs>>
      /\ mem' = [c \in Cells |-> IF c > MaxRegs THEN start'[c - MaxRegs] ELSE mem[c]]
  BY DEF Begin
<1>4. ASSUME NEW c, Fixed(regs, instrs, c) PROVE mem'[c] = mem[c]
  <2>1. c \in Cells /\ ~(c > MaxRegs)
    BY <1>1, <1>4, QueueFacts, SymbolFacts DEF Fixed, Cells
  <2> QED BY <1>3, <2>1
<1>5. Code(ast', nd, below', regs', instrs', mem')
  BY <1>1, <1>2, <1>3, <1>4, ExecutedCode
<1>6. AllCompiled'
  BY <1>3 DEF MeaningInv, HasCode, AllCompiled
<1>7. \A s \in Variables : mem'[CellOf(s)] = start'[s] /\ s \in DOMAIN Symbols
  <2> SUFFICES ASSUME NEW s \in Variables PROVE mem'[CellOf(s)] = start'[s] /\ s \in DOMAIN Symbols
    OBVIOUS
  <2>1. s \in DOMAIN Symbols /\ s \in Int /\ MaxRegs \in Int
    BY SymbolFacts, EintAssumption DEF Variables
  <2>2. CellOf(s) \in Cells /\ CellOf(s) > MaxRegs /\ CellOf(s) - MaxRegs = s
    BY <2>1, SymbolFacts DEF CellOf, Cells
  <2> QED BY <1>3, <2>1, <2>2
<1>8. RunAt(nd, 1, mem', start', <<>>)
  <2> DEFINE t == Told(ast, start', <<>>)[0]
  <2>1. Len(ast) \in Nat
    BY <1>1, QueueFacts
  <2>2. t = BeforeAll(start')
    BY <2>1, ToldFacts
  <2>3. /\ t.store = [s \in DOMAIN Symbols |-> Halves(Symbols[s].type, start'[s])]
        /\ t.asked = <<>>
    <3> HIDE DEF t
    <3> QED BY <2>2 DEF BeforeAll
  <2> HIDE DEF t
  <2>4. \A s \in Variables : Halves(Symbols[s].type, mem'[CellOf(s)]) = t.store[s]
    BY <1>7, <2>3
  <2>5. ToldCalls(<<>>) = <<>>
    BY DEF ToldCalls
  <2>6. Done(nd, 1) = 0 /\ 1..1 - 1 = {}
    BY DEF Done
  <2> QED BY <2>3, <2>4, <2>5, <2>6 DEF RunAt, t
<1>9. RunAt(nd, pc, mem, start, calls)'
  BY <1>3, <1>8 DEF RunAt, Done, Value
<1> QED BY <1>1, <1>3, <1>5, <1>6, <1>9 DEF MeaningInv, HasCode

\* A step from one instruction to the next.
LEMMA StepMeaning ==
    ASSUME MeaningInv, phase = "running", phase' = phase, pc' = pc + 1, IInv',
           UNCHANGED <<ast, below, regs, instrs, truth, start>>,
           NEW nd, Running(nd), RunAt(nd, pc + 1, mem', start, calls'),
           \A c : Fixed(regs, instrs, c) => mem'[c] = mem[c]
    PROVE  MeaningInv'
<1>1. IInv /\ Code(ast, nd, below, regs, instrs, mem)
  BY DEF MeaningInv, Running
<1>2. Code(ast', nd, below', regs', instrs', mem')
  BY <1>1, ExecutedCode
<1>3. RunAt(nd, pc, mem, start, calls)'
  BY DEF RunAt, Done, Value
<1>4. AllCompiled' /\ truth' = Unread
  BY DEF MeaningInv, HasCode, AllCompiled
<1> QED BY <1>2, <1>3, <1>4 DEF MeaningInv

LEMMA RunningFacts ==
    ASSUME MeaningInv, phase \in {"running", "evaluated"}
    PROVE  \E nd : Running(nd)
<1>1. pc \in 1..Len(instrs) + 1
  BY QueueFacts DEF MeaningInv, IInv
<1> QED BY <1>1 DEF MeaningInv, HasCode, Running

LEMMA HandlerMeaning ==
    ASSUME MeaningInv, ExecuteHandler
    PROVE  MeaningInv'
<1>1. IInv /\ IInv'
  BY NextInv DEF MeaningInv, Next, Execute
<1>2. /\ phase = "running" /\ pc' = pc + 1
      /\ UNCHANGED <<ast, phase, below, regs, instrs, truth, start, calls>>
  BY DEF ExecuteHandler, Executing
<1>3. PICK nd : Running(nd)
  BY <1>2, RunningFacts
<1>4. /\ RunAt(nd, pc + 1, mem', start, calls)
      /\ \A c : Fixed(regs, instrs, c) => mem'[c] = mem[c]
  BY <1>1, <1>3, OperatorRuns, AssignmentRuns
<1> QED BY <1>1, <1>2, <1>3, <1>4, StepMeaning

LEMMA StoppedMeaning ==
    ASSUME MeaningInv, IInv', StopWith("crashed")
    PROVE  MeaningInv'
BY DEF MeaningInv, HasCode, StopWith

LEMMA CallMeaning ==
    ASSUME MeaningInv, ExecuteCall
    PROVE  MeaningInv'
<1> DEFINE i     == instrs[pc]
           f     == Symbols[i.sym]
           given == SubSeq(i.args, 1 + Bit(f.stateful), Len(i.args))
           call(ret) == [site |-> IF f.stateful THEN mem[i.args[1]] ELSE 0,
                         args |-> [k \in DOMAIN given |->
                                      Halves(TypeAt(given[k]), mem[given[k]])],
                         ret  |-> ret]
<1>1. IInv /\ IInv'
  BY NextInv DEF MeaningInv, Next, Execute
<1>2. Executing /\ i.op = "call" /\ phase = "running"
  BY DEF ExecuteCall, Executing
<1>3. CASE StopWith("crashed")
  BY <1>1, <1>3, StoppedMeaning
<1>4. ASSUME NEW ret \in 0..1, mem' = [mem EXCEPT ![i.res] = ret], calls' = Append(calls, call(ret)),
             pc' = pc + 1, UNCHANGED <<ast, phase, below, regs, instrs, truth, start>>
      PROVE  MeaningInv'
  <2>1. call(ret) \in CallType
    <3>1. calls \in Seq(CallType) /\ calls' \in Seq(CallType)
      BY <1>1 DEF IInv, TypeOK
    <3>2. calls'[Len(calls) + 1] = call(ret) /\ Len(calls') = Len(calls) + 1
      <4> DEFINE c == call(ret)
                 S == CallType \cup {c}
      <4>1. calls \in Seq(S) /\ c \in S
        <5> HIDE DEF c
        <5> QED BY <3>1
      <4>2. calls' = Append(calls, c)
        BY <1>4
      <4> HIDE DEF c, S
      <4>3. calls'[Len(calls) + 1] = c /\ Len(calls') = Len(calls) + 1
        BY <4>1, <4>2, AppendFacts
      <4> QED BY <4>3 DEF c
    <3> DEFINE c == call(ret)
    <3> HIDE DEF c
    <3>3. calls'[Len(calls) + 1] = c /\ Len(calls') = Len(calls) + 1
      BY <3>2 DEF c
    <3>4. c \in CallType
      BY <3>1, <3>3
    <3> QED BY <3>4 DEF c
  <2>2. IsCall(call(ret), i, ret)
    BY DEF IsCall, GivenBy
  <2>3. PICK nd : Running(nd)
    BY <1>2, RunningFacts
  <2> DEFINE c == call(ret)
  <2>4. c \in CallType /\ IsCall(c, instrs[pc], ret) /\ calls' = Append(calls, c)
    BY <1>4, <2>1, <2>2
  <2> HIDE DEF c
  <2>5. /\ RunAt(nd, pc + 1, mem', start, Append(calls, c))
        /\ \A d : Fixed(regs, instrs, d) => mem'[d] = mem[d]
    BY <1>1, <1>2, <1>4, <2>3, <2>4, CallRuns
  <2>6. RunAt(nd, pc + 1, mem', start, calls')
    BY <2>4, <2>5
  <2> QED BY <1>1, <1>2, <1>4, <2>3, <2>5, <2>6, StepMeaning
<1> QED BY <1>3, <1>4 DEF ExecuteCall

LEMMA FinishMeaning ==
    ASSUME MeaningInv, FinishCondition \/ FinishAction
    PROVE  MeaningInv'
<1>1. IInv /\ IInv'
  BY NextInv DEF MeaningInv, Next, Execute
<1>2. CASE StopWith("crashed")
  BY <1>1, <1>2, StoppedMeaning
<1>3. CASE /\ Evaluated /\ truth' \in {truth, AsBool(Result)}
           /\ phase' = "evaluated"
           /\ UNCHANGED <<ast, below, regs, instrs, mem, pc, start, calls>>
  <2>1. phase = "running" /\ pc = Len(instrs) + 1 /\ truth = Unread
    <3>1. phase = "running" /\ pc > Len(instrs)
      BY <1>3 DEF Evaluated
    <3> QED BY <1>1, <3>1, QueueFacts DEF MeaningInv
  <2>2. PICK nd : Code(ast, nd, below, regs, instrs, mem) /\ RunAt(nd, pc, mem, start, calls)
    BY <2>1 DEF MeaningInv
  <2>3. RunAt(nd, pc, mem, start, calls)'
    BY <1>3, <2>2 DEF RunAt, Done, Value
  <2>4. Code(ast, nd, below, regs, instrs, mem)'
    BY <1>3, <2>2
  <2>5. AllCompiled'
    BY <1>3, <2>1 DEF MeaningInv, HasCode, AllCompiled
  <2>6. truth' # Unread => truth' = AsBool(Result)'
    <3>1. AsBool(Result)' = AsBool(Result)
      BY <1>3 DEF AsBool, Result, TypeAt, Operand
    <3> QED BY <1>3, <2>1, <3>1
  <2> QED BY <1>1, <1>3, <2>1, <2>3, <2>4, <2>5, <2>6 DEF MeaningInv
<1> QED BY <1>2, <1>3 DEF FinishCondition, FinishAction

LEMMA NextMeaning == MeaningInv /\ [Next]_vars => MeaningInv'
<1> SUFFICES ASSUME MeaningInv, [Next]_vars PROVE MeaningInv'
  OBVIOUS
<1>1. CASE UNCHANGED vars
  <2>1. UNCHANGED <<ast, phase, below, regs, instrs, mem, pc, truth, start, calls>>
    BY <1>1 DEF vars
  <2>2. IInv'
    BY <1>1, NextInv DEF MeaningInv
  <2>3. PICK nd : /\ Code(ast, nd, below, regs, instrs, mem)
                  /\ phase \in {"running", "evaluated"} => RunAt(nd, pc, mem, start, calls)
    BY DEF MeaningInv
  <2>4. Code(ast, nd, below, regs, instrs, mem)'
    BY <2>1, <2>3
  <2>5. RunAt(nd, pc, mem, start, calls) => RunAt(nd, pc, mem, start, calls)'
    BY <2>1 DEF RunAt, Done, Value
  <2>6. AsBool(Result)' = AsBool(Result)
    BY <2>1 DEF AsBool, Result, TypeAt, Operand
  <2>7. (HasCode => AllCompiled)'
    BY <2>1 DEF MeaningInv, HasCode, AllCompiled
  <2> QED BY <2>1, <2>2, <2>3, <2>4, <2>5, <2>6, <2>7 DEF MeaningInv
<1> QED BY <1>1, CompileMeaning, BeginMeaning, HandlerMeaning, CallMeaning, FinishMeaning
        DEF Next, Execute

\* The cell of the result is that of the root, if the script is an expression.
LEMMA ResultIsRoot ==
    ASSUME IInv, NEW nd, Running(nd), IsExpression
    PROVE  /\ ast[Len(ast)].op \in Expressions /\ ~Assigns(ast[Len(ast)])
           /\ Result = CellFor(below, Len(ast)) /\ Len(ast) \in 1..Len(ast)
<1> DEFINE root == Len(ast)
<1>1. /\ IsTree(ast) /\ ast \in Seq(NodeType) /\ Len(ast) \in Nat /\ ast # <<>>
      /\ DOMAIN instrs = 1..Len(instrs) /\ Len(instrs) \in Nat
  BY QueueFacts DEF Running, AllCompiled
<1>2. root \in DOMAIN ast /\ root \in 1..root
  BY <1>1
<1>3. ast[root].op \in Expressions /\ ~Assigns(ast[root])
  <2>1. ast[root].op \in NodeOps
    BY <1>1, <1>2, TreeFacts
  <2>2. ast[root].op # "assign"
    BY <1>1 DEF IsTree
  <2> QED BY <2>1, <2>2 DEF IsExpression, NodeOps, Expressions, Assigns
<1>4. CASE Computes(ast[root])
  <2>1. PICK i \in 1..Len(instrs) : nd[i] = root
    BY <1>2, <1>4 DEF Running, AllCompiled, Code
  <2>2. i = Len(instrs)
    <3>1. Len(instrs) \in 1..Len(instrs)
      BY <1>1, <2>1
    <3>2. nd[Len(instrs)] \in 1..root
      BY <3>1, NodeOrder
    <3>3. i < Len(instrs) => nd[i] < nd[Len(instrs)]
      BY <2>1, <3>1 DEF Running, Code
    <3>4. root \in Nat /\ i <= Len(instrs) /\ i \in Nat /\ Len(instrs) \in Nat
      BY <1>1, <2>1
    <3> HIDE DEF root
    <3>5. ~(i < Len(instrs))
      BY <2>1, <3>2, <3>3, <3>4
    <3> QED BY <3>4, <3>5
  <2>3. instrs[i].res = CellFor(below, root)
    BY <2>1, NodeOrder DEF Implements
  <2>4. instrs # <<>>
    BY <1>1, <2>1
  <2> QED BY <1>2, <1>3, <2>2, <2>3, <2>4 DEF Result
<1>5. CASE ~Computes(ast[root])
  <2>1. ast[root].op \in {"const", "ref"}
    BY <1>3, <1>5 DEF Expressions, Computes
  <2>2. Kids(ast[root]) = {}
    BY <1>1, <1>2, <2>1, TreeFacts DEF IsNode, Kids, Operators, Unary
  <2>3. root = 1
    <3> SUFFICES ASSUME root # 1 PROVE FALSE
      OBVIOUS
    <3>1. root - 1 \in 1..root - 1
      <4>1. root \in Nat /\ root \in 1..root /\ root # 1
        BY <1>1, <1>2
      <4> HIDE DEF root
      <4> QED BY <4>1
    <3>2. PICK p \in (root - 1) + 1..root : root - 1 \in Kids(ast[p])
      BY <1>1, <3>1 DEF IsTree, HasParent
    <3>3. p = root
      BY <1>1
    <3> QED BY <2>2, <3>2, <3>3
  <2>4. instrs = <<>>
    <3> SUFFICES ASSUME instrs # <<>> PROVE FALSE
      OBVIOUS
    <3>1. 1 \in 1..Len(instrs)
      BY <1>1, QueueFacts
    <3>2. nd[1] \in 1..root /\ Computes(ast[nd[1]])
      BY <3>1, NodeOrder
    <3> QED BY <1>5, <2>3, <3>2
  <2>5. ast[root].op # "list"
    BY <2>1
  <2> QED BY <1>2, <1>3, <2>4, <2>5 DEF Result, Operand, CellFor
<1> QED BY <1>4, <1>5

LEMMA MeaningIsReached == MeaningInv => EvaluatesAsWritten
<1> SUFFICES ASSUME MeaningInv, phase = "evaluated" PROVE EvaluatesAsWritten
  BY DEF EvaluatesAsWritten
<1> DEFINE root == Len(ast)
           type == TypeAt(Result)
           meaning == Meaning
           value == Value(ast, start, calls, root)
<1>1. PICK nd : Running(nd)
  BY RunningFacts
<1>2. IInv /\ pc = Len(instrs) + 1 /\ (truth # Unread => truth = AsBool(Result))
  BY DEF MeaningInv
<1>3. root = Ahead(nd, pc) - 1 /\ root \in Nat /\ IsTree(ast) /\ mem \in [Cells -> Int]
  BY <1>2, QueueFacts DEF Ahead
<1>4. /\ meaning.asked = ToldCalls(calls)
      /\ \A s \in Variables : Halves(Symbols[s].type, mem[CellOf(s)]) = meaning.store[s]
  BY <1>1, <1>2, <1>3, ToldBefore DEF Meaning
<1>5. ASSUME IsExpression
      PROVE  /\ Halves(type, mem[Result]) = meaning.val[root]
             /\ truth # Unread /\ type # "float" => truth = Bit(meaning.val[root] # 0)
  <2>1. /\ ast[root].op \in Expressions /\ ~Assigns(ast[root]) /\ root \in 1..root
        /\ Result = CellFor(below, root)
    BY <1>1, <1>2, <1>5, ResultIsRoot
  <2>2. \A j \in root..root : ~Assigns(ast[j])
    BY <1>3, <2>1
  <2>3. Halves(TypeIn(regs, CellFor(below, root)), mem[CellFor(below, root)]) = value
    BY <1>1, <1>2, <1>3, <2>1, <2>2, OperandValue
  <2>4. meaning.val[root] = value
    BY <1>1, <1>2, <1>3, <2>1, ToldBefore DEF Meaning
  <2>5. Halves(type, mem[Result]) = meaning.val[root]
    BY <2>1, <2>3, <2>4 DEF TypeAt, TypeIn
  <2>6. mem[Result] \in Int
    <3>1. root \in 1..Len(below)
      BY <1>1, <2>1 DEF Running, AllCompiled
    <3>2. below[root] \in Seq(Cells) /\ below[root] # <<>>
      BY <1>2, <2>1, <3>1, QueueFacts DEF SomeCell, AllLive, Expressions, Operators
    <3>3. Result \in Cells
      BY <2>1, <3>2 DEF CellFor
    <3> QED BY <1>3, <3>3
  <2>7. ASSUME truth # Unread, type # "float" PROVE truth = Bit(meaning.val[root] # 0)
    <3>1. truth = Bit(mem[Result] # 0)
      BY <1>2, <2>7 DEF AsBool
    <3> HIDE DEF type, meaning
    <3>2. meaning.val[root] # 0 <=> mem[Result] # 0
      BY <2>5, <2>6 DEF Halves
    <3> QED BY <3>1, <3>2 DEF Bit
  <2> QED BY <2>5, <2>7
<1> QED BY <1>4, <1>5 DEF EvaluatesAsWritten, ToldCalls

\* However often a script is evaluated, whatever its symbols hold and its functions
\* answer, the registers, the memory of its calls and the order of its instructions
\* make it do what its tree says.
THEOREM EintEvaluatesAsWritten == Spec => []EvaluatesAsWritten
<1>1. Init => MeaningInv
  BY InitMeaning
<1>2. MeaningInv /\ [Next]_vars => MeaningInv'
  BY NextMeaning
<1>3. MeaningInv => EvaluatesAsWritten
  BY MeaningIsReached
<1> QED BY <1>1, <1>2, <1>3, PTL DEF Spec

-----------------------------------------------------------------------------
(* What becomes of a script.  The types told from its tree are those of    *)
(* the cells its nodes got, and the queues are as long as the number of    *)
(* nodes that use them.                                                    *)

\* How many of the first n numbers are in S.
CountTo(S, n) == Cardinality(S \cap 1..n)

LEMMA CountFacts ==
    ASSUME NEW S, NEW n \in Nat
    PROVE  /\ CountTo(S, n) \in Nat /\ CountTo(S, 0) = 0
           /\ CountTo(S, n + 1) = CountTo(S, n) + Bit(n + 1 \in S)
<1>1. IsFiniteSet(1..n)
  BY FS_Interval
<1> DEFINE T == S \cap 1..n
           U == S \cap 1..n + 1
<1>2. IsFiniteSet(T) /\ Cardinality(T) \in Nat
  BY <1>1, FS_Subset, FS_CardinalityType
<1>3. S \cap 1..0 = {} /\ Cardinality({}) = 0
  BY FS_EmptySet
<1>4. CASE n + 1 \in S
  <2>1. U = T \cup {n + 1} /\ n + 1 \notin T
    BY <1>4
  <2> HIDE DEF T, U
  <2>2. Cardinality(U) = Cardinality(T) + 1
    BY <1>2, <2>1, FS_AddElement
  <2> QED BY <1>2, <1>3, <1>4, <2>2 DEF CountTo, Bit, T, U
<1>5. CASE n + 1 \notin S
  <2>1. U = T
    BY <1>5
  <2> HIDE DEF T, U
  <2>2. Cardinality(U) = Cardinality(T) + 0
    BY <1>2, <2>1
  <2> QED BY <1>2, <1>3, <1>5, <2>2 DEF CountTo, Bit, T, U
<1> QED BY <1>4, <1>5

LEMMA CountGrows ==
    ASSUME NEW S, NEW m \in Nat, NEW n \in Nat, m <= n
    PROVE  CountTo(S, m) <= CountTo(S, n)
<1> DEFINE T == S \cap 1..m
           U == S \cap 1..n
<1>1. IsFiniteSet(U)
  <2>1. IsFiniteSet(1..n) /\ U \in SUBSET (1..n)
    BY FS_Interval
  <2> HIDE DEF U
  <2> QED BY <2>1, FS_Subset
<1>2. T \in SUBSET U
  BY SMT
<1> HIDE DEF T, U
<1>3. Cardinality(T) <= Cardinality(U)
  BY <1>1, <1>2, FS_Subset
<1> QED BY <1>3 DEF T, U, CountTo

LEMMA CountAll ==
    ASSUME NEW n \in Nat, NEW S \in SUBSET (1..n)
    PROVE  CountTo(S, n) = Cardinality(S)
<1>1. S \cap 1..n = S
  OBVIOUS
<1> QED BY <1>1 DEF CountTo

-----------------------------------------------------------------------------
TypesBody(a, f, k) == IF k = Null THEN "na" ELSE TypeTold(a, a[k], f[a[k].l], f[a[k].r])
TypesTo(a, m, f) == f = [k \in 0..m |-> TypesBody(a, f, k)]

LEMMA TypesExist ==
    ASSUME NEW a, IsTree(a), NEW n \in 0..Len(a)
    PROVE  \E f : TypesTo(a, n, f)
<1> DEFINE T == {m \in Nat : m <= Len(a) /\ ~\E f : TypesTo(a, m, f)}
<1>0. Len(a) \in Nat
  BY DEF IsTree
<1>1. SUFFICES ASSUME T # {} PROVE FALSE
  BY <1>0
<1>2. PICK m \in T : \A y \in T : m <= y
  <2>1. T \in SUBSET Nat
    OBVIOUS
  <2> HIDE DEF T
  <2> QED BY <1>1, <2>1, LeastNat
<1>3. m # 0
  <2> DEFINE f == [k \in 0..0 |-> "na"]
  <2>1. f = [k \in 0..0 |-> TypesBody(a, f, k)]
    BY DEF TypesBody, Null
  <2> HIDE DEF f
  <2>2. TypesTo(a, 0, f)
    BY <2>1 DEF TypesTo
  <2> QED BY <2>2
<1>4. m - 1 \in Nat /\ m \in Nat /\ m <= Len(a) /\ m - 1 \notin T
  BY <1>0, <1>2, <1>3
<1>5. PICK f : TypesTo(a, m - 1, f)
  BY <1>0, <1>4
<1> DEFINE g == [k \in 0..m |-> IF k = m THEN TypesBody(a, f, m) ELSE f[k]]
<1>6. \A k \in 0..m : g[k] = IF k = m THEN TypesBody(a, f, m) ELSE f[k]
  OBVIOUS
<1>7. g = [k \in 0..m |-> g[k]]
  OBVIOUS
<1> HIDE DEF g
<1>8. \A k \in 0..m - 1 : f[k] = TypesBody(a, f, k)
  BY <1>5 DEF TypesTo
<1>9. \A k \in 0..m - 1 : g[k] = f[k]
  BY <1>4, <1>6
<1>10. ASSUME NEW k \in 0..m PROVE g[k] = TypesBody(a, g, k)
  <2>1. g[k] = TypesBody(a, f, k)
    <3>1. CASE k = m
      BY <1>6, <3>1
    <3>2. CASE k # m
      <4>1. k \in 0..m - 1
        BY <1>4, <3>2
      <4> QED BY <1>8, <1>9, <4>1
    <3> QED BY <3>1, <3>2
  <2>2. CASE k = Null
    BY <2>1, <2>2 DEF TypesBody
  <2>3. CASE k # Null
    <3>1. k \in DOMAIN a
      BY <1>0, <1>4, <2>3 DEF IsTree, Null
    <3>2. a[k].l \in 0..(k - 1) /\ a[k].r \in 0..(k - 1) /\ k \in Nat /\ k <= m
      BY <3>1, TreeFacts
    <3>3. a[k].l \in 0..m - 1 /\ a[k].r \in 0..m - 1
      BY <1>4, <3>2
    <3>4. g[a[k].l] = f[a[k].l] /\ g[a[k].r] = f[a[k].r]
      BY <1>9, <3>3
    <3> QED BY <2>1, <3>4 DEF TypesBody
  <2> QED BY <2>2, <2>3
<1>11. g = [k \in 0..m |-> TypesBody(a, g, k)]
  BY <1>7, <1>10
<1>12. TypesTo(a, m, g)
  BY <1>11 DEF TypesTo
<1> QED BY <1>2, <1>12

LEMMA TypesFacts ==
    ASSUME NEW a, IsTree(a)
    PROVE  LET type == StaticType(a)
           IN  /\ type[Null] = "na"
               /\ \A k \in 1..Len(a) : type[k] = TypeTold(a, a[k], type[a[k].l], type[a[k].r])
<1> DEFINE n == Len(a)
           t == StaticType(a)
<1>0. n \in Nat /\ n \in 0..n
  BY DEF IsTree
<1>1. PICK f : TypesTo(a, n, f)
  BY <1>0, TypesExist
<1>2. f = [k \in 0..n |-> IF k = Null THEN "na" ELSE TypeTold(a, a[k], f[a[k].l], f[a[k].r])]
  BY <1>1 DEF TypesTo, TypesBody
<1>3. t = CHOOSE g : g = [k \in 0..n |-> IF k = Null THEN "na"
                                         ELSE TypeTold(a, a[k], g[a[k].l], g[a[k].r])]
  BY DEF StaticType
<1>4. t = [k \in 0..n |-> IF k = Null THEN "na" ELSE TypeTold(a, a[k], t[a[k].l], t[a[k].r])]
  <2> HIDE DEF t
  <2> QED BY <1>2, <1>3
<1>5. Null \in 0..n /\ \A k \in 1..n : k \in 0..n /\ k # Null
  BY <1>0 DEF Null
<1> HIDE DEF t, n
<1>6. t[Null] = "na"
  BY <1>4, <1>5
<1>7. \A k \in 1..n : t[k] = TypeTold(a, a[k], t[a[k].l], t[a[k].r])
  BY <1>4, <1>5
<1> QED BY <1>6, <1>7 DEF t, n

\* The rows of the table are those of the types that go together.
LEMMA RowExists ==
    ASSUME NEW op, NEW tl, NEW tr
    PROVE  /\ op \in {"plus", "minus", "gt", "ge", "eq", "neq", "assign"} /\ {tl, tr} \subseteq Numeric =>
                 RulesFor(op, tl, tr) # {}
           /\ op \in {"and", "or", "eq", "neq", "assign"} /\ tl = "bool" /\ tr = "bool" =>
                 RulesFor(op, tl, tr) # {}
           /\ op = "not" /\ tl = "bool" /\ tr = "na" => RulesFor(op, tl, tr) # {}
           /\ op = "umin" /\ tl \in Numeric /\ tr = "na" => RulesFor(op, tl, tr) # {}
<1>1. \A tres : Row(op, tl, tr, tres) \in Rules => RulesFor(op, tl, tr) # {}
  <2> TAKE tres
  <2>1. HAVE Row(op, tl, tr, tres) \in Rules
  <2> DEFINE w == Row(op, tl, tr, tres)
  <2>2. w.op = op /\ w.tl = tl /\ w.tr = tr
    BY DEF Row
  <2> HIDE DEF w
  <2>3. w \in RulesFor(op, tl, tr)
    BY <2>1, <2>2 DEF RulesFor, w
  <2> QED BY <2>3
<1>2. ASSUME op \in {"plus", "minus"}, tl \in Numeric, tr \in Numeric
      PROVE  Row(op, tl, tr, IF tl = "int" /\ tr = "int" THEN "int" ELSE "float") \in Rules
  BY <1>2 DEF Rules
<1>3. ASSUME op \in {"gt", "ge", "eq", "neq"}, tl \in Numeric, tr \in Numeric
      PROVE  Row(op, tl, tr, "bool") \in Rules
  BY <1>3 DEF Rules
<1>4. ASSUME op \in {"eq", "neq", "and", "or", "assign"}, tl = "bool", tr = "bool"
      PROVE  Row(op, tl, tr, "bool") \in Rules
  BY <1>4 DEF Rules
<1>5. ASSUME op = "not", tl = "bool", tr = "na" PROVE Row(op, tl, tr, "bool") \in Rules
  BY <1>5 DEF Rules
<1>6. ASSUME op = "umin", tl \in Numeric, tr = "na" PROVE Row(op, tl, tr, tl) \in Rules
  BY <1>6 DEF Rules
<1>7. ASSUME op = "assign", tl \in Numeric, tr \in Numeric PROVE Row(op, tl, tr, tl) \in Rules
  BY <1>7 DEF Rules
<1>8. {tl, tr} \subseteq Numeric => tl \in Numeric /\ tr \in Numeric
  OBVIOUS
<1> QED BY <1>1, <1>2, <1>3, <1>4, <1>5, <1>6, <1>7, <1>8

\* An operator is computed if its type can be told, and its type is the one told.
LEMMA OperatorSense ==
    ASSUME NEW a, NEW n, n.op \in Operators, NEW tl \in Types, NEW tr \in Types,
           n.op \in Unary => tr = "na"
    PROVE  /\ RulesFor(n.op, tl, tr) = {} => TypeTold(a, n, tl, tr) = "ill"
           /\ \A w \in RulesFor(n.op, tl, tr) : TypeTold(a, n, tl, tr) = w.tres /\ w.tres \in Types
<1>7. \A w \in RulesFor(n.op, tl, tr) : w.tres \in Types
  BY RuleFacts DEF RulesFor
<1>1. CASE n.op \in {"plus", "minus"}
  <2>1. TypeTold(a, n, tl, tr) =
           IF {tl, tr} \subseteq Numeric THEN IF "float" \in {tl, tr} THEN "float" ELSE "int" ELSE "ill"
    BY <1>1 DEF TypeTold
  <2>2. tl \in Numeric /\ tr \in Numeric =>
           (IF "float" \in {tl, tr} THEN "float" ELSE "int") =
              IF tl = "int" /\ tr = "int" THEN "int" ELSE "float"
    BY DEF Numeric
  <2>3. RulesFor(n.op, tl, tr) = {} => ~({tl, tr} \subseteq Numeric)
    BY <1>1, RowExists
  <2>4. \A w \in RulesFor(n.op, tl, tr) :
           /\ tl \in Numeric /\ tr \in Numeric
           /\ w.tres = IF tl = "int" /\ tr = "int" THEN "int" ELSE "float"
    BY <1>1, RowFacts
  <2> QED BY <1>7, <2>1, <2>2, <2>3, <2>4
<1>2. CASE n.op \in {"gt", "ge"}
  <2>1. TypeTold(a, n, tl, tr) = IF {tl, tr} \subseteq Numeric THEN "bool" ELSE "ill"
    BY <1>2 DEF TypeTold
  <2>2. RulesFor(n.op, tl, tr) = {} => ~({tl, tr} \subseteq Numeric)
    BY <1>2, RowExists
  <2>3. \A w \in RulesFor(n.op, tl, tr) : tl \in Numeric /\ tr \in Numeric /\ w.tres = "bool"
    BY <1>2, RowFacts
  <2> QED BY <1>7, <2>1, <2>2, <2>3
<1>3. CASE n.op \in {"eq", "neq"}
  <2> DEFINE fits == {tl, tr} \subseteq Numeric \/ {tl, tr} = {"bool"}
  <2>1. TypeTold(a, n, tl, tr) = IF fits THEN "bool" ELSE "ill"
    BY <1>3 DEF TypeTold
  <2>2. RulesFor(n.op, tl, tr) = {} => ~fits
    <3>1. {tl, tr} = {"bool"} => tl = "bool" /\ tr = "bool"
      OBVIOUS
    <3> QED BY <1>3, <3>1, RowExists
  <2>3. \A w \in RulesFor(n.op, tl, tr) : fits /\ w.tres = "bool"
    BY <1>3, RowFacts
  <2> HIDE DEF fits
  <2> QED BY <1>7, <2>1, <2>2, <2>3
<1>4. CASE n.op \in {"and", "or"}
  <2>1. TypeTold(a, n, tl, tr) = IF {tl, tr} = {"bool"} THEN "bool" ELSE "ill"
    BY <1>4 DEF TypeTold
  <2> QED BY <1>4, <2>1, <1>7, RowFacts, RowExists
<1>5. CASE n.op = "not"
  <2>1. TypeTold(a, n, tl, tr) = (IF tl = "bool" THEN "bool" ELSE "ill") /\ tr = "na"
    BY <1>5 DEF TypeTold, Unary
  <2> QED BY <1>5, <2>1, <1>7, RowFacts, RowExists
<1>6. CASE n.op = "umin"
  <2>1. TypeTold(a, n, tl, tr) = (IF tl \in Numeric THEN tl ELSE "ill") /\ tr = "na"
    BY <1>6 DEF TypeTold, Unary
  <2> QED BY <1>6, <2>1, <1>7, RowFacts, RowExists
<1> QED BY <1>1, <1>2, <1>3, <1>4, <1>5, <1>6 DEF Operators

LEMMA AssignmentSense ==
    ASSUME NEW a, NEW n, n.op = "assign", n.v \in DOMAIN Symbols, NEW tl, NEW tr
    PROVE  LET target == Symbols[n.v].type
           IN  /\ n.v \notin Variables \/ RulesFor("assign", target, tl) = {} =>
                     TypeTold(a, n, tl, tr) = "ill"
               /\ n.v \in Variables /\ RulesFor("assign", target, tl) # {} =>
                     TypeTold(a, n, tl, tr) = target
<1> DEFINE target == Symbols[n.v].type
           fits == {tl, target} = {"bool"} \/ {tl, target} \subseteq Numeric
<1>1. TypeTold(a, n, tl, tr) = IF n.v \in Variables /\ fits THEN target ELSE "ill"
  BY DEF TypeTold
<1>2. RulesFor("assign", target, tl) # {} => fits
  BY RowFacts
<1>3. fits => RulesFor("assign", target, tl) # {}
  BY RowExists
<1> QED BY <1>1, <1>2, <1>3

RegisterNodes == Nodes({"const", "call"} \cup Operators)
InstrNodes == Nodes({"assign", "call"} \cup Operators)
RegsOf(k) == Bit(k \in RegisterNodes) + Bit(k \in StatefulCalls)
InstrsOf(k) == Bit(k \in InstrNodes)

\* A node that makes sense and has all its arguments, in a cell of its type.
SenseAt(a, bl, rg, k) ==
    /\ StaticType(a)[k] # "ill"
    /\ a[k].op \in Expressions => TypeIn(rg, CellFor(bl, k)) = StaticType(a)[k]
    /\ a[k].op = "call" => Len(Leaves(a)[a[k].l]) + Bit(Symbols[a[k].v].stateful) <= MaxArgs

\* All nodes compiled so far make sense, and the queues hold what they need.
SenseSoFar ==
    /\ \A k \in 1..Len(below) : SenseAt(ast, below, regs, k)
    /\ Len(regs) = CountTo(RegisterNodes, Len(below)) + CountTo(StatefulCalls, Len(below))
    /\ Len(instrs) = CountTo(InstrNodes, Len(below))

OutcomeInv ==
    /\ phase = "compiling" => pc = 0
    /\ phase = "compiling" \/ HasCode => SenseSoFar
    /\ OutcomeIsDeserved

LEMMA SenseGrows ==
    ASSUME IInv, SenseSoFar, phase = "compiling", Len(below) < Len(ast), ast' = ast,
           NEW cells \in Seq(Cells), below' = Append(below, cells), Extends(regs, regs'),
           SenseAt(ast, below', regs', Len(below) + 1),
           Len(regs') = Len(regs) + RegsOf(Len(below) + 1),
           Len(instrs') = Len(instrs) + InstrsOf(Len(below) + 1)
    PROVE  SenseSoFar'
<1> DEFINE d == Len(below)
<1>1. /\ Extends(below, below') /\ Len(below') = d + 1 /\ 1..Len(below') = 1..d \cup {d + 1} /\ d \in Nat
      /\ AllLive(below, regs) /\ SomeCell(ast, below)
  BY CompileFacts, GrowsByOne
<1>2. ASSUME NEW k \in 1..d PROVE SenseAt(ast, below', regs', k)
  <2>1. CellFor(below', k) = CellFor(below, k)
    BY <1>1, <1>2 DEF Extends, CellFor
  <2>2. SenseAt(ast, below, regs, k)
    BY <1>2 DEF SenseSoFar
  <2>3. ASSUME ast[k].op \in Expressions
        PROVE  TypeIn(regs', CellFor(below, k)) = TypeIn(regs, CellFor(below, k))
    <3>1. below[k] \in Seq(Cells) /\ below[k] # <<>>
      BY <1>1, <1>2, <2>3 DEF AllLive, SomeCell, Expressions, Operators
    <3>2. 1 \in DOMAIN below[k]
      BY <3>1
    <3>3. LiveOver(regs, CellFor(below, k))
      BY <1>1, <1>2, <3>2 DEF AllLive, CellFor
    <3> QED BY <3>3, TypeStays
  <2> QED BY <2>1, <2>2, <2>3 DEF SenseAt
<1>3. \A k \in 1..Len(below') : SenseAt(ast, below', regs', k)
  BY <1>1, <1>2
<1>4. RegisterNodes' = RegisterNodes /\ StatefulCalls' = StatefulCalls /\ InstrNodes' = InstrNodes
  BY DEF RegisterNodes, StatefulCalls, InstrNodes, Nodes
<1> HIDE DEF d
<1>5. \A S : CountTo(S, d) \in Nat /\ CountTo(S, d + 1) = CountTo(S, d) + Bit(d + 1 \in S)
  BY <1>1, CountFacts
<1>6. Bit(d + 1 \in RegisterNodes) \in Nat /\ Bit(d + 1 \in StatefulCalls) \in Nat
  BY DEF Bit
<1>7. Len(regs') = CountTo(RegisterNodes, d + 1) + CountTo(StatefulCalls, d + 1)
  <2>1. Len(regs) = CountTo(RegisterNodes, d) + CountTo(StatefulCalls, d)
    BY DEF SenseSoFar, d
  <2>2. Len(regs') = Len(regs) + (Bit(d + 1 \in RegisterNodes) + Bit(d + 1 \in StatefulCalls))
    BY DEF RegsOf, d
  <2> QED BY <1>5, <1>6, <2>1, <2>2
<1>8. Len(instrs') = CountTo(InstrNodes, d + 1)
  BY <1>5 DEF SenseSoFar, InstrsOf, d
<1> QED BY <1>1, <1>3, <1>4, <1>7, <1>8 DEF SenseSoFar

\* The script needs what has been used, and what the next node uses.
LEMMA NeedsMore ==
    ASSUME IInv, SenseSoFar, phase = "compiling", Len(below) < Len(ast)
    PROVE  /\ RegsNeeded >= Len(regs) + RegsOf(Len(below) + 1)
           /\ InstrsNeeded >= Len(instrs) + InstrsOf(Len(below) + 1)
           /\ RegsNeeded \in Nat /\ InstrsNeeded \in Nat
<1> DEFINE d == Len(below)
           n == Len(ast)
<1>1. d \in Nat /\ n \in Nat /\ d + 1 \in Nat /\ d + 1 <= n /\ DOMAIN ast = 1..n
  BY QueueFacts
<1> HIDE DEF d, n
<1>2. ASSUME NEW S \in SUBSET (1..n)
      PROVE  /\ Cardinality(S) >= CountTo(S, d) + Bit(d + 1 \in S)
             /\ Cardinality(S) \in Nat /\ CountTo(S, d) \in Nat
  <2>1. CountTo(S, n) = Cardinality(S) /\ CountTo(S, d + 1) <= CountTo(S, n)
    BY <1>1, CountAll, CountGrows
  <2>2. CountTo(S, n) \in Nat /\ CountTo(S, d) \in Nat
    BY <1>1, CountFacts
  <2>3. CountTo(S, d + 1) = CountTo(S, d) + Bit(d + 1 \in S) /\ CountTo(S, d + 1) \in Nat
    BY <1>1, CountFacts
  <2> QED BY <2>1, <2>2, <2>3
<1>3. /\ RegisterNodes \in SUBSET (1..n) /\ StatefulCalls \in SUBSET (1..n)
      /\ InstrNodes \in SUBSET (1..n)
  BY <1>1 DEF RegisterNodes, StatefulCalls, InstrNodes, Nodes
<1>4. /\ Len(regs) = CountTo(RegisterNodes, d) + CountTo(StatefulCalls, d)
      /\ Len(instrs) = CountTo(InstrNodes, d)
      /\ RegsOf(d + 1) = Bit(d + 1 \in RegisterNodes) + Bit(d + 1 \in StatefulCalls)
      /\ InstrsOf(d + 1) = Bit(d + 1 \in InstrNodes)
      /\ Bit(d + 1 \in RegisterNodes) \in Nat /\ Bit(d + 1 \in StatefulCalls) \in Nat
  BY DEF SenseSoFar, RegsOf, InstrsOf, Bit, d
<1>5. /\ RegsNeeded = Cardinality(RegisterNodes) + Cardinality(StatefulCalls)
      /\ InstrsNeeded = Cardinality(InstrNodes)
  BY DEF RegsNeeded, InstrsNeeded, RegisterNodes, InstrNodes
<1>6. RegsNeeded >= Len(regs) + RegsOf(d + 1) /\ RegsNeeded \in Nat
  <2>1. /\ Cardinality(RegisterNodes) >= CountTo(RegisterNodes, d) + Bit(d + 1 \in RegisterNodes)
        /\ Cardinality(RegisterNodes) \in Nat /\ CountTo(RegisterNodes, d) \in Nat
    BY <1>2, <1>3
  <2>2. /\ Cardinality(StatefulCalls) >= CountTo(StatefulCalls, d) + Bit(d + 1 \in StatefulCalls)
        /\ Cardinality(StatefulCalls) \in Nat /\ CountTo(StatefulCalls, d) \in Nat
    BY <1>2, <1>3
  <2>3. \A x, y, p, q, b, c \in Nat : x >= p + b /\ y >= q + c => x + y >= (p + q) + (b + c) /\ x + y \in Nat
    OBVIOUS
  <2>4. /\ Cardinality(RegisterNodes) + Cardinality(StatefulCalls) >=
              (CountTo(RegisterNodes, d) + CountTo(StatefulCalls, d))
                 + (Bit(d + 1 \in RegisterNodes) + Bit(d + 1 \in StatefulCalls))
        /\ Cardinality(RegisterNodes) + Cardinality(StatefulCalls) \in Nat
    BY <1>4, <2>1, <2>2, <2>3
  <2> QED BY <1>4, <1>5, <2>4
<1>7. InstrsNeeded >= Len(instrs) + InstrsOf(d + 1) /\ InstrsNeeded \in Nat
  BY <1>2, <1>3, <1>4, <1>5
<1> QED BY <1>6, <1>7 DEF d

\* When all nodes are compiled the script makes sense and is as long as the queues.
LEMMA SenseOfAll ==
    ASSUME IInv, SenseSoFar, AllCompiled
    PROVE  /\ MakesSense /\ Len(regs) = RegsNeeded /\ Len(instrs) = InstrsNeeded
           /\ \A a \in ArgsNeeded : a <= MaxArgs
<1> DEFINE n == Len(ast)
<1>1. Len(below) = n /\ n \in Nat /\ DOMAIN ast = 1..n
  BY QueueFacts DEF AllCompiled
<1> HIDE DEF n
<1>2. \A k \in 1..n : SenseAt(ast, below, regs, k)
  BY <1>1 DEF SenseSoFar
<1>3. MakesSense
  BY <1>1, <1>2 DEF MakesSense, SenseAt
<1>4. \A a \in ArgsNeeded : a <= MaxArgs
  BY <1>1, <1>2 DEF ArgsNeeded, Nodes, SenseAt
<1>5. /\ RegisterNodes \in SUBSET (1..n) /\ StatefulCalls \in SUBSET (1..n)
      /\ InstrNodes \in SUBSET (1..n)
  BY <1>1 DEF RegisterNodes, StatefulCalls, InstrNodes, Nodes
<1>6. /\ CountTo(RegisterNodes, n) = Cardinality(RegisterNodes)
      /\ CountTo(StatefulCalls, n) = Cardinality(StatefulCalls)
      /\ CountTo(InstrNodes, n) = Cardinality(InstrNodes)
  BY <1>1, <1>5, CountAll
<1> QED BY <1>1, <1>3, <1>4, <1>6 DEF SenseSoFar, RegsNeeded, InstrsNeeded, RegisterNodes, InstrNodes

\* The compiler knows the types of the operands, and of the node what they tell.
LEMMA OperandSense ==
    ASSUME IInv, SenseSoFar, phase = "compiling", Len(below) < Len(ast),
           Node.op \in Operators \cup {"assign"}
    PROVE  LET tl == TypeAt(Operand(Node.l))
               tr == IF Node.r = Null THEN "na" ELSE TypeAt(Operand(Node.r))
           IN  /\ StaticType(ast)[Len(below) + 1] = TypeTold(ast, Node, tl, tr)
               /\ tl \in Types /\ tr \in Types
               /\ Node.op \in Unary => tr = "na"
<1> DEFINE tl == TypeAt(Operand(Node.l))
           tr == IF Node.r = Null THEN "na" ELSE TypeAt(Operand(Node.r))
           type == StaticType(ast)
           k == Len(below) + 1
<1>1. k \in DOMAIN ast /\ Node = ast[k] /\ IsTree(ast) /\ k \in 1..Len(ast)
  BY CompileFacts, QueueFacts
<1>2. tl \in Types /\ tr \in Types
  BY OperandFacts, TypeAtType DEF IInv, Types
<1>3. /\ ast[Node.l].op \in Expressions
      /\ Node.op \in Unary \cup {"assign"} => Node.r = Null
      /\ Node.op \notin Unary \cup {"assign"} => Node.r # Null /\ ast[Node.r].op \in Expressions
  BY <1>1, OperandNodes
<1>4. /\ Node.l \in 1..Len(below)
      /\ Node.r # Null => Node.r \in 1..Len(below)
  BY OperandCells
<1>5. tl = type[Node.l]
  <2>1. SenseAt(ast, below, regs, Node.l)
    BY <1>4 DEF SenseSoFar
  <2> QED BY <1>3, <2>1 DEF SenseAt, TypeIn, TypeAt, CellFor, Operand
<1>6. tr = type[Node.r]
  <2>1. CASE Node.r = Null
    BY <1>1, <2>1, TypesFacts
  <2>2. CASE Node.r # Null
    <3>1. SenseAt(ast, below, regs, Node.r)
      BY <1>4, <2>2 DEF SenseSoFar
    <3> QED BY <1>3, <2>2, <3>1 DEF SenseAt, TypeIn, TypeAt, CellFor, Operand
  <2> QED BY <2>1, <2>2
<1>7. type[k] = TypeTold(ast, ast[k], type[ast[k].l], type[ast[k].r])
  BY <1>1, TypesFacts
<1> HIDE DEF tl, tr, type, k
<1>8. type[k] = TypeTold(ast, Node, tl, tr)
  BY <1>1, <1>5, <1>6, <1>7
<1> QED BY <1>2, <1>3, <1>8 DEF tl, tr, type, k

\* The compiler gives up for a reason.
StopsForAReason ==
    \/ /\ StopWith("refused")
       /\ ~MakesSense \/ InstrsNeeded > MaxInstr \/ \E a \in ArgsNeeded : a > MaxArgs
    \/ /\ StopWith("crashed")
       /\ ast = <<>> \/ RegsNeeded > MaxRegs

LEMMA StopDeserved ==
    ASSUME OutcomeInv, phase = "compiling", StopsForAReason
    PROVE  OutcomeInv'
<1>1. pc' = 0 /\ ast' = ast
  BY DEF OutcomeInv, StopsForAReason, StopWith
<1>2. /\ MakesSense' = MakesSense /\ InstrsNeeded' = InstrsNeeded /\ ArgsNeeded' = ArgsNeeded
      /\ RegsNeeded' = RegsNeeded
  BY <1>1 DEF MakesSense, InstrsNeeded, ArgsNeeded, RegsNeeded, Nodes, StatefulCalls
<1>3. CASE /\ phase' = "refused"
           /\ ~MakesSense \/ InstrsNeeded > MaxInstr \/ \E a \in ArgsNeeded : a > MaxArgs
  BY <1>2, <1>3 DEF OutcomeInv, OutcomeIsDeserved, HasCode
<1>4. CASE phase' = "crashed" /\ (ast = <<>> \/ RegsNeeded > MaxRegs)
  BY <1>1, <1>2, <1>4 DEF OutcomeInv, OutcomeIsDeserved, HasCode
<1> QED BY <1>3, <1>4 DEF StopsForAReason, StopWith

LEMMA GoesOn ==
    ASSUME OutcomeInv, phase = "compiling", phase' = phase, pc' = pc, SenseSoFar'
    PROVE  OutcomeInv'
BY DEF OutcomeInv, OutcomeIsDeserved, HasCode

\* The next node makes no sense, or needs too much.
LEMMA NoSense ==
    ASSUME IInv, phase = "compiling", Len(below) < Len(ast),
           StaticType(ast)[Len(below) + 1] = "ill"
    PROVE  ~MakesSense
BY CompileFacts DEF MakesSense

\* The type of a node that has no operands.
LEMMA ToldAt ==
    ASSUME IInv, phase = "compiling", Len(below) < Len(ast)
    PROVE  \E tl, tr : StaticType(ast)[Len(below) + 1] = TypeTold(ast, Node, tl, tr)
<1>1. IsTree(ast) /\ Node = ast[Len(below) + 1] /\ Len(below) + 1 \in 1..Len(ast)
  BY CompileFacts, QueueFacts
<1> QED BY <1>1, TypesFacts

LEMMA ConstDeserved ==
    ASSUME IInv, OutcomeInv, CompileConst
    PROVE  OutcomeInv'
<1> DEFINE k == Len(below) + 1
           c == Len(regs) + 1
<1>1. phase = "compiling" /\ Len(below) < Len(ast) /\ Node.op = "const" /\ SenseSoFar
  BY DEF CompileConst, Compiling, OutcomeInv
<1>2. /\ k \in DOMAIN ast /\ Node = ast[k] /\ IsTree(ast) /\ k \in 1..Len(ast)
      /\ Node.type \in {"int", "float", "bool"} /\ Node.type \in Types
  <2>1. k \in DOMAIN ast /\ Node = ast[k] /\ IsTree(ast) /\ k \in 1..Len(ast) /\ IsNode(ast, k)
    BY <1>1, CompileFacts, QueueFacts
  <2>2. Node.type \in {"int", "float", "bool"}
    BY <1>1, <2>1 DEF IsNode, Operators, Unary
  <2> QED BY <2>1, <2>2 DEF Types
<1>3. k \in RegisterNodes /\ k \notin StatefulCalls /\ k \notin InstrNodes
  BY <1>1, <1>2 DEF RegisterNodes, StatefulCalls, InstrNodes, Nodes, Operators
<1>4. RegsOf(k) = 1 /\ InstrsOf(k) = 0
  BY <1>3 DEF RegsOf, InstrsOf, Bit
<1>5. CASE RegsFull(regs) /\ StopWith("crashed")
  <2>1. RegsNeeded > MaxRegs
    BY <1>1, <1>4, <1>5, NeedsMore, CompileFacts DEF RegsFull
  <2> QED BY <1>1, <1>5, <2>1, StopDeserved DEF StopsForAReason
<1>6. CASE /\ ~RegsFull(regs)
           /\ regs' = Append(regs, Node.type)
           /\ below' = Append(below, <<c>>)
           /\ UNCHANGED <<ast, phase, instrs, pc, truth, start, calls>>
  <2>1. regs \in Seq(Types) /\ below \in Seq(Seq(Cells)) /\ Len(regs) \in Nat /\ MaxRegs \in Nat
    BY <1>1, CompileFacts
  <2>2. Extends(regs, regs') /\ regs'[c] = Node.type /\ Len(regs') = Len(regs) + 1
    BY <1>2, <1>6, <2>1, GrowsByOne
  <2>3. c \in Cells /\ c <= MaxRegs
    BY <1>6, <2>1, SymbolFacts DEF RegsFull, Cells
  <2> DEFINE cells == <<c>>
  <2>4. cells \in Seq(Cells) /\ below' = Append(below, cells) /\ cells[1] = c
    BY <1>6, <2>3
  <2> HIDE DEF cells, c
  <2>5. CellFor(below', k) = c
    BY <2>1, <2>4, GrowsByOne DEF CellFor
  <2>6. StaticType(ast)[k] = Node.type
    <3>1. \A tl, tr : TypeTold(ast, Node, tl, tr) = Node.type
      BY <1>1 DEF TypeTold
    <3> QED BY <1>1, <3>1, ToldAt
  <2>7. SenseAt(ast, below', regs', k)
    BY <1>1, <1>2, <2>2, <2>3, <2>5, <2>6 DEF SenseAt, TypeIn
  <2>8. Len(regs') = Len(regs) + RegsOf(k) /\ Len(instrs') = Len(instrs) + InstrsOf(k)
    BY <1>1, <1>4, <1>6, <2>2, QueueFacts
  <2>9. SenseSoFar'
    BY <1>1, <1>6, <2>2, <2>4, <2>7, <2>8, SenseGrows
  <2> QED BY <1>1, <1>6, <2>9, GoesOn
<1> QED BY <1>5, <1>6 DEF CompileConst

LEMMA ReferenceDeserved ==
    ASSUME IInv, OutcomeInv, CompileReference
    PROVE  OutcomeInv'
<1> DEFINE k == Len(below) + 1
           c == CellOf(Node.v)
           type == StaticType(ast)[k]
<1>1. phase = "compiling" /\ Len(below) < Len(ast) /\ Node.op = "ref" /\ SenseSoFar
  BY DEF CompileReference, Compiling, OutcomeInv
<1>2. /\ k \in DOMAIN ast /\ Node = ast[k] /\ Node.v \in DOMAIN Symbols
      /\ below \in Seq(Seq(Cells)) /\ Extends(regs, regs) /\ MaxRegs \in Nat
  BY <1>1, CompileFacts, NodeFacts
<1>3. type = IF Node.v \in Variables THEN Symbols[Node.v].type ELSE "ill"
  <2>1. \A tl, tr : TypeTold(ast, Node, tl, tr) = IF Node.v \in Variables THEN Symbols[Node.v].type ELSE "ill"
    BY <1>1 DEF TypeTold
  <2> QED BY <1>1, <2>1, ToldAt
<1>4. CASE Node.v \notin Variables /\ StopWith("refused")
  <2>1. ~MakesSense
    BY <1>1, <1>3, <1>4, NoSense
  <2> QED BY <1>1, <1>4, <2>1, StopDeserved DEF StopsForAReason
<1>5. CASE /\ Node.v \in Variables
           /\ below' = Append(below, <<c>>)
           /\ UNCHANGED <<ast, phase, regs, instrs, mem, pc, truth, start, calls>>
  <2>1. c \in Cells /\ c - MaxRegs = Node.v /\ ~(c <= MaxRegs) /\ Symbols[Node.v].type \in Types
    <3>1. Node.v \in 1..Len(Symbols) /\ c \in VariableCells /\ Symbols[Node.v] \in SymbolType
      BY <1>2, SymbolFacts
    <3> QED BY <1>2, <3>1, SymbolFacts DEF CellOf, SymbolType
  <2> DEFINE cells == <<c>>
  <2>2. cells \in Seq(Cells) /\ below' = Append(below, cells) /\ cells[1] = c
    BY <1>5, <2>1
  <2> HIDE DEF cells, c
  <2>3. CellFor(below', k) = c
    BY <1>2, <2>2, GrowsByOne DEF CellFor
  <2>4. type # "ill" /\ TypeIn(regs', CellFor(below', k)) = type
    BY <1>3, <1>5, <2>1, <2>3 DEF TypeIn, Types
  <2>5. SenseAt(ast, below', regs', k)
    BY <1>1, <1>2, <2>4 DEF SenseAt
  <2>6. k \notin RegisterNodes /\ k \notin StatefulCalls /\ k \notin InstrNodes
    BY <1>1, <1>2 DEF RegisterNodes, StatefulCalls, InstrNodes, Nodes, Operators
  <2>7. RegsOf(k) = 0 /\ InstrsOf(k) = 0
    BY <2>6 DEF RegsOf, InstrsOf, Bit
  <2>8. Len(regs') = Len(regs) + RegsOf(k) /\ Len(instrs') = Len(instrs) + InstrsOf(k)
    BY <1>5, <2>7, QueueFacts
  <2>9. SenseSoFar'
    BY <1>1, <1>2, <1>5, <2>2, <2>5, <2>8, SenseGrows
  <2> QED BY <1>1, <1>5, <2>9, GoesOn
<1> QED BY <1>4, <1>5 DEF CompileReference

LEMMA FlowDeserved ==
    ASSUME IInv, OutcomeInv, CompileFlow
    PROVE  OutcomeInv'
<1> DEFINE k == Len(below) + 1
           cells == IF Node.op = "stmt" \/ Node.r = Null THEN <<>>
                    ELSE below[Node.l] \o below[Node.r]
<1>1. /\ phase = "compiling" /\ Len(below) < Len(ast) /\ Node.op \in {"list", "stmt"} /\ SenseSoFar
      /\ below' = Append(below, cells)
      /\ UNCHANGED <<ast, phase, regs, instrs, mem, pc, truth, start, calls>>
  BY DEF CompileFlow, Compiling, OutcomeInv
<1>2. k \in DOMAIN ast /\ Node = ast[k] /\ below \in Seq(Seq(Cells)) /\ Extends(regs, regs)
  BY <1>1, CompileFacts
<1>3. cells \in Seq(Cells)
  <2>1. CASE Node.op = "stmt" \/ Node.r = Null
    BY <2>1
  <2>2. CASE ~(Node.op = "stmt" \/ Node.r = Null)
    <3>1. Node.l \in DOMAIN below /\ Node.r \in DOMAIN below
      BY <1>1, <1>2, <2>2, NodeFacts DEF Null
    <3>2. below[Node.l] \in Seq(Cells) /\ below[Node.r] \in Seq(Cells)
      BY <1>2, <3>1
    <3> QED BY <2>2, <3>2
  <2> QED BY <2>1, <2>2
<1> HIDE DEF cells
<1>4. StaticType(ast)[k] = "na"
  <2>1. \A tl, tr : TypeTold(ast, Node, tl, tr) = "na"
    BY <1>1 DEF TypeTold
  <2> QED BY <1>1, <2>1, ToldAt
<1>5. SenseAt(ast, below', regs', k)
  BY <1>1, <1>2, <1>4 DEF SenseAt, Expressions, Operators
<1>6. k \notin RegisterNodes /\ k \notin StatefulCalls /\ k \notin InstrNodes
  BY <1>1, <1>2 DEF RegisterNodes, StatefulCalls, InstrNodes, Nodes, Operators
<1>7. RegsOf(k) = 0 /\ InstrsOf(k) = 0
  BY <1>6 DEF RegsOf, InstrsOf, Bit
<1>8. Len(regs') = Len(regs) + RegsOf(k) /\ Len(instrs') = Len(instrs) + InstrsOf(k)
  BY <1>1, <1>7, QueueFacts
<1>9. SenseSoFar'
  BY <1>1, <1>2, <1>3, <1>5, <1>8, SenseGrows
<1> QED BY <1>1, <1>9, GoesOn

\* A computation takes its place, or there is none.
LEMMA AddDeserved ==
    ASSUME IInv, OutcomeInv, phase = "compiling", Len(below) < Len(ast),
           Node.op \in Operators \cup {"call"},
           NEW rs \in Seq(Types), Extends(regs, rs), Len(rs) <= MaxRegs,
           Len(rs) + 1 = Len(regs) + RegsOf(Len(below) + 1),
           NEW type \in Types, StaticType(ast)[Len(below) + 1] = type,
           Node.op = "call" =>
               Len(Leaves(ast)[Node.l]) + Bit(Symbols[Node.v].stateful) <= MaxArgs,
           NEW m, NEW tl, NEW tr, NEW sym, NEW args,
           AddComputation(rs, m, type, Node.op, tl, tr, sym, args)
    PROVE  OutcomeInv'
<1> DEFINE k == Len(below) + 1
           r == ResultRegister(rs)
<1>1. SenseSoFar /\ k \in DOMAIN ast /\ Node = ast[k] /\ MaxRegs \in Nat /\ MaxInstr \in Nat
  BY CompileFacts, EintAssumption DEF OutcomeInv
<1>2. InstrsOf(k) = 1
  <2>1. k \in InstrNodes
    BY <1>1 DEF InstrNodes, Nodes
  <2> QED BY <2>1 DEF InstrsOf, Bit
<1>3. Len(rs) \in Nat /\ Len(regs) \in Nat /\ Len(instrs) \in Nat /\ Len(regs) <= Len(rs)
  BY QueueFacts DEF Extends
<1>4. CASE Len(instrs) >= MaxInstr /\ StopWith("refused")
  <2>1. InstrsNeeded > MaxInstr
    BY <1>1, <1>2, <1>3, <1>4, NeedsMore
  <2> QED BY <1>4, <2>1, StopDeserved DEF StopsForAReason
<1>5. CASE RegsFull(rs) /\ StopWith("crashed")
  <2>1. RegsNeeded > MaxRegs
    BY <1>1, <1>3, <1>5, NeedsMore DEF RegsFull
  <2> QED BY <1>5, <2>1, StopDeserved DEF StopsForAReason
<1>6. CASE /\ ~RegsFull(rs) /\ regs' = Append(rs, type)
           /\ instrs' = Append(instrs, Instr(Node.op, tl, tr, sym, args, r))
           /\ below' = Append(below, <<r>>)
           /\ UNCHANGED <<ast, phase, pc, truth, start, calls>>
  <2>1. Extends(rs, regs') /\ regs'[r] = type /\ Len(regs') = Len(rs) + 1 /\ r = Len(rs) + 1
    BY <1>6, GrowsByOne DEF ResultRegister
  <2>2. Extends(regs, regs')
    BY <1>3, <2>1 DEF Extends
  <2>3. r \in Cells /\ r <= MaxRegs
    BY <1>1, <1>3, <1>6, <2>1, SymbolFacts DEF RegsFull, Cells
  <2> DEFINE cells == <<r>>
             n == Instr(Node.op, tl, tr, sym, args, r)
  <2>4. cells \in Seq(Cells) /\ below' = Append(below, cells) /\ cells[1] = r
    BY <1>6, <2>3
  <2>5. instrs' = Append(instrs, n)
    BY <1>6
  <2> HIDE DEF cells, r, n
  <2>6. CellFor(below', k) = r
    BY <2>4, CompileFacts, GrowsByOne DEF CellFor
  <2>7. SenseAt(ast, below', regs', k)
    BY <1>1, <2>1, <2>3, <2>6 DEF SenseAt, TypeIn, Types
  <2>8. Len(instrs') = Len(instrs) + 1
    <3>1. instrs \in Seq(InstrType)
      BY CompileFacts
    <3> QED BY <2>5, <3>1
  <2>9. Len(regs') = Len(regs) + RegsOf(k) /\ Len(instrs') = Len(instrs) + InstrsOf(k)
    BY <1>2, <2>1, <2>8
  <2>10. SenseSoFar'
    BY <1>1, <1>6, <2>2, <2>4, <2>7, <2>9, SenseGrows
  <2> QED BY <1>6, <2>10, GoesOn
<1> QED BY <1>4, <1>5, <1>6 DEF AddComputation

LEMMA OperatorDeserved ==
    ASSUME IInv, OutcomeInv, CompileOperator
    PROVE  OutcomeInv'
<1> DEFINE tl == TypeAt(Operand(Node.l))
           tr == IF Node.r = Null THEN "na" ELSE TypeAt(Operand(Node.r))
           k == Len(below) + 1
<1>1. phase = "compiling" /\ Len(below) < Len(ast) /\ Node.op \in Operators /\ SenseSoFar
  BY DEF CompileOperator, Compiling, OutcomeInv
<1>2. /\ StaticType(ast)[k] = TypeTold(ast, Node, tl, tr)
      /\ tl \in Types /\ tr \in Types /\ (Node.op \in Unary => tr = "na")
  BY <1>1, OperandSense
<1>3. \/ RulesFor(Node.op, tl, tr) = {} /\ StopWith("refused")
      \/ \E w \in RulesFor(Node.op, tl, tr) :
            AddComputation(regs, mem, w.tres, Node.op, tl, tr, 0, Operands)
  BY DEF CompileOperator
<1> HIDE DEF tl, tr, k
<1>4. CASE RulesFor(Node.op, tl, tr) = {} /\ StopWith("refused")
  <2>1. StaticType(ast)[k] = "ill"
    BY <1>1, <1>2, <1>4, OperatorSense
  <2>2. ~MakesSense
    BY <1>1, <2>1, NoSense DEF k
  <2> QED BY <1>1, <1>4, <2>2, StopDeserved DEF StopsForAReason
<1>5. ASSUME NEW w \in RulesFor(Node.op, tl, tr),
             AddComputation(regs, mem, w.tres, Node.op, tl, tr, 0, Operands)
      PROVE  OutcomeInv'
  <2>1. StaticType(ast)[k] = w.tres /\ w.tres \in Types
    BY <1>1, <1>2, OperatorSense
  <2>2. /\ regs \in Seq(Types) /\ Extends(regs, regs) /\ Len(regs) <= MaxRegs /\ Len(regs) \in Nat
        /\ Node.op # "call" /\ k \in DOMAIN ast /\ Node = ast[k]
    BY <1>1, CompileFacts DEF Operators, k
  <2>3. RegsOf(k) = 1
    <3>1. k \in RegisterNodes /\ k \notin StatefulCalls
      BY <1>1, <2>2 DEF RegisterNodes, StatefulCalls, Nodes
    <3> QED BY <3>1 DEF RegsOf, Bit
  <2>4. Len(regs) + 1 = Len(regs) + RegsOf(Len(below) + 1)
    BY <2>3 DEF k
  <2> DEFINE type == w.tres
  <2>5. type \in Types /\ StaticType(ast)[Len(below) + 1] = type
    BY <2>1 DEF k
  <2>6. AddComputation(regs, mem, type, Node.op, tl, tr, 0, Operands)
    BY <1>5
  <2> HIDE DEF type
  <2> QED BY <1>1, <2>2, <2>4, <2>5, <2>6, AddDeserved
<1> QED BY <1>3, <1>4, <1>5

LEMMA AssignmentDeserved ==
    ASSUME IInv, OutcomeInv, CompileAssignment
    PROVE  OutcomeInv'
<1> DEFINE tl == Symbols[Node.v].type
           tr == TypeAt(Operand(Node.l))
           k == Len(below) + 1
           c == CellOf(Node.v)
           fine == Node.v \in Variables /\ RulesFor("assign", tl, tr) # {} /\ Len(instrs) < MaxInstr
           n == Instr("assign", tl, tr, 0, Operands, c)
<1>1. phase = "compiling" /\ Len(below) < Len(ast) /\ Node.op = "assign" /\ SenseSoFar
  BY DEF CompileAssignment, Compiling, OutcomeInv
<1>2. /\ k \in DOMAIN ast /\ Node = ast[k] /\ Node.v \in DOMAIN Symbols
      /\ below \in Seq(Seq(Cells)) /\ Extends(regs, regs) /\ MaxRegs \in Nat
      /\ instrs \in Seq(InstrType) /\ Len(instrs) \in Nat /\ MaxInstr \in Nat
  BY <1>1, CompileFacts, NodeFacts, EintAssumption
<1>3. PICK other : StaticType(ast)[k] = TypeTold(ast, Node, tr, other)
  BY <1>1, OperandSense
<1>4. \/ ~fine /\ StopWith("refused")
      \/ /\ fine
         /\ instrs' = Append(instrs, n)
         /\ below' = Append(below, <<c>>)
         /\ UNCHANGED <<ast, phase, regs, mem, pc, truth, start, calls>>
  BY DEF CompileAssignment
<1>5. k \in InstrNodes /\ k \notin RegisterNodes /\ k \notin StatefulCalls
  BY <1>1, <1>2 DEF RegisterNodes, StatefulCalls, InstrNodes, Nodes, Operators
<1>6. RegsOf(k) = 0 /\ InstrsOf(k) = 1
  BY <1>5 DEF RegsOf, InstrsOf, Bit
<1>7. /\ Node.v \notin Variables \/ RulesFor("assign", tl, tr) = {} => StaticType(ast)[k] = "ill"
      /\ Node.v \in Variables /\ RulesFor("assign", tl, tr) # {} => StaticType(ast)[k] = tl
  <2> DEFINE type == StaticType(ast)[k]
             node == Node
  <2>1. node.op = "assign" /\ node.v \in DOMAIN Symbols /\ type = TypeTold(ast, node, tr, other)
        /\ tl = Symbols[node.v].type /\ node = Node
    BY <1>1, <1>2, <1>3
  <2> HIDE DEF tl, tr, k, type, node
  <2>2. /\ node.v \notin Variables \/ RulesFor("assign", tl, tr) = {} =>
              TypeTold(ast, node, tr, other) = "ill"
        /\ node.v \in Variables /\ RulesFor("assign", tl, tr) # {} =>
              TypeTold(ast, node, tr, other) = tl
    BY <2>1, AssignmentSense
  <2>3. /\ node.v \notin Variables \/ RulesFor("assign", tl, tr) = {} => type = "ill"
        /\ node.v \in Variables /\ RulesFor("assign", tl, tr) # {} => type = tl
    BY <2>1, <2>2
  <2> QED BY <2>1, <2>3 DEF type
<1>8. tl \in Types
  <2>1. Symbols[Node.v] \in SymbolType
    BY <1>2, SymbolFacts
  <2> QED BY <2>1 DEF SymbolType
<1> HIDE DEF tl, tr, n
<1>9. CASE ~fine /\ StopWith("refused")
  <2>1. CASE Len(instrs) < MaxInstr
    <3>1. StaticType(ast)[k] = "ill"
      BY <1>7, <1>9, <2>1
    <3>2. ~MakesSense
      BY <1>1, <3>1, NoSense
    <3> QED BY <1>1, <1>9, <3>2, StopDeserved DEF StopsForAReason
  <2>2. CASE ~(Len(instrs) < MaxInstr)
    <3>1. InstrsNeeded > MaxInstr
      BY <1>1, <1>2, <1>6, <2>2, NeedsMore
    <3> QED BY <1>1, <1>9, <3>1, StopDeserved DEF StopsForAReason
  <2> QED BY <2>1, <2>2
<1>10. CASE /\ fine
            /\ instrs' = Append(instrs, n)
            /\ below' = Append(below, <<c>>)
            /\ UNCHANGED <<ast, phase, regs, mem, pc, truth, start, calls>>
  <2>1. StaticType(ast)[k] # "ill"
    BY <1>7, <1>8, <1>10 DEF Types
  <2>2. SenseAt(ast, below', regs', k)
    BY <1>1, <1>2, <2>1 DEF SenseAt, Expressions, Operators
  <2>3. Len(instrs') = Len(instrs) + InstrsOf(k)
    BY <1>2, <1>6, <1>10
  <2>4. Len(regs') = Len(regs) + RegsOf(k)
    BY <1>6, <1>10, QueueFacts
  <2>5. c \in Cells
    BY <1>2, SymbolFacts
  <2> DEFINE cells == <<c>>
  <2>6. cells \in Seq(Cells) /\ below' = Append(below, cells)
    BY <1>10, <2>5
  <2> HIDE DEF cells
  <2>7. SenseSoFar'
    BY <1>1, <1>2, <1>10, <2>2, <2>3, <2>4, <2>6, SenseGrows
  <2> QED BY <1>1, <1>10, <2>7, GoesOn
<1> QED BY <1>4, <1>9, <1>10

\* The arguments of a call are as many as its tree has leaves.
LEMMA GivenCount ==
    ASSUME IInv, Compiled, phase = "compiling", Len(below) < Len(ast), Node.op = "call"
    PROVE  LET given == IF Node.l = Null THEN <<>> ELSE below[Node.l]
           IN  given \in Seq(Cells) /\ Len(given) = Len(Leaves(ast)[Node.l])
<1>1. /\ IsNode(ast, Len(below) + 1) /\ Node = ast[Len(below) + 1] /\ IsTree(ast)
      /\ below \in Seq(Seq(Cells)) /\ Len(below) \in Nat
  BY CompileFacts
<1>2. CASE Node.l = Null
  <2>1. Leaves(ast)[Node.l] = <<>>
    BY <1>1, <1>2, LeavesFacts
  <2> QED BY <1>2, <2>1
<1>3. CASE Node.l # Null
  <2>1. Node.l \in 1..Len(below) /\ ast[Node.l].op \in Expressions \cup {"list"}
    BY <1>1, <1>3 DEF IsNode, Operators, Unary
  <2>2. CellsOfLeaves(ast, below, Node.l)
    BY <2>1 DEF Compiled, Code
  <2> QED BY <1>1, <1>3, <2>1, <2>2 DEF CellsOfLeaves
<1> QED BY <1>2, <1>3

LEMMA CallDeserved ==
    ASSUME IInv, Compiled, OutcomeInv, CompileCall
    PROVE  OutcomeInv'
<1> DEFINE f      == Symbols[Node.v]
           given  == IF Node.l = Null THEN <<>> ELSE below[Node.l]
           rs     == RegsWithHandle(f)
           handle == IF f.stateful THEN <<Len(rs)>> ELSE <<>>
           m      == IF f.stateful THEN [mem EXCEPT ![Len(rs)] = SiteMemory] ELSE mem
           k      == Len(below) + 1
           count  == Len(Leaves(ast)[Node.l])
<1>1. phase = "compiling" /\ Len(below) < Len(ast) /\ Node.op = "call" /\ SenseSoFar
  BY DEF CompileCall, Compiling, OutcomeInv
<1>2. \/ f.kind # "func" /\ StopWith("refused")
      \/ f.kind = "func" /\ f.stateful /\ RegsFull(regs) /\ StopWith("crashed")
      \/ /\ f.kind = "func" /\ ~(f.stateful /\ RegsFull(regs))
         /\ \/ TooMany(f, handle, given) /\ StopWith("refused")
            \/ /\ ~TooMany(f, handle, given)
               /\ AddComputation(rs, m, f.type, "call", "na", "na", Node.v, handle \o given)
  BY DEF CompileCall
<1>3. /\ k \in DOMAIN ast /\ Node = ast[k] /\ Node.v \in DOMAIN Symbols
      /\ regs \in Seq(Types) /\ Len(regs) \in Nat /\ Len(regs) <= MaxRegs /\ MaxRegs \in Nat
      /\ MaxArgs \in Nat
  BY <1>1, CompileFacts, NodeFacts, EintAssumption
<1>4. f \in SymbolType /\ f.type \in Types /\ f.stateful \in BOOLEAN /\ f.expects \in Nat
  <2>1. f \in SymbolType
    BY <1>3, SymbolFacts
  <2> QED BY <2>1 DEF SymbolType
<1>5. given \in Seq(Cells) /\ Len(given) = count /\ count \in Nat
  <2>1. given \in Seq(Cells) /\ Len(given) = count
    BY <1>1, GivenCount
  <2> HIDE DEF given, count
  <2> QED BY <2>1
<1>6. StaticType(ast)[k] = IF f.kind = "func" /\ count <= f.expects THEN f.type ELSE "ill"
  <2>1. \A tl, tr : TypeTold(ast, Node, tl, tr) =
                       IF f.kind = "func" /\ count <= f.expects THEN f.type ELSE "ill"
    BY <1>1 DEF TypeTold
  <2> QED BY <1>1, <2>1, ToldAt
<1>7. count + Bit(f.stateful) \in ArgsNeeded
  BY <1>1, <1>3 DEF ArgsNeeded, Nodes
<1>8. RegsOf(k) = 1 + Bit(f.stateful)
  <2>1. k \in RegisterNodes /\ (k \in StatefulCalls <=> f.stateful)
    BY <1>1, <1>3 DEF RegisterNodes, StatefulCalls, Nodes
  <2> QED BY <1>4, <2>1 DEF RegsOf, Bit
<1>9. Len(handle \o given) = count + Bit(f.stateful)
  <2>1. CASE f.stateful
    <3> DEFINE x == Len(rs)
               S == Cells \cup {x}
    <3>1. handle = <<x>>
      BY <2>1
    <3> HIDE DEF handle, given, count, x, f, S
    <3>2. x \in S /\ given \in Seq(S)
      BY <1>5 DEF S
    <3>3. Len(<<x>> \o given) = Len(given) + 1
      BY <3>2
    <3> QED BY <1>5, <2>1, <3>1, <3>3 DEF Bit
  <2>2. CASE ~f.stateful
    <3>1. handle = <<>>
      BY <2>2
    <3> HIDE DEF handle, given, count, f
    <3>2. <<>> \o given = given
      BY <1>5
    <3> QED BY <1>5, <2>2, <3>1, <3>2 DEF Bit
  <2> QED BY <2>1, <2>2
<1>10. CASE f.kind # "func" /\ StopWith("refused")
  <2>1. ~MakesSense
    BY <1>1, <1>6, <1>10, NoSense
  <2> QED BY <1>1, <1>10, <2>1, StopDeserved DEF StopsForAReason
<1>11. CASE f.stateful /\ RegsFull(regs) /\ StopWith("crashed")
  <2>1. RegsOf(k) = 2 /\ Len(regs) >= MaxRegs
    BY <1>8, <1>11 DEF Bit, RegsFull
  <2>2. RegsNeeded > MaxRegs
    BY <1>1, <1>3, <2>1, NeedsMore
  <2> QED BY <1>1, <1>11, <2>2, StopDeserved DEF StopsForAReason
<1>12. CASE f.kind = "func" /\ TooMany(f, handle, given) /\ StopWith("refused")
  <2>1. count + Bit(f.stateful) > MaxArgs \/ count > f.expects
    BY <1>5, <1>9, <1>12 DEF TooMany
  <2>2. CASE count + Bit(f.stateful) > MaxArgs
    BY <1>1, <1>7, <1>12, <2>2, StopDeserved DEF StopsForAReason
  <2>3. CASE count > f.expects
    <3>1. StaticType(ast)[k] = "ill"
      BY <1>4, <1>5, <1>6, <2>3
    <3>2. ~MakesSense
      BY <1>1, <3>1, NoSense
    <3> QED BY <1>1, <1>12, <3>2, StopDeserved DEF StopsForAReason
  <2> QED BY <2>1, <2>2, <2>3
<1>13. CASE /\ f.kind = "func" /\ ~(f.stateful /\ RegsFull(regs)) /\ ~TooMany(f, handle, given)
            /\ AddComputation(rs, m, f.type, "call", "na", "na", Node.v, handle \o given)
  <2> DEFINE type == f.type
             args == handle \o given
  <2>1. count + Bit(f.stateful) <= MaxArgs /\ count <= f.expects
    <3>1. count + Bit(f.stateful) \in Nat
      <4>1. count \in Nat
        BY <1>5
      <4> HIDE DEF count, f, given
      <4> QED BY <4>1 DEF Bit
    <3>2. ~(count + Bit(f.stateful) > MaxArgs) /\ ~(count > f.expects)
      BY <1>5, <1>9, <1>13 DEF TooMany
    <3> HIDE DEF count
    <3> QED BY <1>3, <1>4, <1>5, <3>1, <3>2
  <2>2. StaticType(ast)[k] = type /\ type \in Types
    BY <1>4, <1>6, <1>13, <2>1
  <2>3. /\ rs \in Seq(Types) /\ Extends(regs, rs) /\ Len(rs) <= MaxRegs
        /\ Len(rs) + 1 = Len(regs) + RegsOf(k)
    <3>1. CASE f.stateful
      <4>1. rs = Append(regs, "ptr") /\ "ptr" \in Types /\ Len(regs) < MaxRegs
        BY <1>3, <1>13, <3>1 DEF RegsWithHandle, RegsFull, Types
      <4>2. rs \in Seq(Types) /\ Extends(regs, rs) /\ Len(rs) = Len(regs) + 1
        BY <1>3, <4>1, GrowsByOne
      <4>3. RegsOf(k) = 2
        BY <1>8, <3>1 DEF Bit
      <4> QED BY <1>3, <4>1, <4>2, <4>3
    <3>2. CASE ~f.stateful
      <4>1. rs = regs /\ Extends(regs, regs)
        BY <1>1, <3>2, CompileFacts DEF RegsWithHandle
      <4>2. RegsOf(k) = 1
        BY <1>8, <3>2 DEF Bit
      <4> QED BY <1>3, <4>1, <4>2
    <3> QED BY <3>1, <3>2
  <2>4. AddComputation(rs, m, type, Node.op, "na", "na", Node.v, args)
    BY <1>1, <1>13
  <2> HIDE DEF f, rs, m, type, args, handle, given
  <2>5. Node.op = "call" => Len(Leaves(ast)[Node.l]) + Bit(Symbols[Node.v].stateful) <= MaxArgs
    BY <2>1 DEF f
  <2> QED BY <1>1, <2>2, <2>3, <2>4, <2>5, AddDeserved
<1> QED BY <1>2, <1>10, <1>11, <1>12, <1>13

LEMMA DoneDeserved ==
    ASSUME IInv, OutcomeInv, CompileDone
    PROVE  OutcomeInv'
<1>1. /\ phase = "compiling" /\ AllCompiled /\ SenseSoFar /\ phase' = "ready"
      /\ UNCHANGED <<ast, below, regs, instrs, mem, pc, truth, start, calls>>
  BY DEF CompileDone, AllCompiled, OutcomeInv
<1>2. /\ MakesSense /\ Len(regs) = RegsNeeded /\ Len(instrs) = InstrsNeeded
      /\ \A a \in ArgsNeeded : a <= MaxArgs
  BY <1>1, SenseOfAll
<1>3. /\ MakesSense' = MakesSense /\ InstrsNeeded' = InstrsNeeded /\ ArgsNeeded' = ArgsNeeded
      /\ RegsNeeded' = RegsNeeded /\ SenseSoFar' = SenseSoFar
  BY <1>1 DEF MakesSense, InstrsNeeded, ArgsNeeded, RegsNeeded, Nodes, StatefulCalls, SenseSoFar,
              RegisterNodes, InstrNodes
<1>4. OutcomeIsDeserved'
  BY <1>1, <1>2, <1>3 DEF OutcomeIsDeserved
<1> QED BY <1>1, <1>3, <1>4 DEF OutcomeInv

LEMMA CompileDeserved ==
    ASSUME IInv, Compiled, OutcomeInv, Compile
    PROVE  OutcomeInv'
<1>1. CASE CompileNothing
  BY <1>1, StopDeserved DEF CompileNothing, StopsForAReason
<1> QED BY <1>1, ConstDeserved, OperatorDeserved, FlowDeserved, ReferenceDeserved,
           AssignmentDeserved, CallDeserved, DoneDeserved DEF Compile

\* Executing changes nothing of what was compiled.
LEMMA CodeDeserved ==
    ASSUME OutcomeInv, HasCode, HasCode', UNCHANGED <<ast, below, regs, instrs>>
    PROVE  OutcomeInv'
<1>1. /\ MakesSense' = MakesSense /\ InstrsNeeded' = InstrsNeeded /\ ArgsNeeded' = ArgsNeeded
      /\ RegsNeeded' = RegsNeeded /\ SenseSoFar' = SenseSoFar
  BY DEF MakesSense, InstrsNeeded, ArgsNeeded, RegsNeeded, Nodes, StatefulCalls, SenseSoFar,
         RegisterNodes, InstrNodes
<1>2. phase' \in {"ready", "running", "evaluated"}
  BY DEF HasCode
<1>3. OutcomeIsDeserved'
  BY <1>1, <1>2 DEF OutcomeInv, OutcomeIsDeserved, HasCode
<1> QED BY <1>1, <1>2, <1>3 DEF OutcomeInv

\* The program goes down while executing for a reason.
LEMMA CrashDeserved ==
    ASSUME OutcomeInv, pc \in Nat, pc # 0, StopWith("crashed"),
           \/ \E k \in Nodes({"call"}) : Len(Leaves(ast)[ast[k].l]) < Symbols[ast[k].v].expects
           \/ ~IsExpression
    PROVE  OutcomeInv'
<1>1. phase' = "crashed" /\ UNCHANGED <<ast, pc>>
  BY DEF StopWith
<1>2. Nodes({"call"})' = Nodes({"call"}) /\ IsExpression' = IsExpression
  BY <1>1 DEF Nodes, IsExpression
<1>3. OutcomeIsDeserved'
  BY <1>1, <1>2 DEF OutcomeIsDeserved
<1> QED BY <1>1, <1>3 DEF OutcomeInv, HasCode

LEMMA ExecuteDeserved ==
    ASSUME MeaningInv, OutcomeInv, Execute
    PROVE  OutcomeInv'
<1>1. IInv /\ phase = "running" /\ HasCode
  BY DEF MeaningInv, Execute, ExecuteHandler, ExecuteCall, Executing, FinishCondition, FinishAction,
         Evaluated, HasCode
<1>2. PICK nd : Running(nd)
  BY <1>1, RunningFacts
<1>3. pc \in Nat /\ pc # 0
  BY <1>1, QueueFacts DEF IInv
<1>4. CASE phase' \in {"running", "evaluated"} /\ UNCHANGED <<ast, below, regs, instrs>>
  BY <1>1, <1>4, CodeDeserved DEF HasCode
<1>5. CASE Executing /\ instrs[pc].op = "call" /\ StopWith("crashed")
           /\ Len(GivenBy(instrs[pc])) < Symbols[instrs[pc].sym].expects
  <2> DEFINE k == nd[pc]
  <2>1. /\ k \in DOMAIN ast /\ ast[k].op = "call" /\ instrs[pc].sym = ast[k].v
        /\ Len(GivenBy(instrs[pc])) = Len(Leaves(ast)[ast[k].l])
    BY <1>1, <1>2, <1>5, GivenToNode
  <2>2. k \in Nodes({"call"}) /\ Len(Leaves(ast)[ast[k].l]) < Symbols[ast[k].v].expects
    BY <1>5, <2>1 DEF Nodes
  <2> HIDE DEF k
  <2> QED BY <1>3, <1>5, <2>2, CrashDeserved
<1>6. CASE Result = Null /\ StopWith("crashed")
  <2>1. ASSUME IsExpression PROVE FALSE
    <3> DEFINE root == Len(ast)
    <3>1. /\ ast[root].op \in Expressions /\ Result = CellFor(below, root) /\ root \in 1..root
          /\ root = Len(below)
      BY <1>1, <1>2, <2>1, ResultIsRoot DEF Running, AllCompiled
    <3>2. below[root] \in Seq(Cells) /\ below[root] # <<>>
      BY <1>1, <3>1, QueueFacts DEF AllLive, SomeCell, Expressions, Operators
    <3>3. CellFor(below, root) \in Cells
      BY <3>2 DEF CellFor
    <3> QED BY <1>6, <3>1, <3>3, SymbolFacts DEF Cells, Null
  <2> QED BY <1>3, <1>6, <2>1, CrashDeserved
<1>7. CASE ExecuteHandler
  BY <1>1, <1>4, <1>7 DEF ExecuteHandler
<1>8. CASE ExecuteCall
  BY <1>1, <1>4, <1>5, <1>8 DEF ExecuteCall, GivenBy
<1>9. CASE FinishCondition \/ FinishAction
  BY <1>4, <1>6, <1>9 DEF FinishCondition, FinishAction
<1> QED BY <1>7, <1>8, <1>9 DEF Execute

LEMMA InitDeserved == Init => OutcomeInv
<1> SUFFICES ASSUME Init PROVE OutcomeInv
  OBVIOUS
<1>1. phase = "compiling" /\ pc = 0 /\ Len(below) = 0 /\ Len(regs) = 0 /\ Len(instrs) = 0
  BY DEF Init
<1>2. \A S : CountTo(S, 0) = 0
  BY CountFacts
<1>3. SenseSoFar
  BY <1>1, <1>2 DEF SenseSoFar
<1> QED BY <1>1, <1>3 DEF OutcomeInv, OutcomeIsDeserved

LEMMA NextDeserved == MeaningInv /\ OutcomeInv /\ [Next]_vars => OutcomeInv'
<1> SUFFICES ASSUME MeaningInv, OutcomeInv, [Next]_vars PROVE OutcomeInv'
  OBVIOUS
<1>1. CASE Compile
  BY <1>1, CompileDeserved DEF MeaningInv, Compiled
<1>2. CASE Begin
  <2>1. HasCode /\ HasCode' /\ UNCHANGED <<ast, below, regs, instrs>>
    BY <1>2 DEF Begin, HasCode
  <2> QED BY <2>1, CodeDeserved
<1>3. CASE Execute
  BY <1>3, ExecuteDeserved
<1>4. CASE UNCHANGED vars
  <2>1. UNCHANGED <<ast, phase, below, regs, instrs, pc>>
    BY <1>4 DEF vars
  <2>2. /\ MakesSense' = MakesSense /\ InstrsNeeded' = InstrsNeeded /\ ArgsNeeded' = ArgsNeeded
        /\ RegsNeeded' = RegsNeeded /\ SenseSoFar' = SenseSoFar
        /\ Nodes({"call"})' = Nodes({"call"}) /\ IsExpression' = IsExpression
    BY <2>1 DEF MakesSense, InstrsNeeded, ArgsNeeded, RegsNeeded, Nodes, StatefulCalls, SenseSoFar,
                RegisterNodes, InstrNodes, IsExpression
  <2>3. OutcomeIsDeserved'
    BY <2>1, <2>2 DEF OutcomeInv, OutcomeIsDeserved
  <2> QED BY <2>1, <2>2, <2>3 DEF OutcomeInv, HasCode
<1> QED BY <1>1, <1>2, <1>3, <1>4 DEF Next

\* A script is refused, accepted or brings the program down just when its tree, read
\* without the compiler, says that it makes no sense or needs too much, that it can be
\* evaluated, or that it lacks a register, an argument or a result (instr_compile_ast,
\* allocate_register, instr_queue_exec).
THEOREM EintOutcomeIsDeserved == Spec => []OutcomeIsDeserved
<1>1. Init => MeaningInv /\ OutcomeInv
  BY InitMeaning, InitDeserved
<1>2. MeaningInv /\ OutcomeInv /\ [Next]_vars => (MeaningInv /\ OutcomeInv)'
  BY NextMeaning, NextDeserved
<1>3. OutcomeInv => OutcomeIsDeserved
  BY DEF OutcomeInv
<1> QED BY <1>1, <1>2, <1>3, PTL DEF Spec
=============================================================================
