----------------------------- MODULE FsmProofs ------------------------------
(***************************************************************************)
(* Proofs about the FSM library: Fsm, for every forest of machines, every  *)
(* condition and every duration; at the end ClkMux, for every set of       *)
(* sources and every bound.  The two share nothing but this module; ClkMux *)
(* has names of its own for its initial states and its specification.      *)
(***************************************************************************)
EXTENDS Fsm, ClkMux, TLAPS

\* The positions of the lists that can be scanned, and the ends of the scan.
ScanInv ==
    /\ at.root > 0 /\ at.trans > 0 => cur[at.machine] # End[at.machine]
    /\ at.root = 0 => at = Idle

OwnerInv == \A f \in Machines : Owner[cur[f]] = f

IInv ==
    /\ TypeOK
    /\ ScanInv
    /\ OwnerInv
    /\ TimeoutsMeasureEntry
    /\ NestedStartsAfresh
    /\ StateVarIsState

-----------------------------------------------------------------------------
LEMMA RootFacts ==
    /\ Len(Roots) \in Nat \ {0}
    /\ DOMAIN Roots = 1..Len(Roots)
    /\ \A i \in 1..Len(Roots) : Roots[i] \in Machines
<1>1. Roots \in Seq(Machines) /\ Roots # <<>>
  BY FsmAssumption
<1> QED
  BY <1>1

LEMMA ListFacts ==
    ASSUME NEW s \in States
    PROVE  /\ Len(Trans[s]) \in Nat
           /\ DOMAIN Trans[s] = 1..Len(Trans[s])
           /\ \A i \in DOMAIN Trans[s] : Trans[s][i] \in Transitions
<1>1. Trans[s] \in Seq(Transitions)
  BY FsmAssumption
<1> QED
  BY <1>1

\* The machine nested in a state, if there is one.
LEMMA NestedFacts ==
    ASSUME NEW s \in States, Nested[s] # NoMachine
    PROVE  Nested[s] \in Machines /\ Nested[s] \notin RootMachines
<1>1. Nested[s] \in Machines
  BY FsmAssumption
<1> QED
  BY <1>1, TreeAssumption DEF RootMachines

LEMMA IdleType == Idle \in [root : 0..Len(Roots), machine : Machines, trans : Nat]
  BY RootFacts DEF Idle

LEMMA OlderType ==
    ASSUME NEW S, NEW a \in [S -> Ages]
    PROVE  /\ Older(a) \in [S -> Ages]
           /\ \A x \in S : Older(a)[x] = IF a[x] < MaxAge THEN a[x] + 1 ELSE MaxAge
<1>1. MaxAge \in Nat
  BY FsmAssumption
<1>2. DOMAIN a = S /\ \A x \in S : a[x] \in 0..MaxAge
  BY DEF Ages
<1> QED
  BY <1>1, <1>2 DEF Older, Ages

LEMMA InitIInv == Init => IInv
<1> SUFFICES ASSUME Init PROVE IInv
  OBVIOUS
<1>1. MaxAge \in Ages
  BY FsmAssumption DEF Ages
<1>2. TypeOK
  <2>0. at.trans = 0 /\ at.machine \in Machines
    BY RootFacts DEF Init, Idle
  <2>1. at.trans = 0 /\ cur[at.machine] \in States
    BY <2>0, FsmAssumption DEF Init
  <2>2. at.trans <= Len(Trans[cur[at.machine]]) + 1
    BY <2>1, ListFacts
  <2>3. actAge \in [Transitions -> Ages]
    BY DEF Init
  <2> QED
    BY <1>1, <2>2, <2>3, FsmAssumption, IdleType DEF Init, TypeOK
<1>3. ScanInv /\ OwnerInv
  BY TreeAssumption DEF Init, ScanInv, OwnerInv, Idle
<1>4. TimeoutsMeasureEntry /\ NestedStartsAfresh /\ StateVarIsState
  BY DEF Init, TimeoutsMeasureEntry, NestedStartsAfresh, StateVarIsState
<1> QED
  BY <1>2, <1>3, <1>4 DEF IInv

-----------------------------------------------------------------------------
(* What the parts of a step do.                                            *)

AtType == [root : 0..Len(Roots), machine : Machines, trans : Nat]

LEMMA NextRootEffect ==
    ASSUME at \in AtType, at.root > 0, NextRoot
    PROVE  at' \in AtType /\ at'.trans = 0 /\ (at'.root = 0 => at' = Idle)
<1>1. CASE at.root = Len(Roots)
  BY <1>1, IdleType, RootFacts DEF NextRoot, AtType, Idle
<1>2. CASE at.root # Len(Roots)
  <2>1. at.root + 1 \in 1..Len(Roots)
    BY <1>2, RootFacts DEF AtType
  <2>2. at' = [root |-> at.root + 1, machine |-> Roots[at.root + 1], trans |-> 0]
    BY <1>2 DEF NextRoot
  <2> QED
    BY <2>1, <2>2, RootFacts DEF AtType
<1> QED
  BY <1>1, <1>2

LEMMA DescendEffect ==
    ASSUME at \in AtType, at.root > 0, NEW s \in States, Descend(s)
    PROVE  at' \in AtType /\ at'.trans = 0 /\ (at'.root = 0 => at' = Idle)
<1>1. CASE Nested[s] = NoMachine
  BY <1>1, NextRootEffect DEF Descend
<1>2. CASE Nested[s] # NoMachine
  <2>1. Nested[s] \in Machines
    BY <1>2, NestedFacts
  <2>2. at' = [at EXCEPT !.machine = Nested[s], !.trans = 0]
    BY <1>2 DEF Descend
  <2>3. at'.root = at.root /\ at'.machine = Nested[s] /\ at'.trans = 0 /\ at' \in AtType
    BY <2>1, <2>2 DEF AtType
  <2>4. at.root # 0
    BY DEF AtType
  <2> QED
    BY <2>3, <2>4
<1> QED
  BY <1>1, <1>2

\* The machine and the transition an update is concerned with.
LEMMA TryFacts ==
    ASSUME TypeOK, NEW f \in Machines, Trying(f)
    PROVE  /\ cur[f] \in States
           /\ at.trans \in DOMAIN Trans[cur[f]]
           /\ Tried(f) \in Transitions
           /\ To[Tried(f)] \in States
           /\ Cond[Tried(f)].on \in Inputs
<1>1. cur[f] \in States
  BY DEF TypeOK
<1>2. Tried(f) \in Transitions
  BY <1>1, ListFacts DEF Trying, Tried
<1>3. Cond[Tried(f)] \in Conds /\ To[Tried(f)] \in States
  BY <1>2, FsmAssumption
<1> QED
  BY <1>1, <1>2, <1>3 DEF Trying, Conds

\* A transition of f to d changes the current state of f, and of the machine
\* nested in d, which is a different one, to its "_begin_".
LEMMA FireEffect ==
    ASSUME TypeOK, OwnerInv, NEW f \in Machines, FireTransition(f)
    PROVE  \E d \in States :
              /\ Owner[d] = f
              /\ cur' = [g \in Machines |-> IF g = f THEN d
                                           ELSE IF g = Nested[d] THEN Begin[g] ELSE cur[g]]
              /\ ActivateTransitions(d)
              /\ stateVar' = [stateVar EXCEPT ![f] = d]
              /\ entAge' = [entAge EXCEPT ![f] = 0]
              /\ Descend(d)
<1>1. Trying(f)
  BY DEF FireTransition
<1> DEFINE d == To[Tried(f)]
<1>2. d \in States /\ cur[f] \in States
  BY <1>1, TryFacts
<1>3. Owner[d] = f
  BY <1>1, TryFacts, TreeAssumption DEF Tried, OwnerInv
<1> QED
  BY <1>2, <1>3 DEF FireTransition, MoveTo, Actualize, AfterFiring

-----------------------------------------------------------------------------
LEMMA TypeStep == TypeOK /\ [Next]_vars => TypeOK'
<1> SUFFICES ASSUME TypeOK, [Next]_vars PROVE TypeOK'
  OBVIOUS
<1>1. at \in AtType
  BY DEF TypeOK, AtType
<1>2. \A s \in States : 0 <= Len(Trans[s]) + 1
  BY ListFacts
<1>3. CASE Tick
  <2>1. /\ actAge' \in [Transitions -> Ages] /\ armAge' \in [Transitions -> Ages]
        /\ entAge' \in [Machines -> Ages] /\ falseAge' \in [Inputs -> Ages]
    BY <1>3, OlderType DEF Tick, TypeOK
  <2> QED
    BY <1>3, <2>1 DEF Tick, TypeOK
<1>4. CASE ReadInputs
  <2>1. at' \in AtType /\ at'.trans = 0
    BY <1>4, RootFacts DEF ReadInputs, AtType
  <2>2. falseAge' \in [Inputs -> Ages]
    BY <1>4, FsmAssumption DEF ReadInputs, TypeOK, Ages
  <2>3. at'.trans <= Len(Trans[cur'[at'.machine]]) + 1
    BY <1>2, <1>4, <2>1 DEF ReadInputs, TypeOK, AtType
  <2> QED
    BY <1>4, <2>1, <2>2, <2>3 DEF ReadInputs, TypeOK, AtType
<1>5. ASSUME NEW f \in Machines, BeginUpdate(f) \/ EndScan(f) PROVE TypeOK'
  <2>1. at' \in AtType /\ (at'.trans = 0 \/ (at'.trans = 1 /\ at'.machine = at.machine))
    <3>1. at.root > 0 /\ cur[f] \in States
      BY <1>5 DEF BeginUpdate, EndScan, Updating, TypeOK
    <3>2. CASE BeginUpdate(f)
      BY <1>1, <3>1, <3>2, NextRootEffect DEF BeginUpdate, AtType
    <3>3. CASE EndScan(f)
      BY <1>1, <3>1, <3>3, DescendEffect DEF EndScan
    <3> QED
      BY <1>5, <3>2, <3>3
  <2>2. cur'[at'.machine] \in States /\ UNCHANGED cur
    BY <1>5, <2>1 DEF BeginUpdate, EndScan, TypeOK, AtType
  <2>3. at'.trans <= Len(Trans[cur'[at'.machine]]) + 1
    BY <2>1, <2>2, ListFacts
  <2> QED
    BY <1>5, <2>1, <2>3 DEF BeginUpdate, EndScan, TypeOK, AtType
<1>6. ASSUME NEW f \in Machines, PassTransition(f) PROVE TypeOK'
  <2>1. Trying(f) /\ at' = [at EXCEPT !.trans = @ + 1] /\ UNCHANGED cur
    BY <1>6 DEF PassTransition
  <2>2. Tried(f) \in Transitions /\ Cond[Tried(f)].on \in Inputs /\ cur[f] \in States
    BY <2>1, TryFacts
  <2>3. armed' \in [Transitions -> BOOLEAN]
    BY <1>6, <2>2 DEF PassTransition, ArmedAfter, TypeOK
  <2>4. armAge' \in [Transitions -> Ages]
    <3>1. armAge' = armAge \/ armAge' = [armAge EXCEPT ![Tried(f)] = 0]
      BY <1>6 DEF PassTransition
    <3>2. 0 \in Ages
      BY FsmAssumption DEF Ages
    <3> QED
      BY <2>2, <3>1, <3>2 DEF TypeOK
  <2>5. at' \in AtType /\ at'.machine = f /\ at'.trans <= Len(Trans[cur[f]]) + 1
    BY <1>1, <2>1, <2>2, ListFacts DEF AtType, Trying, Updating
  <2> QED
    BY <1>6, <2>3, <2>4, <2>5 DEF PassTransition, TypeOK, AtType
<1>7. ASSUME NEW f \in Machines, FireTransition(f) PROVE TypeOK'
  <2> DEFINE d == To[Tried(f)]
  <2>1. Trying(f) /\ at.root > 0
    BY <1>7 DEF FireTransition, Trying, Updating
  <2>2. d \in States
    BY <2>1, TryFacts
  <2>3. cur' \in [Machines -> States]
    BY <1>7, <2>2, FsmAssumption DEF FireTransition, MoveTo, TypeOK
  <2>4. at' \in AtType /\ at'.trans = 0
    BY <1>1, <1>7, <2>1, <2>2, DescendEffect DEF FireTransition, AfterFiring
  <2>5. at'.trans <= Len(Trans[cur'[at'.machine]]) + 1
    BY <1>2, <2>3, <2>4 DEF AtType
  <2>6. actAge' \in [Transitions -> Ages] /\ armed' \in [Transitions -> BOOLEAN]
    BY <1>7, FsmAssumption DEF FireTransition, ActivateTransitions, TypeOK, Ages
  <2>7. /\ stateVar' \in [Machines -> States]
        /\ entAge' \in [Machines -> Ages]
        /\ moves' \in [Machines -> Nat]
    <3>1. 0 \in Ages
      BY FsmAssumption DEF Ages
    <3>2. stateVar' \in [Machines -> States]
      BY <1>7, <2>2 DEF FireTransition, Actualize, TypeOK
    <3>3. entAge' \in [Machines -> Ages] /\ moves' \in [Machines -> Nat]
      BY <1>7, <3>1 DEF FireTransition, TypeOK
    <3> QED
      BY <3>2, <3>3
  <2> QED
    BY <1>7, <2>3, <2>4, <2>5, <2>6, <2>7 DEF FireTransition, TypeOK, AtType
<1>8. CASE UNCHANGED vars
  BY <1>8 DEF vars, TypeOK
<1> QED
  BY <1>3, <1>4, <1>5, <1>6, <1>7, <1>8 DEF Next, Update

-----------------------------------------------------------------------------
(* The other invariants only change when time passes or a machine moves.   *)

Quiet == UNCHANGED <<cur, actAge, stateVar, entAge>>

LEMMA StepKinds ==
    ASSUME [Next]_vars
    PROVE  Quiet \/ Tick \/ \E f \in Machines : FireTransition(f)
<1>1. ReadInputs \/ UNCHANGED vars => Quiet
  BY DEF ReadInputs, vars, Quiet
<1>2. \A f \in Machines : BeginUpdate(f) \/ PassTransition(f) \/ EndScan(f) => Quiet
  BY DEF BeginUpdate, PassTransition, EndScan, Quiet
<1> QED
  BY <1>1, <1>2 DEF Next, Update

LEMMA ScanStep == TypeOK /\ ScanInv /\ [Next]_vars => ScanInv'
<1> SUFFICES ASSUME TypeOK, ScanInv, [Next]_vars PROVE ScanInv'
  OBVIOUS
<1>1. at \in AtType
  BY DEF TypeOK, AtType
<1>2. CASE Tick \/ UNCHANGED vars
  BY <1>2 DEF Tick, vars, ScanInv, Idle
<1>3. CASE ReadInputs
  BY <1>3 DEF ReadInputs, ScanInv, Idle
<1>4. ASSUME NEW f \in Machines, BeginUpdate(f) PROVE ScanInv'
  <2>1. at.root > 0 /\ at.machine = f /\ UNCHANGED cur
    BY <1>4 DEF BeginUpdate, Updating
  <2>2. CASE cur[f] = End[f]
    BY <1>1, <1>4, <2>1, <2>2, NextRootEffect DEF BeginUpdate, ScanInv, Idle, AtType
  <2>3. CASE cur[f] # End[f]
    <3>1. at' = [at EXCEPT !.trans = 1]
      BY <1>4, <2>3 DEF BeginUpdate
    <3> QED
      BY <1>1, <2>1, <2>3, <3>1 DEF ScanInv, AtType
  <2> QED
    BY <2>2, <2>3
<1>5. ASSUME NEW f \in Machines, PassTransition(f) PROVE ScanInv'
  <2>1. at.root > 0 /\ at.machine = f /\ at.trans \in DOMAIN Trans[cur[f]] /\ UNCHANGED cur
    BY <1>5 DEF PassTransition, Trying, Updating
  <2>2. at' = [at EXCEPT !.trans = @ + 1]
    BY <1>5 DEF PassTransition
  <2>3. at.trans > 0
    BY <2>1, ListFacts DEF TypeOK
  <2> QED
    BY <1>1, <2>1, <2>2, <2>3 DEF ScanInv, AtType
<1>6. ASSUME NEW f \in Machines, EndScan(f) \/ FireTransition(f) PROVE ScanInv'
  <2>1. at' \in AtType /\ at'.trans = 0 /\ (at'.root = 0 => at' = Idle)
    <3>1. CASE EndScan(f)
      BY <1>1, <3>1, DescendEffect DEF EndScan, Updating, TypeOK
    <3>2. CASE FireTransition(f)
      BY <1>1, <3>2, DescendEffect, TryFacts
         DEF FireTransition, AfterFiring, Trying, Updating
    <3> QED
      BY <1>6, <3>1, <3>2
  <2> QED
    BY <2>1 DEF ScanInv, AtType, Idle
<1> QED
  BY <1>2, <1>3, <1>4, <1>5, <1>6 DEF Next, Update

LEMMA OwnerStep == TypeOK /\ OwnerInv /\ [Next]_vars => OwnerInv'
<1> SUFFICES ASSUME TypeOK, OwnerInv, [Next]_vars PROVE OwnerInv'
  OBVIOUS
<1>1. CASE Quiet \/ Tick
  BY <1>1 DEF Quiet, Tick, OwnerInv
<1>2. ASSUME NEW f \in Machines, FireTransition(f) PROVE OwnerInv'
  BY <1>2, FireEffect, TreeAssumption DEF OwnerInv
<1> QED
  BY <1>1, <1>2, StepKinds

LEMMA TimeoutStep == TypeOK /\ OwnerInv /\ TimeoutsMeasureEntry /\ [Next]_vars
                        => TimeoutsMeasureEntry'
<1> SUFFICES ASSUME TypeOK, OwnerInv, TimeoutsMeasureEntry, [Next]_vars,
                    NEW g \in Machines, cur'[g] # Begin[g],
                    NEW i \in DOMAIN Trans[cur'[g]]
             PROVE  actAge'[Trans[cur'[g]][i]] = entAge'[g]
  BY DEF TimeoutsMeasureEntry
<1>1. cur'[g] \in States
  BY TypeStep DEF TypeOK
<1>2. Trans[cur'[g]][i] \in Transitions
  BY <1>1, ListFacts
<1>3. CASE Quiet
  BY <1>3 DEF Quiet, TimeoutsMeasureEntry
<1>4. CASE Tick
  <2>1. actAge[Trans[cur[g]][i]] = entAge[g]
    BY <1>4 DEF Tick, TimeoutsMeasureEntry
  <2>2. actAge \in [Transitions -> Ages] /\ entAge \in [Machines -> Ages]
    BY DEF TypeOK
  <2>3. actAge' = Older(actAge) /\ entAge' = Older(entAge) /\ cur' = cur
    BY <1>4 DEF Tick
  <2>4. Trans[cur[g]][i] \in Transitions
    BY <1>2, <2>3
  <2>5. /\ Older(actAge)[Trans[cur[g]][i]]
             = IF actAge[Trans[cur[g]][i]] < MaxAge THEN actAge[Trans[cur[g]][i]] + 1 ELSE MaxAge
        /\ Older(entAge)[g] = IF entAge[g] < MaxAge THEN entAge[g] + 1 ELSE MaxAge
    BY <2>2, <2>4, OlderType
  <2>6. Older(actAge)[Trans[cur[g]][i]] = Older(entAge)[g]
    BY <2>1, <2>5
  <2> QED
    BY <2>3, <2>6
<1>5. ASSUME NEW f \in Machines, FireTransition(f)
      PROVE  actAge'[Trans[cur'[g]][i]] = entAge'[g]
  <2>1. PICK d \in States :
              /\ Owner[d] = f
              /\ cur' = [h \in Machines |-> IF h = f THEN d
                                           ELSE IF h = Nested[d] THEN Begin[h] ELSE cur[h]]
              /\ ActivateTransitions(d)
              /\ entAge' = [entAge EXCEPT ![f] = 0]
    BY <1>5, FireEffect
  <2>2. CASE g = f
    <3>1. cur'[g] = d
      BY <2>1, <2>2
    <3>2. entAge'[g] = 0
      BY <2>1, <2>2 DEF TypeOK
    <3>3. Trans[d][i] \in {Trans[d][k] : k \in DOMAIN Trans[d]}
      BY <3>1
    <3>4. actAge'[Trans[d][i]] = 0
      BY <1>2, <2>1, <3>1, <3>3 DEF ActivateTransitions
    <3> QED
      BY <3>1, <3>2, <3>4
  <2>3. CASE g # f
    \* g stays where it is, in a state of its own.
    <3>1. cur'[g] = cur[g] /\ entAge'[g] = entAge[g]
      BY <2>1, <2>3 DEF TypeOK
    <3>2. cur[g] # d
      BY <2>1, <2>3 DEF OwnerInv
    <3>3. \A k \in DOMAIN Trans[d] : Trans[cur[g]][i] # Trans[d][k]
      BY <1>1, <2>1, <3>1, <3>2, TreeAssumption
    <3>4. actAge'[Trans[cur[g]][i]] = actAge[Trans[cur[g]][i]]
      BY <1>2, <2>1, <3>1, <3>3 DEF ActivateTransitions
    <3> QED
      BY <3>1, <3>4 DEF TimeoutsMeasureEntry
  <2> QED
    BY <2>2, <2>3
<1> QED
  BY <1>3, <1>4, <1>5, StepKinds

LEMMA NestedStep == TypeOK /\ OwnerInv /\ NestedStartsAfresh /\ [Next]_vars
                       => NestedStartsAfresh'
<1> SUFFICES ASSUME TypeOK, OwnerInv, NestedStartsAfresh, [Next]_vars,
                    NEW g \in Machines,
                    Nested[cur'[g]] # NoMachine,
                    cur'[Nested[cur'[g]]] # Begin[Nested[cur'[g]]],
                    cur'[g] # Begin[g]
             PROVE  entAge'[Nested[cur'[g]]] <= entAge'[g]
  BY DEF NestedStartsAfresh
<1> DEFINE n == Nested[cur'[g]]
<1>1. cur'[g] \in States /\ n \in Machines
  BY TypeStep, NestedFacts DEF TypeOK
<1>2. entAge \in [Machines -> Nat] /\ entAge \in [Machines -> Ages] /\ MaxAge \in Nat
  <2>1. entAge \in [Machines -> Ages] /\ MaxAge \in Nat
    BY FsmAssumption DEF TypeOK
  <2>2. \A x \in Machines : entAge[x] \in Nat
    BY <2>1 DEF Ages
  <2> QED
    BY <2>1, <2>2
<1>3. CASE Quiet
  BY <1>3 DEF Quiet, NestedStartsAfresh
<1>4. CASE Tick
  <2>1. entAge[n] <= entAge[g]
    BY <1>4 DEF Tick, NestedStartsAfresh
  <2>2. \A x \in Machines : entAge'[x] = IF entAge[x] < MaxAge THEN entAge[x] + 1 ELSE MaxAge
    BY <1>2, <1>4, OlderType DEF Tick
  <2>3. entAge[n] \in 0..MaxAge /\ entAge[g] \in 0..MaxAge
    BY <1>1, <1>2 DEF Ages
  <2> QED
    BY <1>1, <1>2, <2>1, <2>2, <2>3
<1>5. ASSUME NEW f \in Machines, FireTransition(f)
      PROVE  entAge'[n] <= entAge'[g]
  <2>1. PICK d \in States :
              /\ Owner[d] = f
              /\ cur' = [h \in Machines |-> IF h = f THEN d
                                           ELSE IF h = Nested[d] THEN Begin[h] ELSE cur[h]]
              /\ entAge' = [entAge EXCEPT ![f] = 0]
    BY <1>5, FireEffect
  <2>2. CASE n = f
    BY <1>2, <2>1, <2>2 DEF TypeOK
  <2>3. CASE n # f /\ g = f
    \* The host just entered its state: the nested machine has been reset.
    <3>1. n = Nested[d]
      BY <2>1, <2>3
    <3>2. cur'[n] = Begin[n]
      BY <1>1, <2>1, <2>3, <3>1
    <3> QED
      BY <3>2
  <2>4. CASE n # f /\ g # f
    <3>1. cur'[g] = cur[g]
      BY <2>1, <2>4
    <3>2. cur'[n] = cur[n] /\ entAge'[n] = entAge[n] /\ entAge'[g] = entAge[g]
      BY <1>1, <1>2, <2>1, <2>4
    <3> QED
      BY <3>1, <3>2 DEF NestedStartsAfresh
  <2> QED
    BY <2>2, <2>3, <2>4
<1> QED
  BY <1>3, <1>4, <1>5, StepKinds

LEMMA StateVarStep == TypeOK /\ OwnerInv /\ StateVarIsState /\ [Next]_vars
                         => StateVarIsState'
<1> SUFFICES ASSUME TypeOK, OwnerInv, StateVarIsState, [Next]_vars,
                    NEW g \in Machines
             PROVE  stateVar'[g] = cur'[g] \/ (g \notin RootMachines /\ cur'[g] = Begin[g])
  BY DEF StateVarIsState, RootMachines
<1>1. CASE Quiet \/ Tick
  BY <1>1 DEF Quiet, Tick, StateVarIsState
<1>2. ASSUME NEW f \in Machines, FireTransition(f)
      PROVE  stateVar'[g] = cur'[g] \/ (g \notin RootMachines /\ cur'[g] = Begin[g])
  <2>1. PICK d \in States :
              /\ cur' = [h \in Machines |-> IF h = f THEN d
                                           ELSE IF h = Nested[d] THEN Begin[h] ELSE cur[h]]
              /\ stateVar' = [stateVar EXCEPT ![f] = d]
    BY <1>2, FireEffect
  <2>2. CASE g = f
    BY <2>1, <2>2 DEF TypeOK
  <2>3. CASE g # f /\ g = Nested[d]
    \* The reset that does not write the symbol.
    <3>1. g \notin RootMachines
      BY <2>3, NestedFacts, FsmAssumption
    <3> QED
      BY <2>1, <2>3, <3>1
  <2>4. CASE g # f /\ g # Nested[d]
    BY <2>1, <2>4 DEF StateVarIsState, TypeOK
  <2> QED
    BY <2>2, <2>3, <2>4
<1> QED
  BY <1>1, <1>2, StepKinds

\* A top-level machine in "_end_" is not scanned, so no transition of it can
\* fire, and no other machine's transition resets it.
LEMMA EndStep == TypeOK /\ ScanInv /\ OwnerInv /\ [Next]_vars
                    => (\A r \in RootMachines : cur[r] = End[r] => cur'[r] = End[r])
<1> SUFFICES ASSUME TypeOK, ScanInv, OwnerInv, [Next]_vars,
                    NEW r \in RootMachines, cur[r] = End[r]
             PROVE  cur'[r] = End[r]
  OBVIOUS
<1>0. r \in Machines
  BY RootFacts DEF RootMachines
<1>1. CASE Quiet \/ Tick
  BY <1>1 DEF Quiet, Tick
<1>2. ASSUME NEW f \in Machines, FireTransition(f)
      PROVE  cur'[r] = End[r]
  <2>1. PICK d \in States :
              cur' = [h \in Machines |-> IF h = f THEN d
                                         ELSE IF h = Nested[d] THEN Begin[h] ELSE cur[h]]
    BY <1>2, FireEffect
  <2>2. r # f
    <3>1. at.root > 0 /\ at.machine = f /\ at.trans \in DOMAIN Trans[cur[f]]
      BY <1>2 DEF FireTransition, Trying, Updating
    <3>2. at.trans > 0
      BY <3>1, ListFacts DEF TypeOK
    <3> QED
      BY <3>1, <3>2 DEF ScanInv
  <2>3. r # Nested[d]
    BY <1>0, NestedFacts, FsmAssumption
  <2> QED
    BY <1>0, <2>1, <2>2, <2>3
<1> QED
  BY <1>1, <1>2, StepKinds

-----------------------------------------------------------------------------
(* One execution, from the reading of the inputs on.  The invariant speaks  *)
(* of the set of machines it has been through already: nobody writes that   *)
(* set down, but one exists in every state.                                 *)

\* Every machine hosted by the current state of a machine in C is in C.
Closed(c, C) == \A h \in C : Nested[c[h]] \in C \cup {NoMachine}

\* The machines reachable from the top-level ones through current states.
Live(c) ==
    {f \in Machines : \A C \in SUBSET Machines :
                         RootMachines \subseteq C /\ Closed(c, C) => f \in C}

\* How an execution gets to m: it is one of the first k top-level machines, or
\* nested in a state of a machine in D.
Led(k, m, D) ==
    \/ \E i \in 1..k : m = Roots[i]
    \/ \E s \in States : Nested[s] = m /\ Owner[s] \in D

\* D is what the execution, now at p, has been through.
Visited(c, p, D) ==
    /\ p.machine \notin D
    /\ \A m \in D \cup {p.machine} : Led(p.root, m, D)
    /\ \A i \in 1..p.root : Roots[i] \in D \cup {p.machine}
    /\ \A h \in D : Nested[c[h]] \in D \cup {p.machine, NoMachine}

\* The execution has yet to try the i-th transition of f.
Pending(p, D, f, i) == p.root > 0 /\ f \notin D /\ (f = p.machine => p.trans <= i)

\* The states whose trueduring conditions started when the state was entered.
Entered(f) == cur[f] # End[f] /\ (f \in RootMachines \/ cur[f] # Begin[f])

\* The condition of the i-th transition of f counts what it should, or will
\* see the false reading when it is tried.
CountsRightly(D, f, i) ==
    LET t == Trans[cur[f]][i]
        x == Cond[t].on
    IN  Cond[t].kind = "trueduring" /\ armed[t] =>
          /\ cur[f] # Begin[f] => armAge[t] <= entAge[f]
          /\ armAge[t] <= falseAge[x] \/ (Pending(at, D, f, i) /\ ~in[x])

Counted(D) ==
    \A f \in Live(cur) : Entered(f) => \A i \in DOMAIN Trans[cur[f]] : CountsRightly(D, f, i)

Moved(D) ==
    /\ \A f \in Machines : moves[f] <= 1
    /\ at.root > 0 => \A f \in Machines \ D : moves[f] = 0

\* The machine being updated is reachable, or was reset just now.
AtLive ==
    at.root > 0 => \/ at.machine \in Live(cur)
                   \/ cur[at.machine] = Begin[at.machine] /\ at.machine \notin RootMachines

Round(D) ==
    /\ at.root > 0 => Visited(cur, at, D)
    /\ Moved(D)
    /\ Counted(D)
    /\ AtLive

RoundInv == \E D \in SUBSET Machines : Round(D)

-----------------------------------------------------------------------------
LEMMA LiveRoots == ASSUME NEW c PROVE RootMachines \subseteq Live(c)
  BY RootFacts DEF Live, RootMachines

LEMMA LiveNested ==
    ASSUME NEW c \in [Machines -> States], NEW h \in Live(c), Nested[c[h]] # NoMachine
    PROVE  Nested[c[h]] \in Live(c)
<1>1. h \in Machines /\ c[h] \in States
  BY DEF Live
<1>2. Nested[c[h]] \in Machines
  BY <1>1, NestedFacts
<1>3. ASSUME NEW C \in SUBSET Machines, RootMachines \subseteq C, Closed(c, C)
      PROVE  Nested[c[h]] \in C
  <2>1. h \in C
    BY <1>3 DEF Live
  <2> QED
    BY <1>3, <2>1 DEF Closed
<1> QED
  BY <1>2, <1>3 DEF Live

LEMMA LiveLeast ==
    ASSUME NEW c, NEW C \in SUBSET Machines, RootMachines \subseteq C, Closed(c, C)
    PROVE  Live(c) \subseteq C
  BY DEF Live

\* A transition makes reachable at most the machine nested in its target, in
\* its "_begin_", where nothing is nested.
LEMMA LiveAfterFiring ==
    ASSUME NEW c \in [Machines -> States], NEW f \in Machines, NEW d \in States,
           NEW e, \A g \in Machines : e[g] = IF g = f THEN d
                                            ELSE IF g = Nested[d] THEN Begin[g] ELSE c[g]
    PROVE  Live(e) \subseteq Live(c) \cup {f, Nested[d]}
<1> DEFINE C == (Live(c) \cup {f, Nested[d]}) \ {NoMachine}
<1>1. C \subseteq Machines
  BY FsmAssumption DEF Live
<1>2. RootMachines \subseteq C
  <2>1. RootMachines \subseteq Live(c)
    BY LiveRoots
  <2>2. NoMachine \notin RootMachines
    BY RootFacts, FsmAssumption DEF RootMachines
  <2> QED
    BY <2>1, <2>2
<1>3. ASSUME NEW h \in C PROVE Nested[e[h]] \in C \cup {NoMachine}
  <2>0. h \in Machines
    BY <1>1
  <2>1. CASE h = f
    BY <2>0, <2>1
  <2>2. CASE h # f /\ h = Nested[d]
    <3>1. e[h] = Begin[h]
      BY <2>0, <2>2
    <3> QED
      BY <2>0, <3>1, TreeAssumption
  <2>3. CASE h # f /\ h # Nested[d]
    <3>1. e[h] = c[h] /\ h \in Live(c)
      BY <2>0, <2>3
    <3>2. CASE Nested[c[h]] = NoMachine
      BY <3>1, <3>2
    <3>3. CASE Nested[c[h]] # NoMachine
      BY <3>1, <3>3, LiveNested
    <3> QED
      BY <3>1, <3>2, <3>3
  <2> QED
    BY <2>1, <2>2, <2>3
<1>4. Closed(e, C)
  BY <1>3 DEF Closed
<1>5. Live(e) \subseteq C
  BY <1>1, <1>2, <1>4, LiveLeast
<1> QED
  BY <1>5

\* The execution has not been through the machine it descends into ...
LEMMA NestedIsNew ==
    ASSUME NEW c, NEW p, NEW D \in SUBSET Machines, Visited(c, p, D), p.root \in 0..Len(Roots),
           NEW s \in States, Owner[s] = p.machine, Nested[s] # NoMachine
    PROVE  Nested[s] \notin D \cup {p.machine}
<1> SUFFICES ASSUME Nested[s] \in D \cup {p.machine} PROVE FALSE
  OBVIOUS
<1>1. Led(p.root, Nested[s], D)
  BY DEF Visited
<1>2. ASSUME NEW i \in 1..p.root, Nested[s] = Roots[i] PROVE FALSE
  <2>1. i \in DOMAIN Roots
    BY RootFacts
  <2> QED
    BY <1>2, <2>1, TreeAssumption
<1>3. ASSUME NEW u \in States, Nested[u] = Nested[s], Owner[u] \in D PROVE FALSE
  <2>1. u = s
    BY <1>3, TreeAssumption
  <2> QED
    BY <1>3, <2>1 DEF Visited
<1> QED
  BY <1>1, <1>2, <1>3 DEF Led

\* ... nor through the next top-level machine.
LEMMA RootIsNew ==
    ASSUME NEW c, NEW p, NEW D \in SUBSET Machines, Visited(c, p, D), p.root \in 0..Len(Roots),
           p.root # Len(Roots)
    PROVE  Roots[p.root + 1] \notin D \cup {p.machine}
<1> SUFFICES ASSUME Roots[p.root + 1] \in D \cup {p.machine} PROVE FALSE
  OBVIOUS
<1>0. p.root + 1 \in DOMAIN Roots
  BY RootFacts
<1>1. Led(p.root, Roots[p.root + 1], D)
  BY DEF Visited
<1>2. ASSUME NEW i \in 1..p.root, Roots[p.root + 1] = Roots[i] PROVE FALSE
  <2>1. i \in DOMAIN Roots /\ i # p.root + 1
    BY RootFacts
  <2> QED
    BY <1>0, <1>2, <2>1, TreeAssumption
<1>3. ASSUME NEW u \in States, Nested[u] = Roots[p.root + 1] PROVE FALSE
  BY <1>0, <1>3, TreeAssumption
<1> QED
  BY <1>1, <1>2, <1>3 DEF Led

\* The end of the update of f, in the state it is then in: the execution is at
\* a machine it has not been through, or it is over and has been through all
\* the machines that can be reached.
LEMMA Leaving ==
    ASSUME at \in AtType, NEW f \in Machines, Updating(f),
           NEW D \in SUBSET Machines, Visited(cur, at, D),
           NEW c \in [Machines -> States], Owner[c[f]] = f, \A h \in D : c[h] = cur[h],
           Descend(c[f])
    PROVE  /\ at' \in AtType /\ at'.trans = 0
           /\ at'.root > 0 => Visited(c, at', D \cup {f})
           /\ at'.root > 0 => \/ at'.machine \in RootMachines
                              \/ at'.machine = Nested[c[f]]
           /\ at'.root = 0 => Live(c) \subseteq D \cup {f}
<1> DEFINE n == Nested[c[f]]
<1>0. /\ at.root > 0 /\ at.machine = f /\ at.root \in 0..Len(Roots)
      /\ c[f] \in States /\ f \notin D
  BY DEF Updating, AtType, Visited
<1>1. at' \in AtType /\ at'.trans = 0
  BY <1>0, DescendEffect
<1>2. \A m \in D \cup {f} : Led(at.root, m, D)
  BY <1>0 DEF Visited
<1>3. \A i \in 1..at.root : Roots[i] \in D \cup {f}
  BY <1>0 DEF Visited
<1>4. \A h \in D : Nested[c[h]] \in D \cup {f, NoMachine}
  BY <1>0 DEF Visited
<1>5. CASE n # NoMachine
  <2>1. at'.root = at.root /\ at'.machine = n
    BY <1>0, <1>5 DEF Descend, AtType
  <2>2. n \notin D \cup {f}
    BY <1>0, <1>5, NestedIsNew
  <2>3. \A m \in D \cup {f} : Led(at.root, m, D \cup {f})
    BY <1>2 DEF Led
  <2>4. Led(at.root, n, D \cup {f})
    BY <1>0 DEF Led
  <2>5. \A h \in D \cup {f} : Nested[c[h]] \in D \cup {f} \cup {n, NoMachine}
    BY <1>4
  <2>6. Visited(c, at', D \cup {f})
    BY <1>3, <2>1, <2>2, <2>3, <2>4, <2>5 DEF Visited
  <2> QED
    BY <1>0, <1>1, <2>1, <2>6
<1>6. CASE n = NoMachine /\ at.root # Len(Roots)
  <2> DEFINE r == Roots[at.root + 1]
  <2>1. at'.root = at.root + 1 /\ at'.machine = r
    BY <1>6 DEF Descend, NextRoot
  <2>2. r \notin D \cup {f}
    BY <1>0, <1>6, RootIsNew
  <2>3. ASSUME NEW m \in D \cup {f} PROVE Led(at.root + 1, m, D \cup {f})
    <3>1. Led(at.root, m, D)
      BY <1>2
    <3>2. \A i \in 1..at.root : i \in 1..(at.root + 1)
      BY <1>0, RootFacts
    <3> QED
      BY <3>1, <3>2 DEF Led
  <2>4. Led(at.root + 1, r, D \cup {f})
    BY <1>0, RootFacts DEF Led
  <2>5. \A i \in 1..(at.root + 1) : Roots[i] \in D \cup {f, r}
    <3>1. \A i \in 1..(at.root + 1) : i \in 1..at.root \/ i = at.root + 1
      BY <1>0, RootFacts
    <3> QED
      BY <1>3, <3>1
  <2>6. \A h \in D \cup {f} : Nested[c[h]] \in D \cup {f} \cup {r, NoMachine}
    BY <1>4, <1>6
  <2>7. Visited(c, at', D \cup {f})
    BY <2>1, <2>2, <2>3, <2>4, <2>5, <2>6 DEF Visited
  <2>8. r \in RootMachines
    BY <1>0, <1>6, RootFacts DEF RootMachines
  <2> QED
    BY <1>0, <1>1, <2>1, <2>7, <2>8, RootFacts
<1>7. CASE n = NoMachine /\ at.root = Len(Roots)
  <2>1. at'.root = 0
    BY <1>7 DEF Descend, NextRoot, Idle
  <2>2. RootMachines \subseteq D \cup {f}
    BY <1>3, <1>7, RootFacts DEF RootMachines
  <2>3. Closed(c, D \cup {f})
    BY <1>4, <1>7 DEF Closed
  <2>4. Live(c) \subseteq D \cup {f}
    BY <2>2, <2>3, LiveLeast
  <2> QED
    BY <1>1, <2>1, <2>4
<1> QED
  BY <1>5, <1>6, <1>7

-----------------------------------------------------------------------------
LEMMA InitRound == Init => RoundInv
<1> SUFFICES ASSUME Init PROVE RoundInv
  OBVIOUS
<1>1. at.root = 0
  BY DEF Init, Idle
<1>2. Moved({})
  BY <1>1 DEF Init, Moved
<1>3. Counted({})
  <2>1. ASSUME NEW f \in Machines, NEW i \in DOMAIN Trans[cur[f]] PROVE CountsRightly({}, f, i)
    <3>1. cur[f] \in States
      BY FsmAssumption DEF Init
    <3>2. Trans[cur[f]][i] \in Transitions
      BY <3>1, ListFacts
    <3> QED
      BY <3>2 DEF Init, CountsRightly
  <2> QED
    BY <2>1 DEF Counted, Live
<1> QED
  BY <1>1, <1>2, <1>3 DEF Round, RoundInv, AtLive

\* The readings grow old together: an age that is no greater stays no greater.
LEMMA OlderMonotone ==
    ASSUME NEW S, NEW a \in [S -> Ages], NEW T, NEW b \in [T -> Ages],
           NEW x \in S, NEW y \in T, a[x] <= b[y]
    PROVE  Older(a)[x] <= Older(b)[y]
<1>1. /\ Older(a)[x] = IF a[x] < MaxAge THEN a[x] + 1 ELSE MaxAge
      /\ Older(b)[y] = IF b[y] < MaxAge THEN b[y] + 1 ELSE MaxAge
  BY OlderType
<1>2. a[x] \in Nat /\ b[y] \in Nat /\ MaxAge \in Nat
  BY FsmAssumption DEF Ages
<1> QED
  BY <1>1, <1>2

LEMMA RoundTick == ASSUME TypeOK, RoundInv, Tick PROVE RoundInv'
<1>1. PICK D \in SUBSET Machines : Round(D)
  BY DEF RoundInv
<1>2. UNCHANGED <<cur, at, moves, armed, in>>
  BY DEF Tick
<1>3. Visited(cur, at, D)' <=> Visited(cur, at, D)
  BY <1>2 DEF Visited
<1>4. Moved(D)' /\ AtLive'
  BY <1>1, <1>2 DEF Round, Moved, AtLive
<1>5. ASSUME NEW f \in Machines, NEW i \in DOMAIN Trans[cur[f]], CountsRightly(D, f, i)
      PROVE  CountsRightly(D, f, i)'
  <2> DEFINE t == Trans[cur[f]][i]
             x == Cond[t].on
  <2>1. cur[f] \in States
    BY DEF TypeOK
  <2>2. t \in Transitions
    BY <2>1, ListFacts
  <2>3. Cond[t] \in Conds
    BY <2>2, FsmAssumption
  <2>4. x \in Inputs
    BY <2>3 DEF Conds
  <2>5. /\ armAge \in [Transitions -> Ages] /\ entAge \in [Machines -> Ages]
        /\ falseAge \in [Inputs -> Ages]
    BY DEF TypeOK
  <2>6. armAge[t] <= entAge[f] => armAge'[t] <= entAge'[f]
    BY <2>2, <2>5, OlderMonotone DEF Tick
  <2>7. armAge[t] <= falseAge[x] => armAge'[t] <= falseAge'[x]
    BY <2>2, <2>4, <2>5, OlderMonotone DEF Tick
  <2> QED
    BY <1>2, <1>5, <2>6, <2>7 DEF CountsRightly
<1>6. Counted(D)'
  BY <1>1, <1>2, <1>5 DEF Round, Counted, Live, Entered
<1> QED
  BY <1>1, <1>2, <1>3, <1>4, <1>6 DEF Round, RoundInv

\* A new execution has been through nothing; what the inputs read as FALSE is
\* yet to be seen by every condition.
LEMMA RoundRead == ASSUME TypeOK, RoundInv, ReadInputs PROVE RoundInv'
<1>1. PICK D \in SUBSET Machines : Round(D)
  BY DEF RoundInv
<1>2. /\ UNCHANGED <<cur, armed, armAge, entAge>> /\ at.root = 0
      /\ at' = [root |-> 1, machine |-> Roots[1], trans |-> 0]
      /\ moves' = [f \in Machines |-> 0]
      /\ falseAge' = [i \in Inputs |-> IF in'[i] THEN falseAge[i] ELSE 0]
  BY DEF ReadInputs
<1>3. Visited(cur, at, {})'
  BY <1>2 DEF Visited, Led
<1>4. Moved({})'
  BY <1>2 DEF Moved
<1>5. Roots[1] \in RootMachines
  BY RootFacts DEF RootMachines
<1>6. AtLive'
  BY <1>2, <1>5, LiveRoots DEF AtLive
<1>7. ASSUME NEW f \in Machines, NEW i \in DOMAIN Trans[cur[f]], CountsRightly(D, f, i)
      PROVE  CountsRightly({}, f, i)'
  <2> DEFINE t == Trans[cur[f]][i]
             x == Cond[t].on
  <2>1. cur[f] \in States
    BY DEF TypeOK
  <2>2. t \in Transitions /\ i \in Nat
    BY <2>1, ListFacts
  <2>3. Cond[t] \in Conds
    BY <2>2, FsmAssumption
  <2>4. x \in Inputs
    BY <2>3 DEF Conds
  <2>5. ~Pending(at, D, f, i)
    BY <1>2 DEF Pending
  <2>6. Pending(at', {}, f, i)
    BY <1>2, <2>2 DEF Pending
  <2>7. falseAge'[x] = falseAge[x] \/ ~in'[x]
    BY <1>2, <2>4
  <2> QED
    BY <1>2, <1>7, <2>5, <2>6, <2>7 DEF CountsRightly
<1>8. Counted({})'
  BY <1>1, <1>2, <1>7 DEF Round, Counted, Live, Entered
<1> QED
  BY <1>3, <1>4, <1>6, <1>8 DEF Round, RoundInv

\* The update of f begins: nothing has been tried yet.
LEMMA RoundBegin ==
    ASSUME TypeOK, RoundInv, NEW f \in Machines, BeginUpdate(f), cur[f] # End[f]
    PROVE  RoundInv'
<1>1. PICK D \in SUBSET Machines : Round(D)
  BY DEF RoundInv
<1>2. /\ UNCHANGED <<cur, armed, armAge, entAge, falseAge, in, moves>> /\ at.root > 0
      /\ at.trans = 0 /\ at' = [at EXCEPT !.trans = 1]
  BY DEF BeginUpdate, Updating
<1>3. at'.root = at.root /\ at'.machine = at.machine /\ at'.trans = 1
  BY <1>2 DEF TypeOK
<1>4. Visited(cur, at, D)'
  BY <1>1, <1>2, <1>3 DEF Visited, Round
<1>5. Moved(D)' /\ AtLive'
  BY <1>1, <1>2, <1>3 DEF Round, Moved, AtLive
<1>6. ASSUME NEW g \in Machines, NEW i \in DOMAIN Trans[cur[g]], CountsRightly(D, g, i)
      PROVE  CountsRightly(D, g, i)'
  <2>1. cur[g] \in States
    BY DEF TypeOK
  <2>2. 1 <= i
    BY <2>1, ListFacts
  <2>3. Pending(at, D, g, i) => Pending(at', D, g, i)
    BY <1>2, <1>3, <2>2 DEF Pending
  <2> QED
    BY <1>2, <1>6, <2>3 DEF CountsRightly
<1>7. Counted(D)'
  BY <1>1, <1>2, <1>6 DEF Round, Counted, Live, Entered
<1> QED
  BY <1>4, <1>5, <1>7 DEF Round, RoundInv

\* A transition that is tried and does not hold has seen the reading.
LEMMA RoundPass ==
    ASSUME TypeOK, OwnerInv, RoundInv, NEW f \in Machines, PassTransition(f)
    PROVE  RoundInv'
<1>1. PICK D \in SUBSET Machines : Round(D)
  BY DEF RoundInv
<1> DEFINE t == Tried(f)
<1>2. /\ UNCHANGED <<cur, entAge, falseAge, in, moves>> /\ at.root > 0 /\ Trying(f)
      /\ at.machine = f /\ at' = [at EXCEPT !.trans = @ + 1] /\ ~Holds(t)
      /\ armed' = ArmedAfter(t)
      /\ armAge' = IF armed'[t] /\ ~armed[t] THEN [armAge EXCEPT ![t] = 0] ELSE armAge
  BY DEF PassTransition, Trying, Updating
<1>3. at'.root = at.root /\ at'.machine = f /\ at'.trans = at.trans + 1 /\ at.trans \in Nat
  BY <1>2 DEF TypeOK
<1>4. Visited(cur, at, D)'
  BY <1>1, <1>2, <1>3 DEF Visited, Round
<1>5. Moved(D)' /\ AtLive'
  BY <1>1, <1>2, <1>3 DEF Round, Moved, AtLive
<1>6. t \in Transitions /\ Cond[t].on \in Inputs /\ cur[f] \in States
  BY <1>2, TryFacts
<1>7. ASSUME NEW g \in Machines, NEW i \in DOMAIN Trans[cur[g]], CountsRightly(D, g, i)
      PROVE  CountsRightly(D, g, i)'
  <2> DEFINE u == Trans[cur[g]][i]
             x == Cond[u].on
  <2>1. cur[g] \in States
    BY DEF TypeOK
  <2>2. u \in Transitions /\ i \in Nat
    BY <2>1, ListFacts
  <2>3. CASE u = t
    <3>1. ASSUME Cond[t].kind = "trueduring", armed'[t] PROVE in[Cond[t].on]
      BY <1>2, <1>6, <3>1 DEF ArmedAfter, TypeOK
    <3>2. CASE armed[t]
      <4>1. armAge' = armAge
        BY <1>2, <3>2
      <4> QED
        BY <1>2, <1>7, <2>3, <3>1, <3>2, <4>1 DEF CountsRightly
    <3>3. ASSUME ~armed[t], armed'[t] PROVE armAge'[t] = 0
      BY <1>2, <1>6, <3>3 DEF TypeOK
    <3>4. \A m \in Ages : 0 <= m
      BY FsmAssumption DEF Ages
    <3>5. Cond[t] \in Conds
      BY <1>6, FsmAssumption
    <3>6. entAge[g] \in Ages /\ falseAge[Cond[t].on] \in Ages
      BY <1>6 DEF TypeOK
    <3>7. CASE ~armed[t]
      BY <1>2, <2>3, <3>3, <3>4, <3>6, <3>7 DEF CountsRightly
    <3> QED
      BY <3>2, <3>7
  <2>4. CASE u # t
    <3>1. armed'[u] = armed[u] /\ armAge'[u] = armAge[u]
      BY <1>2, <1>6, <2>2, <2>4 DEF ArmedAfter, TypeOK
    <3>2. g = f => i # at.trans
      BY <2>4 DEF Tried
    <3>3. Pending(at, D, g, i) => Pending(at', D, g, i)
      BY <1>2, <1>3, <2>2, <3>2 DEF Pending
    <3> QED
      BY <1>2, <1>7, <3>1, <3>3 DEF CountsRightly
  <2> QED
    BY <2>3, <2>4
<1>8. Counted(D)'
  BY <1>1, <1>2, <1>7 DEF Round, Counted, Live, Entered
<1> QED
  BY <1>4, <1>5, <1>8 DEF Round, RoundInv

\* What the conditions count when the execution leaves f, which is not among
\* those that still have a reading to see.
LEMMA PendingLeft ==
    ASSUME at \in AtType, NEW f \in Machines, Updating(f), NEW D \in SUBSET Machines,
           at' \in AtType, at'.trans = 0,
           NEW L, at'.root = 0 => L \subseteq D \cup {f},
           NEW g \in L, g # f, NEW i \in Nat, Pending(at, D, g, i)
    PROVE  Pending(at', D \cup {f}, g, i)
<1>1. g \notin D \cup {f}
  BY DEF Pending
<1>2. at'.root # 0 /\ at'.root \in Nat
  BY <1>1, RootFacts DEF AtType
<1> QED
  BY <1>1, <1>2 DEF Pending

\* The update of f ends without a transition: it has ended, or everything has
\* been tried.
LEMMA RoundLeave ==
    ASSUME TypeOK, OwnerInv, RoundInv, NEW f \in Machines,
           EndScan(f) \/ (BeginUpdate(f) /\ cur[f] = End[f])
    PROVE  RoundInv'
<1>1. PICK D \in SUBSET Machines : Round(D)
  BY DEF RoundInv
<1>2. /\ UNCHANGED <<cur, armed, armAge, entAge, falseAge, in, moves>> /\ Updating(f)
      /\ at.root > 0 /\ at.machine = f
  BY DEF BeginUpdate, EndScan, Updating
<1>3. at \in AtType /\ cur \in [Machines -> States] /\ Owner[cur[f]] = f
  BY DEF TypeOK, AtType, OwnerInv
<1>4. Descend(cur[f])
  <2>1. CASE EndScan(f)
    BY <2>1 DEF EndScan
  <2>2. CASE BeginUpdate(f) /\ cur[f] = End[f]
    <3>1. Nested[cur[f]] = NoMachine /\ NextRoot
      BY <2>2, TreeAssumption DEF BeginUpdate
    <3> QED
      BY <3>1 DEF Descend
  <2> QED
    BY <2>1, <2>2
<1>5. Visited(cur, at, D)
  BY <1>1, <1>2 DEF Round
<1>6. /\ at' \in AtType /\ at'.trans = 0
      /\ at'.root > 0 => Visited(cur, at', D \cup {f})
      /\ at'.root > 0 => \/ at'.machine \in RootMachines
                         \/ at'.machine = Nested[cur[f]]
      /\ at'.root = 0 => Live(cur) \subseteq D \cup {f}
  BY <1>2, <1>3, <1>4, <1>5, Leaving
<1>7. at'.root > 0 => Visited(cur, at, D \cup {f})'
  BY <1>2, <1>6 DEF Visited
<1>8. Moved(D \cup {f})'
  BY <1>1, <1>2 DEF Round, Moved
<1>9. AtLive'
  <2> SUFFICES ASSUME at'.root > 0, at'.machine \notin RootMachines
               PROVE  at'.machine \in Live(cur)
    BY <1>2, LiveRoots DEF AtLive
  <2>1. at'.machine = Nested[cur[f]] /\ at'.machine \in Machines
    BY <1>6 DEF AtType
  <2>2. Nested[cur[f]] # NoMachine
    BY <2>1, FsmAssumption
  <2>3. cur[f] # Begin[f]
    BY <2>2, TreeAssumption
  <2>4. f \in Live(cur)
    BY <1>1, <1>2, <2>3 DEF Round, AtLive
  <2> QED
    BY <1>3, <2>1, <2>2, <2>4, LiveNested
<1>10. ASSUME NEW g \in Live(cur), Entered(g), NEW i \in DOMAIN Trans[cur[g]],
              CountsRightly(D, g, i)
       PROVE  CountsRightly(D \cup {f}, g, i)'
  <2>1. g \in Machines /\ cur[g] \in States
    BY <1>3 DEF Live
  <2>2. i \in 1..Len(Trans[cur[g]]) /\ i \in Nat /\ Len(Trans[cur[g]]) \in Nat
    BY <2>1, ListFacts
  <2>3. CASE g # f
    <3>1. Pending(at, D, g, i) => Pending(at', D \cup {f}, g, i)
      BY <1>2, <1>3, <1>6, <2>2, <2>3, PendingLeft
    <3> QED
      BY <1>2, <1>10, <3>1 DEF CountsRightly
  <2>4. CASE g = f
    <3>1. at.trans = Len(Trans[cur[f]]) + 1
      BY <1>10, <2>4 DEF EndScan, Entered
    <3>2. ~Pending(at, D, g, i)
      BY <1>2, <2>2, <2>4, <3>1 DEF Pending
    <3> QED
      BY <1>2, <1>10, <3>2 DEF CountsRightly
  <2> QED
    BY <2>3, <2>4
<1>11. Counted(D \cup {f})'
  BY <1>1, <1>2, <1>10 DEF Round, Counted, Live, Entered
<1>12. D \cup {f} \in SUBSET Machines
  OBVIOUS
<1> QED
  BY <1>7, <1>8, <1>9, <1>11, <1>12 DEF Round, RoundInv

\* A transition: the entered state's conditions count nothing, the machine
\* nested in it is in "_begin_", and the others are where they were.
LEMMA RoundFire ==
    ASSUME TypeOK, OwnerInv, RoundInv, NEW f \in Machines, FireTransition(f)
    PROVE  RoundInv'
<1>1. PICK D \in SUBSET Machines : Round(D)
  BY DEF RoundInv
<1>2. PICK d \in States :
              /\ Owner[d] = f
              /\ cur' = [g \in Machines |-> IF g = f THEN d
                                           ELSE IF g = Nested[d] THEN Begin[g] ELSE cur[g]]
              /\ ActivateTransitions(d)
              /\ entAge' = [entAge EXCEPT ![f] = 0]
              /\ Descend(d)
  BY FireEffect
<1>3. /\ UNCHANGED <<armAge, falseAge, in>> /\ Updating(f)
      /\ at.root > 0 /\ at.machine = f /\ moves' = [moves EXCEPT ![f] = @ + 1]
  BY DEF FireTransition, Trying, Updating
<1>4. at \in AtType /\ cur \in [Machines -> States] /\ cur' \in [Machines -> States]
  BY <1>2, FsmAssumption DEF TypeOK, AtType
<1>5. Visited(cur, at, D) /\ f \notin D
  BY <1>1, <1>3 DEF Round, Visited
<1>6. cur'[f] = d
  BY <1>2
<1>7. Nested[d] \notin D \cup {f}
  <2>1. CASE Nested[d] = NoMachine
    BY <2>1, FsmAssumption
  <2>2. CASE Nested[d] # NoMachine
    BY <1>2, <1>3, <1>4, <1>5, <2>2, NestedIsNew DEF AtType
  <2> QED
    BY <2>1, <2>2
<1>8. \A h \in D : cur'[h] = cur[h]
  BY <1>2, <1>5, <1>7
<1>9. /\ at' \in AtType /\ at'.trans = 0
      /\ at'.root > 0 => Visited(cur', at', D \cup {f})
      /\ at'.root > 0 => \/ at'.machine \in RootMachines
                         \/ at'.machine = Nested[cur'[f]]
      /\ at'.root = 0 => Live(cur') \subseteq D \cup {f}
  BY <1>2, <1>3, <1>4, <1>5, <1>6, <1>8, Leaving
<1>10. at'.root > 0 => Visited(cur, at, D \cup {f})'
  BY <1>9 DEF Visited
<1>11. Moved(D \cup {f})'
  <2>1. moves[f] = 0 /\ moves \in [Machines -> Nat]
    BY <1>1, <1>3, <1>5 DEF Round, Moved, TypeOK
  <2>2. \A g \in Machines : moves'[g] = IF g = f THEN 1 ELSE moves[g]
    BY <1>3, <2>1
  <2> QED
    BY <1>1, <1>3, <2>2 DEF Round, Moved
<1>12. AtLive'
  <2> SUFFICES ASSUME at'.root > 0, at'.machine \notin RootMachines
               PROVE  cur'[at'.machine] = Begin[at'.machine]
    BY LiveRoots DEF AtLive
  <2>1. at'.machine = Nested[d] /\ at'.machine \in Machines
    BY <1>6, <1>9 DEF AtType
  <2>2. at'.machine # f
    BY <1>7, <2>1
  <2> QED
    BY <1>2, <2>1, <2>2
<1>13. Live(cur') \subseteq Live(cur) \cup {f, Nested[d]}
  <2>1. \A g \in Machines : cur'[g] = IF g = f THEN d
                                      ELSE IF g = Nested[d] THEN Begin[g] ELSE cur[g]
    BY <1>2
  <2> QED
    BY <1>4, <2>1, LiveAfterFiring
<1>14. ASSUME NEW g \in Live(cur'), Entered(g)', NEW i \in DOMAIN Trans[cur'[g]]
       PROVE  CountsRightly(D \cup {f}, g, i)'
  <2> DEFINE t == Trans[cur'[g]][i]
  <2>1. g \in Machines /\ cur'[g] \in States
    BY <1>4 DEF Live
  <2>2. i \in Nat /\ t \in Transitions
    BY <2>1, ListFacts
  <2>3. CASE g = f
    <3>1. ~armed'[t]
      BY <1>2, <1>6, <2>2, <2>3 DEF ActivateTransitions
    <3> QED
      BY <3>1 DEF CountsRightly
  <2>4. CASE g # f
    <3>1. g # Nested[d]
      <4> SUFFICES ASSUME g = Nested[d] PROVE FALSE
        OBVIOUS
      <4>1. cur'[g] = Begin[g]
        BY <1>2, <2>1, <2>4
      <4>2. Nested[d] # NoMachine
        BY <2>1, FsmAssumption
      <4>3. g \notin RootMachines
        BY <4>2, NestedFacts
      <4> QED
        BY <1>14, <4>1, <4>3 DEF Entered
    <3>2. g \in Live(cur) /\ cur'[g] = cur[g] /\ entAge'[g] = entAge[g]
      BY <1>2, <1>13, <2>1, <2>4, <3>1 DEF TypeOK
    <3>3. Entered(g)
      BY <1>14, <3>2 DEF Entered
    <3>4. CountsRightly(D, g, i)
      BY <1>1, <3>2, <3>3 DEF Round, Counted
    <3>5. armed'[t] => armed[t]
      BY <1>2, <2>2 DEF ActivateTransitions
    <3>6. Pending(at, D, g, i) => Pending(at', D \cup {f}, g, i)
      BY <1>3, <1>4, <1>9, <2>2, <2>4, PendingLeft
    <3> QED
      BY <1>3, <3>2, <3>4, <3>5, <3>6 DEF CountsRightly
  <2> QED
    BY <2>3, <2>4
<1>15. Counted(D \cup {f})'
  BY <1>14 DEF Counted, Live
<1>16. D \cup {f} \in SUBSET Machines
  OBVIOUS
<1> QED
  BY <1>10, <1>11, <1>12, <1>15, <1>16 DEF Round, RoundInv

LEMMA RoundStep == TypeOK /\ OwnerInv /\ RoundInv /\ [Next]_vars => RoundInv'
<1> SUFFICES ASSUME TypeOK, OwnerInv, RoundInv, [Next]_vars PROVE RoundInv'
  OBVIOUS
<1>1. CASE UNCHANGED vars
  BY <1>1 DEF vars, RoundInv, Round, Visited, Moved, Counted, CountsRightly, Entered, AtLive
<1>2. CASE Tick \/ ReadInputs
  BY <1>2, RoundTick, RoundRead
<1>3. ASSUME NEW f \in Machines, Update(f) PROVE RoundInv'
  BY <1>3, RoundBegin, RoundPass, RoundLeave, RoundFire DEF Update
<1> QED
  BY <1>1, <1>2, <1>3 DEF Next

\* The machine being updated is hosted by the machine updated before it.
LEMMA HostStep == TypeOK /\ OwnerInv /\ RoundInv /\ HostIsCurrent /\ [Next]_vars
                     => HostIsCurrent'
<1> SUFFICES ASSUME TypeOK, OwnerInv, RoundInv, HostIsCurrent, [Next]_vars, at'.root > 0
             PROVE  \/ at'.machine \in RootMachines
                    \/ \E f \in Machines : Nested[cur'[f]] = at'.machine
  BY DEF HostIsCurrent, RootMachines
<1>1. CASE Tick \/ UNCHANGED vars
  BY <1>1 DEF Tick, vars, HostIsCurrent
<1>2. CASE ReadInputs
  BY <1>2, RootFacts DEF ReadInputs, RootMachines
<1>3. ASSUME NEW f \in Machines, PassTransition(f) \/ (BeginUpdate(f) /\ cur[f] # End[f])
      PROVE  \/ at'.machine \in RootMachines
             \/ \E g \in Machines : Nested[cur'[g]] = at'.machine
  <2>1. UNCHANGED cur /\ at.root > 0
    BY <1>3 DEF PassTransition, BeginUpdate, Trying, Updating
  <2>2. at'.machine = at.machine
    BY <1>3 DEF PassTransition, BeginUpdate, TypeOK
  <2> QED
    BY <2>1, <2>2 DEF HostIsCurrent
<1>4. ASSUME NEW f \in Machines, Updating(f), NEW s \in States, cur'[f] = s,
             Descend(s) \/ NextRoot
      PROVE  \/ at'.machine \in RootMachines
             \/ \E g \in Machines : Nested[cur'[g]] = at'.machine
  <2>1. CASE NextRoot
    <3>1. at.root # Len(Roots)
      BY <2>1 DEF NextRoot, Idle
    <3>2. at.root + 1 \in DOMAIN Roots /\ at'.machine = Roots[at.root + 1]
      BY <2>1, <3>1, RootFacts DEF NextRoot, TypeOK
    <3> QED
      BY <3>2 DEF RootMachines
  <2>2. CASE Nested[s] # NoMachine /\ Descend(s)
    <3>1. at'.machine = Nested[s]
      BY <2>2 DEF Descend, TypeOK
    <3> QED
      BY <1>4, <3>1
  <2> QED
    BY <1>4, <2>1, <2>2 DEF Descend
<1>5. ASSUME NEW f \in Machines, BeginUpdate(f), cur[f] = End[f]
      PROVE  Updating(f) /\ cur'[f] \in States /\ NextRoot
  BY <1>5 DEF BeginUpdate, TypeOK
<1>6. ASSUME NEW f \in Machines, EndScan(f)
      PROVE  Updating(f) /\ cur'[f] \in States /\ Descend(cur'[f])
  BY <1>6 DEF EndScan, TypeOK
<1>7. ASSUME NEW f \in Machines, FireTransition(f)
      PROVE  Updating(f) /\ cur'[f] \in States /\ Descend(cur'[f])
  <2>1. Updating(f)
    BY <1>7 DEF FireTransition, Trying
  <2> QED
    BY <1>7, <2>1, FireEffect
<1> QED
  BY <1>1, <1>2, <1>3, <1>4, <1>5, <1>6, <1>7 DEF Next, Update

\* What the property asks of the transition being tried.
LEMMA RoundCounts == TypeOK /\ ScanInv /\ RoundInv => TrueDuringCountsReadings
<1> SUFFICES ASSUME TypeOK, ScanInv, RoundInv, NEW f \in Machines, Trying(f),
                    Cond[Tried(f)].kind = "trueduring", armed[Tried(f)],
                    in[Cond[Tried(f)].on],
                    f \in RootMachines \/ cur[f] # Begin[f]
             PROVE  /\ armAge[Tried(f)] <= falseAge[Cond[Tried(f)].on]
                    /\ cur[f] # Begin[f] => armAge[Tried(f)] <= entAge[f]
  BY DEF TrueDuringCountsReadings
<1>1. PICK D \in SUBSET Machines : Round(D)
  BY DEF RoundInv
<1>2. /\ at.root > 0 /\ at.machine = f /\ cur[f] \in States
      /\ at.trans \in DOMAIN Trans[cur[f]]
  BY DEF Trying, Updating, TypeOK
<1>3. at.trans > 0
  BY <1>2, ListFacts DEF TypeOK
<1>4. Entered(f)
  BY <1>2, <1>3 DEF ScanInv, Entered
<1>5. f \in Live(cur)
  BY <1>1, <1>2 DEF Round, AtLive
<1>6. CountsRightly(D, f, at.trans)
  BY <1>1, <1>2, <1>4, <1>5 DEF Round, Counted
<1> QED
  BY <1>6 DEF CountsRightly, Tried

-----------------------------------------------------------------------------
LEMMA FsmInvariant == Spec => []IInv
<1>1. IInv /\ [Next]_vars => IInv'
  BY TypeStep, ScanStep, OwnerStep, TimeoutStep, NestedStep, StateVarStep DEF IInv
<1> QED
  BY InitIInv, <1>1, PTL DEF Spec

\* Every variable of the executing machines keeps its type, and the scan never
\* points past the end of the list of the state it scans (fsm_do_update).
THEOREM FsmTypes == Spec => []TypeOK
<1>1. IInv => TypeOK
  BY DEF IInv
<1> QED
  BY FsmInvariant, <1>1, PTL

\* Whatever the machines and however they nest, a timeout measures from the
\* transition into its state (activate_transitions, eint_func_timeout).
THEOREM FsmTimeouts == Spec => []TimeoutsMeasureEntry
<1>1. IInv => TimeoutsMeasureEntry
  BY DEF IInv
<1> QED
  BY FsmInvariant, <1>1, PTL

\* A nested machine starts afresh at every entry of its host state (fsm_reset
\* in fsm_transition).
THEOREM FsmNested == Spec => []NestedStartsAfresh
<1>1. IInv => NestedStartsAfresh
  BY DEF IInv
<1> QED
  BY FsmInvariant, <1>1, PTL

\* What is published as a machine's state is its state (fsm_actualize_state_var).
THEOREM FsmStateVar == Spec => []StateVarIsState
<1>1. IInv => StateVarIsState
  BY DEF IInv
<1> QED
  BY FsmInvariant, <1>1, PTL

\* A top-level machine never leaves "_end_" (the first test of fsm_do_update).
THEOREM FsmEnd == Spec => EndIsFinal
<1>1. IInv /\ [Next]_vars
        => [\A r \in RootMachines : cur[r] = End[r] => cur'[r] = End[r]]_vars
  BY EndStep DEF IInv
<1> QED
  BY FsmInvariant, <1>1, PTL DEF Spec, EndIsFinal

LEMMA FsmRounds == Spec => [](RoundInv /\ HostIsCurrent)
<1>1. Init => HostIsCurrent
  BY DEF Init, HostIsCurrent, Idle
<1>2. IInv /\ RoundInv /\ HostIsCurrent /\ [Next]_vars => (RoundInv /\ HostIsCurrent)'
  BY RoundStep, HostStep DEF IInv
<1> QED
  BY InitRound, FsmInvariant, <1>1, <1>2, PTL DEF Spec

\* When a trueduring condition says that its input was true for so long, every
\* reading since was true and evaluated (eint_func_trueduring, fsm_do_update).
THEOREM FsmTrueDuring == Spec => []TrueDuringCountsReadings
<1>1. IInv /\ RoundInv => TrueDuringCountsReadings
  BY RoundCounts DEF IInv
<1> QED
  BY FsmInvariant, FsmRounds, <1>1, PTL

\* Whatever the forest, one execution moves a machine at most once: the walk of
\* fsm_exec and fsm_do_update never comes to a machine again.
THEOREM FsmOneMove == Spec => []OneMovePerExecution
<1>1. RoundInv => OneMovePerExecution
  BY DEF RoundInv, Round, Moved, OneMovePerExecution
<1> QED
  BY FsmRounds, <1>1, PTL

\* Only a machine whose host state is current is updated (the tail of
\* fsm_do_update, which follows the state the transition has just entered).
THEOREM FsmHost == Spec => []HostIsCurrent
  BY FsmRounds, PTL

------------------------------------------------------------------------------
(* The clock multiplexer.                                                  *)

\* A thread inside a critical section of the driver is the mutex's holder.
MutexInv == \A t \in Srcs \cup {Cycle} : Inside(t) => mutex = t

\* Between the unlocked read of status_reg and the wait every raised bit is
\* late; while the thread sleeps unsignalled, no emitter is past its broadcast.
WindowInv ==
    /\ cpc \in {"lock", "wait"} => status \subseteq late
    /\ cpc = "waiting" /\ ~signalled =>
          /\ status \subseteq late
          /\ \A s \in Srcs : spc[s] # "set"

MuxInv == MuxTypeOK /\ MutexInv /\ WindowInv

LEMMA InitMuxInv == MuxInit => MuxInv
<1> SUFFICES ASSUME MuxInit PROVE MuxInv
  OBVIOUS
<1>1. MuxTypeOK
  BY DEF MuxInit, MuxTypeOK, CyclePC, SrcPC
<1>2. MutexInv
  BY DEF MuxInit, MutexInv, Inside
<1>3. WindowInv
  BY DEF MuxInit, WindowInv
<1> QED
  BY <1>1, <1>2, <1>3 DEF MuxInv

LEMMA MuxTypeStep == MuxTypeOK /\ [MuxNext]_muxVars => MuxTypeOK'
<1> SUFFICES ASSUME MuxTypeOK, [MuxNext]_muxVars PROVE MuxTypeOK'
  OBVIOUS
<1> USE ClkAssumption DEF MuxTypeOK, CyclePC, SrcPC
<1>1. ASSUME NEW s \in Srcs, EmitLock(s) PROVE MuxTypeOK'
  BY <1>1 DEF EmitLock
<1>2. ASSUME NEW s \in Srcs, EmitBroadcast(s) PROVE MuxTypeOK'
  BY <1>2 DEF EmitBroadcast
<1>3. ASSUME NEW s \in Srcs, EmitSet(s) PROVE MuxTypeOK'
  BY <1>3 DEF EmitSet
<1>4. ASSUME NEW s \in Srcs, EmitUnlock(s) PROVE MuxTypeOK'
  BY <1>4 DEF EmitUnlock
<1>5. ASSUME NEW s \in Srcs, ClearStatus(s) PROVE MuxTypeOK'
  BY <1>5 DEF ClearStatus
<1>6. CASE CheckStatus
  BY <1>6 DEF CheckStatus
<1>7. CASE WaitLock \/ CondWait
  BY <1>7 DEF WaitLock, CondWait
<1>8. CASE SpuriousWakeup \/ Reacquire
  BY <1>8 DEF SpuriousWakeup, Reacquire
<1>9. CASE WaitUnlock \/ Process
  BY <1>9 DEF WaitUnlock, Process
<1>10. CASE UNCHANGED muxVars
  BY <1>10 DEF muxVars
<1> QED
  BY <1>1, <1>2, <1>3, <1>4, <1>5, <1>6, <1>7, <1>8, <1>9, <1>10
     DEF MuxNext, EmitStep, CycleStep

LEMMA MutexStep == MuxTypeOK /\ MutexInv /\ [MuxNext]_muxVars => MutexInv'
<1> SUFFICES ASSUME MuxTypeOK, MutexInv, [MuxNext]_muxVars PROVE MutexInv'
  OBVIOUS
<1> USE ClkAssumption DEF MuxTypeOK, MutexInv, Inside
<1>1. ASSUME NEW s \in Srcs, EmitLock(s) PROVE MutexInv'
  BY <1>1 DEF EmitLock
<1>2. ASSUME NEW s \in Srcs, EmitBroadcast(s) PROVE MutexInv'
  BY <1>2 DEF EmitBroadcast
<1>3. ASSUME NEW s \in Srcs, EmitSet(s) PROVE MutexInv'
  BY <1>3 DEF EmitSet
<1>4. ASSUME NEW s \in Srcs, EmitUnlock(s) PROVE MutexInv'
  BY <1>4 DEF EmitUnlock
<1>5. ASSUME NEW s \in Srcs, ClearStatus(s) PROVE MutexInv'
  BY <1>5 DEF ClearStatus
<1>6. CASE CheckStatus \/ Process \/ SpuriousWakeup
  BY <1>6 DEF CheckStatus, Process, SpuriousWakeup
<1>7. CASE WaitLock \/ CondWait
  BY <1>7 DEF WaitLock, CondWait
<1>8. CASE Reacquire \/ WaitUnlock
  BY <1>8 DEF Reacquire, WaitUnlock
<1>9. CASE UNCHANGED muxVars
  BY <1>9 DEF muxVars
<1> QED
  BY <1>1, <1>2, <1>3, <1>4, <1>5, <1>6, <1>7, <1>8, <1>9
     DEF MuxNext, EmitStep, CycleStep

LEMMA WindowStep == MuxInv /\ [MuxNext]_muxVars => WindowInv'
<1> SUFFICES ASSUME MuxInv, [MuxNext]_muxVars PROVE WindowInv'
  OBVIOUS
<1> USE ClkAssumption DEF MuxInv, MuxTypeOK, WindowInv
<1>1. ASSUME NEW s \in Srcs, EmitLock(s) PROVE WindowInv'
  BY <1>1 DEF EmitLock
<1>2. ASSUME NEW s \in Srcs, EmitBroadcast(s) PROVE WindowInv'
  BY <1>2 DEF EmitBroadcast
<1>3. ASSUME NEW s \in Srcs, EmitSet(s) PROVE WindowInv'
  BY <1>3 DEF EmitSet
<1>4. ASSUME NEW s \in Srcs, EmitUnlock(s) PROVE WindowInv'
  BY <1>4 DEF EmitUnlock
<1>5. ASSUME NEW s \in Srcs, ClearStatus(s) PROVE WindowInv'
  BY <1>5 DEF ClearStatus
<1>6. CASE CheckStatus \/ Process \/ SpuriousWakeup
  BY <1>6 DEF CheckStatus, Process, SpuriousWakeup
<1>7. CASE WaitLock
  BY <1>7 DEF WaitLock
<1>8. CASE CondWait
  \* The cycle thread holds the mutex here, so no emitter is inside.
  <2>1. \A s \in Srcs : spc[s] # "set"
    BY <1>8 DEF CondWait, MutexInv, Inside
  <2> QED
    BY <1>8, <2>1 DEF CondWait
<1>9. CASE Reacquire \/ WaitUnlock
  BY <1>9 DEF Reacquire, WaitUnlock
<1>10. CASE UNCHANGED muxVars
  BY <1>10 DEF muxVars
<1> QED
  BY <1>1, <1>2, <1>3, <1>4, <1>5, <1>6, <1>7, <1>8, <1>9, <1>10
     DEF MuxNext, EmitStep, CycleStep

LEMMA ClkInvariant == MuxSpec => []MuxInv
<1>1. MuxInv /\ [MuxNext]_muxVars => MuxInv'
  BY MuxTypeStep, MutexStep, WindowStep DEF MuxInv
<1> QED
  BY InitMuxInv, <1>1, PTL DEF MuxSpec

\* The register, the mutex and the program counters keep their types.
THEOREM ClkTypes == MuxSpec => []MuxTypeOK
<1>1. MuxInv => MuxTypeOK
  BY DEF MuxInv
<1> QED
  BY ClkInvariant, <1>1, PTL

\* No two threads are ever inside the driver's critical sections together.
THEOREM ClkExclusion == MuxSpec => []DriverExclusion
<1>1. MuxInv => DriverExclusion
  BY DEF MuxInv, MutexInv, DriverExclusion
<1> QED
  BY ClkInvariant, <1>1, PTL

\* A sleeping cycle thread can only have missed a level that was raised
\* between its unlocked look at status_reg and its wait.
THEOREM ClkWindow == MuxSpec => []MissedOnlyAfterCheck
<1>1. MuxInv => MissedOnlyAfterCheck
  BY DEF MuxInv, WindowInv, MissedOnlyAfterCheck
<1> QED
  BY ClkInvariant, <1>1, PTL
==============================================================================
