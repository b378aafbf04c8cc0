--------------------------- MODULE DataflowProofs ---------------------------
(***************************************************************************)
(* Proofs about Dataflow for every system: any number of tasks, any        *)
(* programs with one writer per topic, either semantics of the clock wait. *)
(***************************************************************************)
EXTENDS Dataflow, TLAPS

\* The execution of t whose publication operation i carries.
Current(t, i) == IF mode[t] = "running" /\ pc[t] <= i THEN cyc[t] - 1 ELSE cyc[t]

\* The newest execution of p of which anything has been published.
Public(p) == IF mode[p] = "running" /\ \A k \in Writes(p) : pc[p] <= k
             THEN cyc[p] - 1 ELSE cyc[p]

\* A published topic carries the stamp and the count its writer's position says.
WriteInv ==
    \A t \in Tasks : \A i \in Writes(t) :
        /\ bus[Topic(t, i)][t] = Current(t, i)
        /\ upd[Topic(t, i)] = Current(t, i)

\* A running task is in its first execution at least, and what its call in
\* progress computes carries the stamp of this execution.
RunInv ==
    \A t \in Tasks : mode[t] = "running" =>
        /\ cyc[t] >= 1
        /\ pc[t] > 1 => acc[t][t] = cyc[t]

\* No stamp anywhere is newer than what its task has published; only the task
\* itself holds its unpublished one.
PublicInv ==
    \A p \in Tasks :
        /\ \A x \in Topics : bus[x][p] <= Public(p)
        /\ \A t \in Tasks : \A i \in DOMAIN Prog[t] : got[t][i][p] <= Public(p)
        /\ \A t \in Tasks : acc[t][p] <= IF t = p THEN cyc[p] ELSE Public(p)

\* A task never woke for an update that did not happen.
SeenInv == \A t \in Tasks : Clock[t] # NoTopic => seen[t] <= upd[Clock[t]]

IInv ==
    /\ TypeOK
    /\ RunInv
    /\ WriteInv
    /\ PublicInv
    /\ SeenInv
    /\ BatchOrder
    /\ ClockedFreshness
    /\ CausalReads

-----------------------------------------------------------------------------
LEMMA ProgFacts ==
    ASSUME NEW t \in Tasks
    PROVE  /\ Len(Prog[t]) \in Nat \ {0}
           /\ DOMAIN Prog[t] = 1..Len(Prog[t])
           /\ \A i \in DOMAIN Prog[t] : Prog[t][i] \in Ops
           /\ Writes(t) \subseteq DOMAIN Prog[t]
           /\ Reads(t) \subseteq DOMAIN Prog[t]
           /\ \A i \in Reads(t) \cup Writes(t) : Topic(t, i) \in Topics
           /\ Reads(t) \cap Writes(t) = {}
           /\ 1 \notin Reads(t) \cup Writes(t)
<1>1. Prog[t] \in Seq(Ops) /\ Prog[t] # <<>>
  BY DataflowAssumption
<1>2. Len(Prog[t]) \in Nat \ {0} /\ DOMAIN Prog[t] = 1..Len(Prog[t])
  BY <1>1
<1>3. \A i \in DOMAIN Prog[t] : Prog[t][i] \in Ops
  BY <1>1
<1>4. \A i \in Reads(t) \cup Writes(t) : i \in DOMAIN Prog[t] /\ Prog[t][i].kind # "call"
  BY DEF Reads, Writes
<1>5. \A i \in Reads(t) \cup Writes(t) : Topic(t, i) \in Topics
  BY <1>4, DataflowAssumption DEF Topic
<1>6. 1 \notin Reads(t) \cup Writes(t)
  BY <1>4, DataflowAssumption
<1> QED
  BY <1>2, <1>3, <1>5, <1>6 DEF Reads, Writes

LEMMA NewestType ==
    ASSUME NEW a \in Stamp, NEW b \in Stamp
    PROVE  /\ Newest(a, b) \in Stamp
           /\ \A p \in Tasks : Newest(a, b)[p] = IF a[p] > b[p] THEN a[p] ELSE b[p]
  BY DEF Newest, Stamp

LEMMA InitIInv == Init => IInv
<1> SUFFICES ASSUME Init PROVE IInv
  OBVIOUS
<1>1. TypeOK
  BY DEF Init, TypeOK, Never, Stamp
<1>2. RunInv /\ SeenInv
  BY DataflowAssumption DEF Init, RunInv, SeenInv
<1>3. WriteInv
  BY ProgFacts DEF Init, WriteInv, Current, Never
<1>4. PublicInv
  <2>1. \A p \in Tasks : Public(p) = 0 /\ cyc[p] = 0
    BY DEF Init, Public, Never
  <2>2. \A p \in Tasks :
          /\ \A x \in Topics : bus[x][p] = 0
          /\ \A t \in Tasks : \A i \in DOMAIN Prog[t] : got[t][i][p] = 0
          /\ \A t \in Tasks : acc[t][p] = 0
    BY DEF Init, Never
  <2> QED
    BY <2>1, <2>2, 0 <= 0 DEF PublicInv
<1>5. BatchOrder /\ ClockedFreshness /\ CausalReads
  BY DEF Init, BatchOrder, ClockedFreshness, CausalReads, DoneNow
<1> QED
  BY <1>1, <1>2, <1>3, <1>4, <1>5 DEF IInv

-----------------------------------------------------------------------------
(* Every step keeps the types.                                             *)

LEMMA AdvanceType ==
    ASSUME TypeOK, NEW t \in Tasks, mode[t] = "running", Advance(t)
    PROVE  /\ mode' \in [Tasks -> {"top", "waiting", "running", "ended"}]
           /\ pc' \in [Tasks -> Nat]
           /\ \A u \in Tasks : IF mode'[u] = "running" THEN pc'[u] \in DOMAIN Prog[u]
                                                       ELSE pc'[u] = 0
           /\ \A u \in Tasks : mode'[u] = "waiting" => Clock[u] # NoTopic
<1>1. pc[t] \in 1..Len(Prog[t]) /\ Len(Prog[t]) \in Nat
  BY ProgFacts DEF TypeOK
<1>2. \A u \in Tasks : u # t => mode'[u] = mode[u] /\ pc'[u] = pc[u]
  BY DEF Advance, TypeOK
<1>3. IF pc[t] = Len(Prog[t]) THEN mode'[t] = "top" /\ pc'[t] = 0
                              ELSE mode'[t] = "running" /\ pc'[t] = pc[t] + 1
  BY DEF Advance, TypeOK
<1>4. /\ IF mode'[t] = "running" THEN pc'[t] \in DOMAIN Prog[t] ELSE pc'[t] = 0
      /\ mode'[t] # "waiting"
  BY <1>1, <1>3, ProgFacts
<1> QED
  BY <1>1, <1>2, <1>3, <1>4 DEF TypeOK, Advance

LEMMA ExecuteType ==
    ASSUME TypeOK, NEW t \in Tasks, Execute(t), seen' \in [Tasks -> Nat]
    PROVE  TypeOK'
<1>1. 1 \in DOMAIN Prog[t]
  BY ProgFacts
<1>2. /\ mode' \in [Tasks -> {"top", "waiting", "running", "ended"}]
      /\ pc' \in [Tasks -> Nat]
      /\ cyc' \in Stamp
  BY DEF TypeOK, Execute, Stamp
<1>3. /\ \A u \in Tasks : IF mode'[u] = "running" THEN pc'[u] \in DOMAIN Prog[u]
                                                 ELSE pc'[u] = 0
      /\ \A u \in Tasks : mode'[u] = "waiting" => Clock[u] # NoTopic
  BY <1>1 DEF TypeOK, Execute
<1> QED
  BY <1>2, <1>3 DEF TypeOK, Execute

LEMMA TypeStep == TypeOK /\ [Next]_vars => TypeOK'
<1> SUFFICES ASSUME TypeOK, [Next]_vars PROVE TypeOK'
  OBVIOUS
<1>1. ASSUME NEW t \in Tasks, Tick(t) PROVE TypeOK'
  BY <1>1, ExecuteType DEF Tick, TypeOK
<1>2. ASSUME NEW t \in Tasks, BeginWait(t) PROVE TypeOK'
  BY <1>2, DataflowAssumption DEF BeginWait, TypeOK
<1>3. ASSUME NEW t \in Tasks, Wake(t) PROVE TypeOK'
  <2>1. seen' \in [Tasks -> Nat]
    <3>1. Clock[t] \in Topics \cup {NoTopic} /\ upd[Clock[t]] > seen[t]
      BY <1>3, DataflowAssumption DEF Wake
    <3>2. upd[Clock[t]] \in Nat
      BY <1>3, <3>1 DEF Wake, TypeOK
    <3> QED
      BY <1>3, <3>2 DEF Wake, TypeOK
  <2> QED
    BY <1>3, <2>1, ExecuteType DEF Wake
<1>4. ASSUME NEW t \in Tasks, WaitFails(t) PROVE TypeOK'
  BY <1>4 DEF WaitFails, TypeOK
<1>5. ASSUME NEW t \in Tasks, Call(t) PROVE TypeOK'
  <2>1. [Never EXCEPT ![t] = cyc[t]] \in Stamp
    BY DEF Never, Stamp, TypeOK
  <2> QED
    BY <1>5, <2>1, AdvanceType DEF Call, Doing, TypeOK
<1>6. ASSUME NEW t \in Tasks, Read(t) PROVE TypeOK'
  <2> DEFINE i == pc[t]
             v == bus[Prog[t][i].topic]
  <2>1. i \in Reads(t) /\ Advance(t) /\ mode[t] = "running"
    BY <1>6 DEF Read, Doing, Reads, TypeOK
  <2>2. v \in Stamp
    BY <2>1, ProgFacts DEF TypeOK, Topic
  <2>3. acc' \in [Tasks -> Stamp]
    BY <1>6, <2>2, NewestType DEF Read, TypeOK
  <2>4. DOMAIN got' = Tasks /\ \A u \in Tasks : got'[u] \in [DOMAIN Prog[u] -> Stamp]
    BY <1>6, <2>2 DEF Read, TypeOK
  <2> QED
    BY <1>6, <2>1, <2>3, <2>4, AdvanceType DEF Read, TypeOK
<1>7. ASSUME NEW t \in Tasks, Write(t) PROVE TypeOK'
  <2>1. pc[t] \in Writes(t) /\ Advance(t) /\ mode[t] = "running"
    BY <1>7 DEF Write, Doing, Writes, TypeOK
  <2>2. Prog[t][pc[t]].topic \in Topics
    BY <2>1, ProgFacts DEF Topic
  <2>3. bus' \in [Topics -> Stamp] /\ upd' \in [Topics -> Nat]
    BY <1>7, <2>2 DEF Write, TypeOK
  <2> QED
    BY <1>7, <2>1, <2>3, AdvanceType DEF Write, TypeOK
<1>8. CASE UNCHANGED vars
  BY <1>8 DEF vars, TypeOK
<1> QED
  BY <1>1, <1>2, <1>3, <1>4, <1>5, <1>6, <1>7, <1>8 DEF Next, Step

-----------------------------------------------------------------------------
(* What a step does to the positions of the tasks.                         *)

\* A thread that passes its clock or starts to wait publishes nothing and
\* forgets which reads belong to an execution in progress.
ClockStep(t) == Tick(t) \/ BeginWait(t) \/ Wake(t) \/ WaitFails(t)

LEMMA ClockStepEffect ==
    ASSUME TypeOK, NEW t \in Tasks, ClockStep(t)
    PROVE  /\ UNCHANGED <<bus, upd, got, acc>>
           /\ \A u \in Tasks : \A i \in DOMAIN Prog[u] :
                 /\ Current(u, i)' = Current(u, i)
                 /\ DoneNow(u, i)' => /\ DoneNow(u, i)
                                      /\ cyc'[u] = cyc[u]
                                      /\ seen'[u] = seen[u]
           /\ \A u \in Tasks : Public(u)' = Public(u) /\ cyc[u] <= cyc'[u]
           /\ \A u \in Tasks : (mode[u] = "running")' =>
                 IF u = t THEN pc'[u] = 1 /\ cyc'[u] = cyc[u] + 1
                          ELSE /\ mode[u] = "running" /\ pc'[u] = pc[u]
                               /\ cyc'[u] = cyc[u]
<1>1. UNCHANGED <<bus, upd, got, acc>>
  BY DEF Tick, BeginWait, Wake, WaitFails, ClockStep, Execute
<1>2. mode[t] # "running" /\ pc[t] = 0
  BY DEF TypeOK, Tick, BeginWait, Wake, WaitFails, ClockStep
<1>3. \A u \in Tasks : u # t =>
          /\ mode'[u] = mode[u] /\ pc'[u] = pc[u]
          /\ cyc'[u] = cyc[u] /\ seen'[u] = seen[u]
  <2>1. UNCHANGED seen \/ seen' = [seen EXCEPT ![t] = upd[Clock[t]]]
    BY DEF Tick, BeginWait, Wake, WaitFails, ClockStep
  <2>2. \A u \in Tasks : u # t => seen'[u] = seen[u]
    BY <2>1 DEF TypeOK
  <2>3. \A u \in Tasks : u # t =>
            mode'[u] = mode[u] /\ pc'[u] = pc[u] /\ cyc'[u] = cyc[u]
    <3>1. CASE Tick(t) \/ Wake(t)
      BY <3>1 DEF Tick, Wake, Execute, TypeOK, Stamp
    <3>2. CASE BeginWait(t) \/ WaitFails(t)
      BY <3>2 DEF BeginWait, WaitFails, TypeOK
    <3> QED
      BY <3>1, <3>2 DEF ClockStep
  <2> QED
    BY <2>2, <2>3
<1>4. \/ mode'[t] = "running" /\ pc'[t] = 1 /\ cyc'[t] = cyc[t] + 1
      \/ mode'[t] # "running" /\ cyc'[t] = cyc[t]
  BY DEF TypeOK, Stamp,
     Tick, BeginWait, Wake, WaitFails, ClockStep, Execute
<1>5. cyc \in [Tasks -> Nat]
  BY DEF TypeOK, Stamp
<1>6. \A i \in DOMAIN Prog[t] : 1 <= i /\ i \in Nat
  BY ProgFacts
<1>7. \A i \in DOMAIN Prog[t] : Current(t, i)' = Current(t, i) /\ ~DoneNow(t, i)'
  BY <1>2, <1>4, <1>5, <1>6 DEF Current, DoneNow
<1>8. \A u \in Tasks : u # t => Public(u)' = Public(u)
  BY <1>3 DEF Public
<1>9. Public(t)' = Public(t)
  BY <1>2, <1>4, <1>5, <1>6, ProgFacts DEF Public
<1>10. \A u \in Tasks : cyc[u] <= cyc'[u]
  BY <1>3, <1>4, <1>5
<1>11. \A u \in Tasks : (mode[u] = "running")' =>
          IF u = t THEN pc'[u] = 1 /\ cyc'[u] = cyc[u] + 1
                   ELSE mode[u] = "running" /\ pc'[u] = pc[u] /\ cyc'[u] = cyc[u]
  BY <1>3, <1>4
<1>12. \A u \in Tasks : \A i \in DOMAIN Prog[u] :
          /\ Current(u, i)' = Current(u, i)
          /\ DoneNow(u, i)' => /\ DoneNow(u, i)
                               /\ cyc'[u] = cyc[u] /\ seen'[u] = seen[u]
  <2> SUFFICES ASSUME NEW u \in Tasks, NEW i \in DOMAIN Prog[u]
               PROVE  /\ Current(u, i)' = Current(u, i)
                      /\ DoneNow(u, i)' => /\ DoneNow(u, i)
                                           /\ cyc'[u] = cyc[u] /\ seen'[u] = seen[u]
    OBVIOUS
  <2>1. CASE u = t
    BY <2>1, <1>7
  <2>2. CASE u # t
    <3>1. mode'[u] = mode[u] /\ pc'[u] = pc[u] /\ cyc'[u] = cyc[u] /\ seen'[u] = seen[u]
      BY <2>2, <1>3
    <3>2. Current(u, i)' = Current(u, i) /\ (DoneNow(u, i)' => DoneNow(u, i))
      BY <3>1 DEF Current, DoneNow
    <3> QED
      BY <3>1, <3>2
  <2> QED
    BY <2>1, <2>2
<1>13. \A u \in Tasks : Public(u)' = Public(u) /\ cyc[u] <= cyc'[u]
  BY <1>8, <1>9, <1>10
<1> QED
  BY <1>1, <1>11, <1>12, <1>13

LEMMA AdvanceEffect ==
    ASSUME TypeOK, NEW t \in Tasks, mode[t] = "running", Advance(t), UNCHANGED cyc
    PROVE  /\ \A u \in Tasks : \A i \in DOMAIN Prog[u] :
                 /\ Current(u, i)' = IF u = t /\ i = pc[t] THEN cyc[t] ELSE Current(u, i)
                 /\ DoneNow(u, i)' => DoneNow(u, i) \/ (u = t /\ i = pc[t])
           /\ \A u \in Tasks : Public(u) <= Public(u)'
           /\ pc[t] \in Writes(t) => Public(t)' = cyc[t]
           /\ \A u \in Tasks : mode'[u] = "running" =>
                 mode[u] = "running" /\ (u # t => pc'[u] = pc[u])
<1>1. \A u \in Tasks : u # t => mode'[u] = mode[u] /\ pc'[u] = pc[u]
  BY DEF Advance, TypeOK
<1>2. pc[t] \in 1..Len(Prog[t]) /\ DOMAIN Prog[t] = 1..Len(Prog[t]) /\ Len(Prog[t]) \in Nat
  BY ProgFacts DEF TypeOK
<1>3. IF pc[t] = Len(Prog[t]) THEN mode'[t] = "top" /\ pc'[t] = 0
                              ELSE mode'[t] = "running" /\ pc'[t] = pc[t] + 1
  BY DEF Advance, TypeOK
<1>4. cyc \in [Tasks -> Nat]
  BY DEF TypeOK, Stamp
<1>5. \A u \in Tasks : u # t =>
          /\ Public(u)' = Public(u)
          /\ \A i \in DOMAIN Prog[u] : /\ Current(u, i)' = Current(u, i)
                                      /\ DoneNow(u, i)' = DoneNow(u, i)
  BY <1>1 DEF Current, DoneNow, Public
<1>6. \A i \in DOMAIN Prog[t] :
          /\ Current(t, i)' = IF i = pc[t] THEN cyc[t] ELSE Current(t, i)
          /\ DoneNow(t, i)' => DoneNow(t, i) \/ i = pc[t]
  BY <1>2, <1>3, <1>4 DEF Current, DoneNow
<1>7. \A k \in Writes(t) : k \in 1..Len(Prog[t])
  BY ProgFacts
<1>8. Public(t) <= Public(t)'
  BY <1>2, <1>3, <1>4, <1>7 DEF Public
<1>9. pc[t] \in Writes(t) => Public(t)' = cyc[t]
  BY <1>2, <1>3, <1>4, <1>7 DEF Public
<1>10. \A u \in Tasks : Public(u) <= Public(u)'
  <2>1. \A u \in Tasks : Public(u) \in Int
    BY <1>4 DEF Public
  <2> QED
    BY <2>1, <1>5, <1>8
<1> QED
  BY <1>1, <1>3, <1>5, <1>6, <1>9, <1>10

-----------------------------------------------------------------------------
(* Every step keeps the invariant.                                         *)

\* What the read or write operation a running task has reached looks like.
LEMMA StepFacts ==
    ASSUME TypeOK, NEW t \in Tasks, Step(t)
    PROVE  /\ mode[t] = "running" /\ Advance(t) /\ UNCHANGED <<cyc, seen>>
           /\ pc[t] \in DOMAIN Prog[t]
           /\ Read(t) => pc[t] \in Reads(t) /\ Topic(t, pc[t]) \in Topics
           /\ Write(t) => pc[t] \in Writes(t) /\ Topic(t, pc[t]) \in Topics
           /\ Call(t) => pc[t] \notin Reads(t) \cup Writes(t)
<1>1. mode[t] = "running" /\ Advance(t) /\ UNCHANGED <<cyc, seen>>
  BY DEF Step, Call, Read, Write, Doing
<1>2. pc[t] \in DOMAIN Prog[t]
  BY <1>1 DEF TypeOK
<1>3. /\ Read(t) => pc[t] \in Reads(t)
      /\ Write(t) => pc[t] \in Writes(t)
      /\ Call(t) => pc[t] \notin Reads(t) \cup Writes(t)
  BY <1>2 DEF Call, Read, Write, Doing, Reads, Writes
<1> QED
  BY <1>1, <1>2, <1>3, ProgFacts

LEMMA RunStep == IInv /\ [Next]_vars => RunInv'
<1> SUFFICES ASSUME IInv, [Next]_vars PROVE RunInv'
  OBVIOUS
<1>1. TypeOK /\ RunInv /\ PublicInv
  BY DEF IInv
<1>2. cyc \in [Tasks -> Nat]
  BY <1>1 DEF TypeOK, Stamp
<1>3. ASSUME NEW t \in Tasks, ClockStep(t) PROVE RunInv'
  <2>1. \A u \in Tasks : (mode[u] = "running")' =>
            IF u = t THEN pc'[u] = 1 /\ cyc'[u] = cyc[u] + 1
                     ELSE mode[u] = "running" /\ pc'[u] = pc[u] /\ cyc'[u] = cyc[u]
    BY <1>1, <1>3, ClockStepEffect
  <2>2. UNCHANGED acc
    BY <1>1, <1>3, ClockStepEffect
  <2> QED
    BY <1>1, <1>2, <2>1, <2>2 DEF RunInv
<1>4. ASSUME NEW t \in Tasks, Step(t) PROVE RunInv'
  <2>1. mode[t] = "running" /\ Advance(t) /\ UNCHANGED cyc /\ pc[t] \in DOMAIN Prog[t]
    BY <1>1, <1>4, StepFacts
  <2>2. \A u \in Tasks : mode'[u] = "running" =>
            mode[u] = "running" /\ (u # t => pc'[u] = pc[u])
    BY <1>1, <2>1, AdvanceEffect
  <2>3. \A u \in Tasks : u # t => acc'[u] = acc[u]
    BY <1>1, <1>4 DEF Step, Call, Read, Write, TypeOK
  <2>4. acc'[t][t] = cyc[t]
    <3>1. CASE Call(t)
      <4>1. acc'[t] = [Never EXCEPT ![t] = cyc[t]]
        BY <1>1, <3>1 DEF Call, TypeOK
      <4> QED
        BY <4>1 DEF Never
    <3>2. CASE Read(t)
      <4> DEFINE v == bus[Prog[t][pc[t]].topic]
      <4>1. Prog[t][pc[t]].topic \in Topics /\ pc[t] \in Reads(t)
        BY <1>1, <1>4, <3>2, StepFacts DEF Topic
      <4>2. v \in Stamp /\ acc[t] \in Stamp /\ v[t] <= Public(t)
        BY <1>1, <4>1 DEF TypeOK, PublicInv
      <4>3. Public(t) <= cyc[t] /\ Public(t) \in Int
        BY <1>2 DEF Public
      <4>4. acc'[t] = Newest(acc[t], v)
        BY <1>1, <3>2 DEF Read, TypeOK
      <4>5. pc[t] > 1
        BY <4>1, <2>1, ProgFacts
      <4>6. acc[t][t] = cyc[t]
        BY <1>1, <2>1, <4>5 DEF RunInv
      <4>7. v[t] \in Nat /\ cyc[t] \in Nat
        BY <4>2, <1>2 DEF Stamp
      <4>8. acc'[t][t] = IF acc[t][t] > v[t] THEN acc[t][t] ELSE v[t]
        BY <4>2, <4>4, NewestType
      <4> QED
        BY <4>2, <4>3, <4>6, <4>7, <4>8
    <3>3. CASE Write(t)
      <4>1. pc[t] > 1
        BY <1>1, <1>4, <3>3, <2>1, StepFacts, ProgFacts
      <4> QED
        BY <1>1, <2>1, <3>3, <4>1 DEF Write, RunInv
    <3> QED
      BY <1>4, <3>1, <3>2, <3>3 DEF Step
  <2> QED
    BY <1>1, <2>1, <2>2, <2>3, <2>4 DEF RunInv
<1>5. CASE UNCHANGED vars
  BY <1>1, <1>5 DEF vars, RunInv
<1> QED
  BY <1>3, <1>4, <1>5 DEF Next, ClockStep

LEMMA WriteStep == IInv /\ [Next]_vars => WriteInv'
<1> SUFFICES ASSUME IInv, [Next]_vars PROVE WriteInv'
  OBVIOUS
<1>1. TypeOK /\ RunInv /\ WriteInv
  BY DEF IInv
<1>2. cyc \in [Tasks -> Nat]
  BY <1>1 DEF TypeOK, Stamp
<1>3. \A u \in Tasks : Writes(u) \subseteq DOMAIN Prog[u] /\ Reads(u) \cap Writes(u) = {}
  BY ProgFacts
<1>4. ASSUME NEW t \in Tasks, ClockStep(t) PROVE WriteInv'
  <2>1. UNCHANGED <<bus, upd>>
    BY <1>1, <1>4, ClockStepEffect
  <2>2. \A u \in Tasks : \A i \in Writes(u) : Current(u, i)' = Current(u, i)
    BY <1>1, <1>3, <1>4, ClockStepEffect
  <2> QED
    BY <1>1, <2>1, <2>2 DEF WriteInv, Topic, Writes
<1>5. ASSUME NEW t \in Tasks, Step(t) PROVE WriteInv'
  <2>1. mode[t] = "running" /\ Advance(t) /\ UNCHANGED cyc /\ pc[t] \in DOMAIN Prog[t]
    BY <1>1, <1>5, StepFacts
  <2>2. \A u \in Tasks : \A i \in Writes(u) :
            Current(u, i)' = IF u = t /\ i = pc[t] THEN cyc[t] ELSE Current(u, i)
    BY <1>1, <1>3, <2>1, AdvanceEffect
  <2>3. CASE Call(t) \/ Read(t)
    <3>1. UNCHANGED <<bus, upd>> /\ pc[t] \notin Writes(t)
      BY <1>1, <1>3, <1>5, <2>3, StepFacts DEF Call, Read
    <3> QED
      BY <1>1, <2>2, <3>1 DEF WriteInv, Topic, Writes
  <2>4. CASE Write(t)
    <3> DEFINE x == Topic(t, pc[t])
    <3>1. pc[t] \in Writes(t) /\ x \in Topics /\ pc[t] > 1
      BY <1>1, <1>5, <2>1, <2>4, StepFacts, ProgFacts
    <3>2. bus'[x] = acc[t] /\ upd'[x] = upd[x] + 1
      BY <1>1, <2>4, <3>1 DEF Write, TypeOK, Topic
    <3>3. \A y \in Topics : y # x => bus'[y] = bus[y] /\ upd'[y] = upd[y]
      BY <1>1, <2>4, <3>1 DEF Write, TypeOK, Topic
    <3>4. bus'[x][t] = cyc[t] /\ upd'[x] = cyc[t]
      <4>1. acc[t][t] = cyc[t]
        BY <1>1, <2>1, <3>1 DEF RunInv
      <4>2. upd[x] = cyc[t] - 1
        <5>1. upd[x] = Current(t, pc[t]) /\ pc[t] <= pc[t]
          BY <1>1, <3>1 DEF WriteInv, TypeOK
        <5> QED
          BY <2>1, <5>1 DEF Current
      <4> QED
        BY <1>2, <3>2, <4>1, <4>2
    <3>5. ASSUME NEW u \in Tasks, NEW i \in Writes(u)
          PROVE  bus'[Topic(u, i)][u] = Current(u, i)' /\ upd'[Topic(u, i)] = Current(u, i)'
      <4>1. CASE u = t /\ i = pc[t]
        BY <2>2, <3>4, <4>1
      <4>2. CASE ~(u = t /\ i = pc[t])
        <5>1. Topic(u, i) # x /\ Topic(u, i) \in Topics
          BY <3>1, <4>2, SingleWriter, ProgFacts
        <5> QED
          BY <1>1, <2>2, <3>3, <4>2, <5>1 DEF WriteInv
      <4> QED
        BY <4>1, <4>2
    <3> QED
      BY <3>5 DEF WriteInv, Topic, Writes
  <2> QED
    BY <1>5, <2>3, <2>4 DEF Step
<1>6. CASE UNCHANGED vars
  BY <1>1, <1>6 DEF vars, WriteInv, Current, Topic, Writes
<1> QED
  BY <1>4, <1>5, <1>6 DEF Next, ClockStep

LEMMA PublicStep == IInv /\ [Next]_vars => PublicInv'
<1> SUFFICES ASSUME IInv, [Next]_vars PROVE PublicInv'
  OBVIOUS
<1>1. TypeOK /\ RunInv /\ PublicInv
  BY DEF IInv
<1>2. cyc \in [Tasks -> Nat]
  BY <1>1 DEF TypeOK, Stamp
<1>3. \A u \in Tasks : Public(u) \in Int /\ Public(u) <= cyc[u]
  BY <1>2 DEF Public
<1>4. ASSUME NEW t \in Tasks, ClockStep(t) PROVE PublicInv'
  <2>1. UNCHANGED <<bus, got, acc>>
    BY <1>1, <1>4, ClockStepEffect
  <2>2. \A u \in Tasks : Public(u)' = Public(u) /\ cyc[u] <= cyc'[u]
    BY <1>1, <1>4, ClockStepEffect
  <2>3. \A u, p \in Tasks : acc[u][p] \in Nat /\ cyc'[u] \in Nat
    BY <1>1, TypeStep DEF TypeOK, Stamp
  <2> QED
    BY <1>1, <1>2, <2>1, <2>2, <2>3 DEF PublicInv
<1>5. ASSUME NEW t \in Tasks, Step(t) PROVE PublicInv'
  <2>1. /\ mode[t] = "running" /\ Advance(t) /\ UNCHANGED cyc
        /\ pc[t] \in DOMAIN Prog[t]
    BY <1>1, <1>5, StepFacts
  <2>2. \A u \in Tasks : Public(u) <= Public(u)'
    BY <1>1, <2>1, AdvanceEffect
  <2>3. \A u \in Tasks : Public(u)' \in Int
    BY <1>2, <2>1 DEF Public
  <2>4. /\ \A x \in Topics : bus[x] \in Stamp
        /\ \A u \in Tasks : acc[u] \in Stamp
        /\ \A u \in Tasks : \A i \in DOMAIN Prog[u] : got[u][i] \in Stamp
    BY <1>1 DEF TypeOK
  <2>5. ASSUME NEW p \in Tasks, NEW x \in Topics PROVE bus'[x][p] <= Public(p)'
    <3>1. CASE bus'[x] = bus[x]
      <4>1. bus[x][p] <= Public(p) /\ bus[x][p] \in Nat
        BY <1>1, <2>4 DEF PublicInv, Stamp
      <4> QED
        BY <1>3, <2>2, <2>3, <3>1, <4>1
    <3>2. CASE bus'[x] # bus[x]
      <4>1. Write(t) /\ bus'[x] = acc[t]
        BY <1>1, <1>5, <3>2 DEF Step, Call, Read, Write, TypeOK
      <4>2. Public(t)' = cyc[t]
        BY <1>1, <1>5, <2>1, <4>1, StepFacts, AdvanceEffect
      <4>3. acc[t][p] <= IF t = p THEN cyc[p] ELSE Public(p)
        BY <1>1 DEF PublicInv
      <4>4. acc[t][p] \in Nat
        BY <2>4 DEF Stamp
      <4> QED
        BY <1>3, <2>2, <2>3, <4>1, <4>2, <4>3, <4>4
    <3> QED
      BY <3>1, <3>2
  <2>6. ASSUME NEW p \in Tasks, NEW u \in Tasks, NEW i \in DOMAIN Prog[u]
        PROVE  got'[u][i][p] <= Public(p)'
    <3>1. got[u][i][p] <= Public(p) /\ got[u][i][p] \in Nat
      BY <1>1, <2>4 DEF PublicInv, Stamp
    <3>2. CASE got'[u][i] = got[u][i]
      BY <1>3, <2>2, <2>3, <3>1, <3>2
    <3>3. CASE got'[u][i] # got[u][i]
      <4>1. Read(t) /\ got'[u][i] = bus[Topic(t, pc[t])]
        BY <1>1, <1>5, <3>3 DEF Step, Call, Read, Write, TypeOK, Topic
      <4>2. Topic(t, pc[t]) \in Topics
        BY <1>1, <1>5, <4>1, StepFacts
      <4>3. bus[Topic(t, pc[t])][p] <= Public(p) /\ bus[Topic(t, pc[t])][p] \in Nat
        BY <1>1, <2>4, <4>2 DEF PublicInv, Stamp
      <4> QED
        BY <1>3, <2>2, <2>3, <4>1, <4>3
    <3> QED
      BY <3>2, <3>3
  <2>7. ASSUME NEW p \in Tasks, NEW u \in Tasks
        PROVE  acc'[u][p] <= IF u = p THEN cyc'[p] ELSE Public(p)'
    <3>1. acc[u][p] <= IF u = p THEN cyc[p] ELSE Public(p)
      BY <1>1 DEF PublicInv
    <3>2. acc[u][p] \in Nat
      BY <2>4 DEF Stamp
    <3>3. CASE acc'[u] = acc[u]
      BY <1>2, <1>3, <2>1, <2>2, <2>3, <3>1, <3>2, <3>3
    <3>4. CASE acc'[u] # acc[u] /\ Call(t)
      <4>1. u = t /\ acc'[t] = [Never EXCEPT ![t] = cyc[t]]
        BY <1>1, <3>4 DEF Call, TypeOK
      <4>2. acc'[u][p] = IF u = p THEN cyc[p] ELSE 0
        BY <4>1 DEF Never
      <4>3. 0 <= Public(p)
        <5>1. got[t][pc[t]][p] <= Public(p) /\ got[t][pc[t]][p] \in Nat
          BY <1>1, <2>1, <2>4 DEF PublicInv, Stamp
        <5> QED
          BY <5>1, <1>3
      <4> QED
        BY <1>2, <1>3, <2>1, <2>2, <2>3, <4>2, <4>3
    <3>5. CASE acc'[u] # acc[u] /\ Read(t)
      <4> DEFINE x == Topic(t, pc[t])
      <4>1. u = t /\ acc'[t] = Newest(acc[t], bus[x])
        BY <1>1, <3>5 DEF Read, TypeOK, Topic
      <4>2. x \in Topics
        BY <1>1, <1>5, <3>5, StepFacts
      <4>3. acc'[u][p] = IF acc[t][p] > bus[x][p] THEN acc[t][p] ELSE bus[x][p]
        BY <2>4, <4>1, <4>2, NewestType
      <4>4. bus[x][p] <= Public(p) /\ bus[x][p] \in Nat
        BY <1>1, <2>4, <4>2 DEF PublicInv, Stamp
      <4> QED
        BY <1>2, <1>3, <2>1, <2>2, <2>3, <3>1, <3>2, <4>1, <4>3, <4>4
    <3>6. Write(t) => UNCHANGED acc
      BY DEF Write
    <3> QED
      BY <1>5, <3>3, <3>4, <3>5, <3>6 DEF Step
  <2> QED
    BY <2>5, <2>6, <2>7 DEF PublicInv
<1>6. CASE UNCHANGED vars
  BY <1>1, <1>6 DEF vars, PublicInv, Public, Writes
<1> QED
  BY <1>4, <1>5, <1>6 DEF Next, ClockStep

LEMMA SeenStep == IInv /\ [Next]_vars => SeenInv'
<1> SUFFICES ASSUME IInv, [Next]_vars PROVE SeenInv'
  OBVIOUS
<1>1. TypeOK /\ SeenInv
  BY DEF IInv
<1>2. seen \in [Tasks -> Nat] /\ upd \in [Topics -> Nat]
  BY <1>1 DEF TypeOK
<1>3. \A u \in Tasks : Clock[u] # NoTopic => Clock[u] \in Topics
  BY DataflowAssumption
<1>4. ASSUME NEW t \in Tasks, Tick(t) \/ BeginWait(t) \/ Wake(t) \/ WaitFails(t)
      PROVE  SeenInv'
  <2>1. \/ UNCHANGED seen
        \/ seen' = [seen EXCEPT ![t] = upd[Clock[t]]]
    BY <1>4 DEF Tick, BeginWait, Wake, WaitFails
  <2>2. UNCHANGED upd
    BY <1>1, <1>4, ClockStepEffect DEF ClockStep
  <2> QED
    BY <1>1, <1>2, <1>3, <2>1, <2>2 DEF SeenInv
<1>5. ASSUME NEW t \in Tasks, Step(t) PROVE SeenInv'
  <2>1. UNCHANGED seen
    BY <1>1, <1>5, StepFacts
  <2>2. \A x \in Topics : upd[x] <= upd'[x] /\ upd'[x] \in Nat
    BY <1>2, <1>5 DEF Step, Call, Read, Write
  <2> QED
    BY <1>1, <1>2, <1>3, <2>1, <2>2 DEF SeenInv
<1>6. CASE UNCHANGED vars
  BY <1>1, <1>6 DEF vars, SeenInv
<1> QED
  BY <1>4, <1>5, <1>6 DEF Next

\* A read leaves in its place of got what the bus holds, and nothing else.
LEMMA GotEffect ==
    ASSUME TypeOK, NEW t \in Tasks, Step(t)
    PROVE  \A u \in Tasks : \A i \in DOMAIN Prog[u] :
              got'[u][i] = IF Read(t) /\ u = t /\ i = pc[t] THEN bus[Topic(t, pc[t])]
                                                         ELSE got[u][i]
<1>1. pc[t] \in DOMAIN Prog[t]
  BY StepFacts
<1>2. CASE Read(t)
  BY <1>1, <1>2 DEF Read, TypeOK, Topic
<1>3. CASE ~Read(t)
  BY <1>3 DEF Step, Call, Write
<1> QED
  BY <1>2, <1>3

\* Only the task that steps can complete a read, and it is a Read step.
LEMMA DoneEffect ==
    ASSUME TypeOK, NEW t \in Tasks, Step(t)
    PROVE  \A u \in Tasks : \A i \in Reads(u) :
              DoneNow(u, i)' => DoneNow(u, i) \/ (Read(t) /\ u = t /\ i = pc[t])
<1>1. mode[t] = "running" /\ Advance(t) /\ UNCHANGED cyc
  BY StepFacts
<1>2. \A u \in Tasks : \A i \in Reads(u) :
          DoneNow(u, i)' => DoneNow(u, i) \/ (u = t /\ i = pc[t])
  BY <1>1, AdvanceEffect, ProgFacts
<1>3. pc[t] \in Reads(t) => Read(t)
  BY StepFacts, ProgFacts DEF Step
<1> QED
  BY <1>2, <1>3

LEMMA BatchStep == IInv /\ [Next]_vars => BatchOrder'
<1> SUFFICES ASSUME IInv, [Next]_vars,
                    NEW u \in Tasks, NEW i \in Reads(u), NEW m \in Writes(u),
                    Topic(u, i) = Topic(u, m), DoneNow(u, i)'
             PROVE  got'[u][i][u] = IF m < i THEN cyc'[u] ELSE cyc'[u] - 1
  BY DEF BatchOrder, Reads, Writes, Topic
<1>1. TypeOK /\ WriteInv /\ BatchOrder
  BY DEF IInv
<1>2. i \in DOMAIN Prog[u] /\ i \in Nat /\ m \in Nat /\ i # m
  BY ProgFacts
<1>3. DoneNow(u, i) => got[u][i][u] = IF m < i THEN cyc[u] ELSE cyc[u] - 1
  BY <1>1 DEF BatchOrder
<1>4. ASSUME NEW t \in Tasks, ClockStep(t)
      PROVE  DoneNow(u, i) /\ cyc'[u] = cyc[u] /\ got'[u][i] = got[u][i]
  BY <1>1, <1>2, <1>4, ClockStepEffect
<1>5. ASSUME NEW t \in Tasks, Step(t)
      PROVE  got'[u][i][u] = IF m < i THEN cyc'[u] ELSE cyc'[u] - 1
  <2>1. UNCHANGED cyc /\ mode[t] = "running"
    BY <1>1, <1>5, StepFacts
  <2>2. CASE DoneNow(u, i)
    <3>1. i # pc[u]
      BY <1>1, <1>2, <2>2 DEF DoneNow, TypeOK
    <3> QED
      BY <1>1, <1>2, <1>3, <1>5, <2>1, <2>2, <3>1, GotEffect
  <2>3. CASE Read(t) /\ u = t /\ i = pc[t]
    <3>1. got'[u][i] = bus[Topic(u, m)]
      BY <1>1, <1>2, <1>5, <2>3, GotEffect
    <3>2. bus[Topic(u, m)][u] = Current(u, m)
      BY <1>1 DEF WriteInv
    <3>3. Current(u, m) = IF m < i THEN cyc[u] ELSE cyc[u] - 1
      BY <1>2, <2>1, <2>3 DEF Current
    <3> QED
      BY <2>1, <3>1, <3>2, <3>3
  <2> QED
    BY <1>1, <1>5, <2>2, <2>3, DoneEffect
<1>6. CASE UNCHANGED vars
  BY <1>3, <1>6 DEF vars, DoneNow
<1> QED
  BY <1>3, <1>4, <1>5, <1>6 DEF Next, ClockStep

LEMMA FreshStep == IInv /\ [Next]_vars => ClockedFreshness'
<1> SUFFICES ASSUME IInv, [Next]_vars,
                    NEW u \in Tasks, NEW p \in Tasks, NEW i \in Reads(u),
                    NEW k \in Writes(p), NEW m \in Writes(p),
                    DoneNow(u, i)', Topic(p, k) = Clock[u], Topic(p, m) = Topic(u, i)
             PROVE  seen'[u] <= got'[u][i][p] + (IF m <= k THEN 0 ELSE 1)
  BY DEF ClockedFreshness, Reads, Writes, Topic
<1>1. TypeOK /\ WriteInv /\ SeenInv /\ ClockedFreshness
  BY DEF IInv
<1>2. i \in DOMAIN Prog[u] /\ i \in Nat /\ m \in Nat /\ k \in Nat
  BY ProgFacts
<1>3. DoneNow(u, i) => seen[u] <= got[u][i][p] + (IF m <= k THEN 0 ELSE 1)
  BY <1>1 DEF ClockedFreshness
<1>4. ASSUME NEW t \in Tasks, ClockStep(t)
      PROVE  DoneNow(u, i) /\ seen'[u] = seen[u] /\ got'[u][i] = got[u][i]
  BY <1>1, <1>2, <1>4, ClockStepEffect
<1>5. ASSUME NEW t \in Tasks, Step(t)
      PROVE  seen'[u] <= got'[u][i][p] + (IF m <= k THEN 0 ELSE 1)
  <2>1. UNCHANGED seen
    BY <1>1, <1>5, StepFacts
  <2>2. CASE DoneNow(u, i)
    <3>1. i # pc[u]
      BY <1>1, <1>2, <2>2 DEF DoneNow, TypeOK
    <3> QED
      BY <1>1, <1>2, <1>3, <1>5, <2>1, <2>2, <3>1, GotEffect
  <2>3. CASE Read(t) /\ u = t /\ i = pc[t]
    <3>1. got'[u][i] = bus[Topic(p, m)]
      BY <1>1, <1>2, <1>5, <2>3, GotEffect
    <3>2. bus[Topic(p, m)][p] = Current(p, m) /\ upd[Clock[u]] = Current(p, k)
      BY <1>1 DEF WriteInv
    <3>3. seen[u] <= Current(p, k)
      <4>1. Clock[u] # NoTopic
        BY ProgFacts, DataflowAssumption
      <4> QED
        BY <1>1, <3>2, <4>1 DEF SeenInv
    <3>4. cyc[p] \in Nat /\ pc[p] \in Nat /\ seen[u] \in Nat
      BY <1>1 DEF TypeOK, Stamp
    <3>5. Current(p, k) <= Current(p, m) + (IF m <= k THEN 0 ELSE 1)
      BY <1>2, <3>4 DEF Current
    <3>6. Current(p, k) \in Int /\ Current(p, m) \in Int
      BY <3>4 DEF Current
    <3> QED
      BY <2>1, <3>1, <3>2, <3>3, <3>4, <3>5, <3>6
  <2> QED
    BY <1>1, <1>5, <2>2, <2>3, DoneEffect
<1>6. CASE UNCHANGED vars
  BY <1>3, <1>6 DEF vars, DoneNow
<1> QED
  BY <1>3, <1>4, <1>5, <1>6 DEF Next, ClockStep

LEMMA CausalStep == IInv /\ [Next]_vars => CausalReads'
<1> SUFFICES ASSUME IInv, [Next]_vars,
                    NEW u \in Tasks, NEW p \in Tasks, NEW i \in Reads(u),
                    NEW j \in Reads(u), NEW m \in Writes(p),
                    u # p, i < j, DoneNow(u, j)', Topic(p, m) = Topic(u, j)
             PROVE  got'[u][i][p] <= got'[u][j][p]
                       + (IF \A k \in Writes(p) : m <= k THEN 0 ELSE 1)
  BY DEF CausalReads, Reads, Writes, Topic
<1> DEFINE slack == IF \A k \in Writes(p) : m <= k THEN 0 ELSE 1
<1>1. TypeOK /\ WriteInv /\ PublicInv /\ CausalReads
  BY DEF IInv
<1>2. /\ i \in DOMAIN Prog[u] /\ i \in Nat /\ j \in DOMAIN Prog[u] /\ j \in Nat
      /\ m \in Nat /\ Writes(p) \subseteq Nat
  BY ProgFacts
<1>3. DoneNow(u, j) => got[u][i][p] <= got[u][j][p] + slack
  BY <1>1 DEF CausalReads
<1>4. ASSUME NEW t \in Tasks, ClockStep(t)
      PROVE  DoneNow(u, j) /\ got'[u][i] = got[u][i] /\ got'[u][j] = got[u][j]
  BY <1>1, <1>2, <1>4, ClockStepEffect
<1>5. ASSUME NEW t \in Tasks, Step(t)
      PROVE  got'[u][i][p] <= got'[u][j][p] + slack
  <2>1. CASE DoneNow(u, j)
    <3>1. j # pc[u] /\ i # pc[u]
      BY <1>1, <1>2, <2>1 DEF DoneNow, TypeOK
    <3>2. got'[u][i] = got[u][i] /\ got'[u][j] = got[u][j]
      BY <1>1, <1>2, <1>5, <3>1, GotEffect
    <3> QED
      BY <1>3, <2>1, <3>2
  <2>2. CASE Read(t) /\ u = t /\ j = pc[t]
    <3>1. got'[u][j] = bus[Topic(p, m)] /\ got'[u][i] = got[u][i]
      BY <1>1, <1>2, <1>5, <2>2, GotEffect
    <3>2. bus[Topic(p, m)][p] = Current(p, m)
      BY <1>1 DEF WriteInv
    <3>3. got[u][i][p] <= Public(p)
      BY <1>1, <1>2 DEF PublicInv
    <3>4. cyc[p] \in Nat /\ pc[p] \in Nat /\ got[u][i][p] \in Nat
      BY <1>1, <1>2 DEF TypeOK, Stamp
    <3>5. Public(p) <= Current(p, m) + slack
      BY <1>2, <3>4 DEF Public, Current
    <3>6. Public(p) \in Int /\ Current(p, m) \in Int /\ slack \in Int
      BY <3>4 DEF Public, Current
    <3> QED
      BY <3>1, <3>2, <3>3, <3>4, <3>5, <3>6
  <2> QED
    BY <1>1, <1>5, <2>1, <2>2, DoneEffect
<1>6. CASE UNCHANGED vars
  BY <1>3, <1>6 DEF vars, DoneNow
<1> QED
  BY <1>3, <1>4, <1>5, <1>6 DEF Next, ClockStep

-----------------------------------------------------------------------------
LEMMA DataflowInvariant == Spec => []IInv
<1>1. IInv /\ [Next]_vars => IInv'
  BY TypeStep, RunStep, WriteStep, PublicStep, SeenStep, BatchStep, FreshStep, CausalStep
     DEF IInv
<1> QED
  BY InitIInv, <1>1, PTL DEF Spec

\* The variables of the running system keep their types in every system.
THEOREM DataflowTypes == Spec => []TypeOK
<1>1. IInv => TypeOK
  BY DEF IInv
<1> QED
  BY DataflowInvariant, <1>1, PTL

\* The outputs of a task are never torn by more than one execution.
THEOREM DataflowSkew == Spec => []PublishSkew
<1>1. IInv => PublishSkew
  <2> SUFFICES ASSUME IInv, NEW p \in Tasks, NEW i \in Writes(p), NEW j \in Writes(p), i < j
               PROVE  /\ bus[Topic(p, j)][p] <= bus[Topic(p, i)][p]
                      /\ bus[Topic(p, i)][p] <= bus[Topic(p, j)][p] + 1
    BY DEF PublishSkew
  <2>1. bus[Topic(p, i)][p] = Current(p, i) /\ bus[Topic(p, j)][p] = Current(p, j)
    BY DEF IInv, WriteInv
  <2>2. cyc[p] \in Nat /\ pc[p] \in Nat
    BY DEF IInv, TypeOK, Stamp
  <2>3. i \in Nat /\ j \in Nat
    BY ProgFacts
  <2> QED
    BY <2>1, <2>2, <2>3 DEF Current
<1> QED
  BY DataflowInvariant, <1>1, PTL

\* A function of a flow sees this execution's results of the functions before
\* it in the batch and the last execution's results of the others.
THEOREM DataflowBatchOrder == Spec => []BatchOrder
<1>1. IInv => BatchOrder
  BY DEF IInv
<1> QED
  BY DataflowInvariant, <1>1, PTL

\* A task's inputs from the producer of its clock are as new as the update it
\* woke for, but for topics published after the clock topic.
THEOREM DataflowFreshness == Spec => []ClockedFreshness
<1>1. IInv => ClockedFreshness
  BY DEF IInv
<1> QED
  BY DataflowInvariant, <1>1, PTL

\* The reads of one execution never see another task run backwards by more
\* than the one execution whose publication they may overlap.
THEOREM DataflowCausality == Spec => []CausalReads
<1>1. IInv => CausalReads
  BY DEF IInv
<1> QED
  BY DataflowInvariant, <1>1, PTL
=============================================================================
