--------------------------- MODULE StartupProofs ----------------------------
(***************************************************************************)
(* Proofs about Startup, for every number of tasks and services and every  *)
(* set of configurations.                                                  *)
(***************************************************************************)
EXTENDS Startup, TLAPS

\* The phases that lie before a phase.
Before == [init |-> {}, params |-> {"init"}, outputs |-> {"init", "params"},
           inputs |-> {"init", "params", "outputs"},
           preexec |-> {"init", "params", "outputs", "inputs"}]

Executing == {"start", "task", "returned"}

\* A phase without errors so far has been passed by the tasks it went through,
\* and a phase is only left without errors.
ProgressInv ==
    /\ pc = "busses" => i = 1
    /\ pc \in Phases => \A t \in Tasks : Before[pc] \subseteq passed[t]
    /\ pc \in Phases /\ errs = 0 => \A t \in Tasks : t < i => pc \in passed[t]
    /\ pc \in {"services"} \cup Executing => \A t \in Tasks : passed[t] = Phases
    /\ ran # {} => pc \in Executing
    /\ \A t \in Tasks : thread[t] = "running" => pc \in Executing

\* A task whose outputs are initialised owns their topics, but for those a flow
\* skipped; an ibr whose inputs are initialised owns its func sources.
OwnerInv ==
    \A t \in Tasks :
        /\ "outputs" \in passed[t] => \A x \in Outs(t) \ skipped[t] : owner[x] = t
        /\ "inputs" \in passed[t] => \A x \in FuncTopics(t) : owner[x] = t

\* The loop over the tasks comes to its end only past an ibr.
LastInv == pc = "start" /\ i = N + 1 => ExecOnce(N)

\* Inputs are connected to what they name, if it is proclaimed; a call that
\* succeeded connected them all, but for those a flow skipped.
FedInv ==
    \A t \in Tasks :
        /\ links[t] \subseteq Ins(t) \cap Proclaimed
        /\ clkTd[t] => ClkConnected(t)
        /\ sys.type[t] # "flow" => skipped[t] = {}
        /\ "outputs" \in passed[t] /\ sys.type[t] = "ebr" => Ins(t) \subseteq links[t]
        /\ "inputs" \in passed[t] /\ sys.type[t] \in {"flow", "fsm"}
              => Ins(t) \ skipped[t] \subseteq links[t]
        /\ "inputs" \in passed[t] /\ sys.clk[t] # NoTopic => clkTd[t]

IInv ==
    /\ TypeOK
    /\ ProgressInv
    /\ OwnerInv
    /\ LastInv
    /\ FedInv
    /\ EndsForAReason

-----------------------------------------------------------------------------
LEMMA SysType == TypeOK => sys \in SystemType
  BY StartupAssumption DEF TypeOK

LEMMA TopicFacts ==
    ASSUME TypeOK, NEW t \in Tasks
    PROVE  Outs(t) \subseteq Topics /\ Ins(t) \subseteq Topics /\ FuncTopics(t) \subseteq Ins(t)
<1>1. sys.outs[t] \subseteq Topics /\ sys.ins[t] \subseteq Topics
  BY SysType DEF SystemType
<1> QED
  BY <1>1 DEF Outs, Ins, FuncTopics

\* The topics of a task are a matter of the configuration.
LEMMA TopicsKept ==
    ASSUME sys' = sys, NEW t
    PROVE  /\ Outs(t)' = Outs(t) /\ Ins(t)' = Ins(t) /\ FuncTopics(t)' = FuncTopics(t)
           /\ FuncSource(t)' = FuncSource(t) /\ Produces(t)' = Produces(t)
  BY DEF Outs, Ins, FuncTopics, FuncSource, Produces

LEMMA InitIInv == Init => IInv
<1> SUFFICES ASSUME Init PROVE IInv
  OBVIOUS
<1>1. TypeOK
  BY StartupAssumption DEF Init, TypeOK, Phases, Tasks
<1>2. ProgressInv
  BY DEF Init, ProgressInv, Phases, Executing
<1>3. OwnerInv
  BY DEF Init, OwnerInv
<1>4. LastInv /\ EndsForAReason
  BY DEF Init, LastInv, EndsForAReason
<1>5. FedInv
  BY DEF Init, FedInv
<1> QED
  BY <1>1, <1>2, <1>3, <1>4, <1>5 DEF IInv

-----------------------------------------------------------------------------
\* What the bookkeeping of a call does.
LEMMA ResultEffect ==
    ASSUME TypeOK, pc \in Phases, NEW t \in Tasks, i = t,
           NEW ok \in BOOLEAN, NEW own \in BOOLEAN, Result(t, ok, own)
    PROVE  /\ sys' = sys /\ pc' = pc /\ thread' = thread /\ ran' = ran
           /\ i' = t + 1 /\ i' \in 1..N + 1
           /\ errs' = IF ok THEN errs ELSE errs + 1
           /\ passed' = IF ok THEN [passed EXCEPT ![t] = @ \cup {pc}] ELSE passed
           /\ passed' \in [Tasks -> SUBSET Phases]
           /\ broken' \in SUBSET {"setup", "service", "thread", "update"}
           /\ broken \subseteq broken'
<1>1. t \in 1..N /\ N \in Nat
  BY StartupAssumption DEF Tasks
<1>2. passed' \in [Tasks -> SUBSET Phases]
  BY DEF Result, TypeOK
<1>3. /\ broken' \in SUBSET {"setup", "service", "thread", "update"}
      /\ broken \subseteq broken'
  BY DEF Result, TypeOK
<1> QED
  BY <1>1, <1>2, <1>3 DEF Result

\* The calls of the phases all end in Result; they differ in what they do to
\* the bus.
Call(t) ==
    \/ \E p \in {"init", "params", "preexec"} : CallPlain(p, t)
    \/ InitOutputs(t) \/ InitInputs(t)

\* What any call does to the bus and to its task: topics are taken only when
\* they are free, and passing a phase means that it was done.
CallKind(t, ok) ==
    /\ \A x \in Topics : owner'[x] # owner[x] => owner[x] = 0 /\ owner'[x] = t
    /\ \A u \in Tasks : skipped[u] \subseteq skipped'[u]
    /\ pc = "outputs" /\ ok => \A x \in Outs(t) \ skipped'[t] : owner'[x] = t
    /\ pc = "inputs" /\ ok => \A x \in FuncTopics(t) : owner'[x] = t

BusType ==
    /\ owner' \in [Topics -> 0..N]
    /\ links' \in [Tasks -> SUBSET Topics]
    /\ clkTd' \in [Tasks -> BOOLEAN]
    /\ skipped' \in [Tasks -> SUBSET Topics]

LEMMA ProclaimEffect ==
    ASSUME TypeOK, NEW t \in Tasks, NEW topics, topics \subseteq Topics, Proclaim(t, topics)
    PROVE  /\ owner' \in [Topics -> 0..N]
           /\ \A x \in Topics : owner'[x] # owner[x] => owner[x] = 0 /\ owner'[x] = t
           /\ \A x \in topics : x \notin Proclaimed => owner'[x] = t
<1>1. t \in 0..N
  BY StartupAssumption DEF Tasks
<1>2. owner' = [x \in Topics |-> IF x \in topics \ Proclaimed THEN t ELSE owner[x]]
  BY DEF Proclaim
<1> QED
  BY <1>1, <1>2 DEF Proclaimed, TypeOK

LEMMA TriesEffect ==
    ASSUME TypeOK, NEW t \in Tasks, NEW all, all \subseteq Topics, NEW tried,
           NEW own, own \in BOOLEAN, Tries(t, all, tried, own)
    PROVE  /\ skipped' \in [Tasks -> SUBSET Topics]
           /\ \A u \in Tasks : skipped[u] \subseteq skipped'[u]
           /\ \A u \in Tasks : u # t => skipped'[u] = skipped[u]
           /\ ~own => all \ tried \subseteq skipped'[t]
           /\ sys.type[t] # "flow" => skipped' = skipped /\ (~own => tried = all)
<1>1. skipped \in [Tasks -> SUBSET Topics]
  BY DEF TypeOK
<1>2. CASE own
  BY <1>1, <1>2 DEF Tries
<1>3. CASE ~own
  <2>1. skipped' = [skipped EXCEPT ![t] = @ \cup (all \ tried)]
    BY <1>3 DEF Tries
  <2>2. tried = all \/ sys.type[t] = "flow"
    BY <1>3 DEF Tries, MaySkip
  <2>3. tried = all => skipped' = skipped
    BY <1>1, <2>1
  <2> QED
    BY <1>1, <1>3, <2>1, <2>2, <2>3
<1> QED
  BY <1>2, <1>3

LEMMA CallEffect ==
    ASSUME TypeOK, NEW t \in Tasks, Call(t)
    PROVE  /\ pc \in Phases /\ i = t
           /\ BusType
           /\ \E ok \in BOOLEAN, own \in BOOLEAN : Result(t, ok, own) /\ CallKind(t, ok)
<1>0. Outs(t) \subseteq Topics /\ Ins(t) \subseteq Topics /\ Due(t) \subseteq Outs(t)
  BY TopicFacts DEF Due
<1>2. ASSUME NEW p \in {"init", "params", "preexec"}, CallPlain(p, t)
      PROVE  /\ pc \in Phases /\ i = t
             /\ BusType
             /\ \E ok \in BOOLEAN, own \in BOOLEAN : Result(t, ok, own) /\ CallKind(t, ok)
  <2>1. /\ pc = p /\ i = t /\ owner' = owner /\ links' = links /\ clkTd' = clkTd
        /\ skipped' = skipped
    BY <1>2 DEF CallPlain, At
  <2>2. PICK ok \in BOOLEAN : Result(t, ok, ~ok)
    BY <1>2 DEF CallPlain
  <2>3. CallKind(t, ok)
    BY <2>1 DEF CallKind
  <2> QED
    BY <2>1, <2>2, <2>3 DEF TypeOK, Phases, BusType
<1>3. ASSUME InitOutputs(t)
      PROVE  /\ pc \in Phases /\ i = t
             /\ BusType
             /\ \E ok \in BOOLEAN, own \in BOOLEAN : Result(t, ok, own) /\ CallKind(t, ok)
  <2>1. pc = "outputs" /\ i = t /\ clkTd' = clkTd
    BY <1>3 DEF InitOutputs, At
  <2>2. PICK tried \in SUBSET Due(t), own \in BOOLEAN :
            /\ Tries(t, Due(t), tried, own)
            /\ Proclaim(t, tried)
            /\ Result(t, ~own /\ ~Lacking(t) /\ tried \cap Proclaimed = {}, own)
    BY <1>3 DEF InitOutputs
  <2> DEFINE ok == ~own /\ ~Lacking(t) /\ tried \cap Proclaimed = {}
  <2>3. /\ owner' \in [Topics -> 0..N]
        /\ \A x \in Topics : owner'[x] # owner[x] => owner[x] = 0 /\ owner'[x] = t
        /\ \A x \in tried : x \notin Proclaimed => owner'[x] = t
    BY <1>0, <2>2, ProclaimEffect
  <2>4. /\ skipped' \in [Tasks -> SUBSET Topics]
        /\ \A u \in Tasks : skipped[u] \subseteq skipped'[u]
        /\ ~own => Due(t) \ tried \subseteq skipped'[t]
    <3>1. Tries(t, Due(t), tried, own) /\ own \in BOOLEAN
      BY <2>2
    <3>2. Due(t) \subseteq Topics
      BY <1>0
    <3> QED
      BY <3>1, <3>2 DEF TypeOK, Tries
  <2>5. links' \in [Tasks -> SUBSET Topics]
    <3>1. links' = [links EXCEPT ![t] = Ins(t) \cap Proclaimed] \/ links' = links
      BY <1>3 DEF InitOutputs
    <3> QED
      BY <1>0, <3>1 DEF TypeOK
  <2>6. ok => \A x \in Outs(t) \ skipped'[t] : owner'[x] = t
    <3> SUFFICES ASSUME ok, NEW x \in Outs(t) \ skipped'[t] PROVE owner'[x] = t
      OBVIOUS
    <3>1. Due(t) = Outs(t)
      BY DEF Due
    <3>2. x \in tried
      BY <2>4, <3>1
    <3> QED
      BY <2>3, <3>2
  <2>7. CallKind(t, ok)
    BY <2>1, <2>3, <2>4, <2>6 DEF CallKind
  <2>8. ok \in BOOLEAN
    OBVIOUS
  <2> HIDE DEF ok
  <2>9. Result(t, ok, own)
    BY <2>2 DEF ok
  <2> QED
    BY <2>1, <2>3, <2>4, <2>5, <2>7, <2>8, <2>9 DEF TypeOK, Phases, BusType
<1>4. ASSUME InitInputs(t)
      PROVE  /\ pc \in Phases /\ i = t
             /\ BusType
             /\ \E ok \in BOOLEAN, own \in BOOLEAN : Result(t, ok, own) /\ CallKind(t, ok)
  <2>1. pc = "inputs" /\ i = t
    BY <1>4 DEF InitInputs, At
  <2>2. PICK tried \in SUBSET Ins(t), own \in BOOLEAN :
            /\ Tries(t, Ins(t), tried, own)
            /\ Connects(t, tried)
            /\ Result(t, /\ ~own /\ Connected(t, tried)
                         /\ sys.clk[t] # NoTopic => ClkConnected(t), own)
    BY <1>4 DEF InitInputs
  <2> DEFINE ok == /\ ~own /\ Connected(t, tried)
                   /\ sys.clk[t] # NoTopic => ClkConnected(t)
  <2>3. owner' = owner \/ (FuncSource(t) /\ Proclaim(t, tried))
    BY <2>2 DEF Connects
  <2>4. /\ owner' \in [Topics -> 0..N]
        /\ \A x \in Topics : owner'[x] # owner[x] => owner[x] = 0 /\ owner'[x] = t
    <3>1. CASE owner' = owner
      BY <3>1 DEF TypeOK
    <3>2. CASE Proclaim(t, tried)
      BY <1>0, <3>2, ProclaimEffect
    <3> QED
      BY <2>3, <3>1, <3>2
  <2>5. links' = links \/ links' = [links EXCEPT ![t] = @ \cup (tried \cap Proclaimed)]
    BY <2>2 DEF Connects
  <2>6. links' \in [Tasks -> SUBSET Topics]
    BY <1>0, <2>5 DEF TypeOK
  <2>7. clkTd' \in [Tasks -> BOOLEAN]
    <3>1. clkTd' = [clkTd EXCEPT ![t] = ClkConnected(t)] /\ ClkConnected(t) \in BOOLEAN
      BY <1>4 DEF InitInputs, ClkConnected
    <3> QED
      BY <3>1 DEF TypeOK
  <2>8. /\ skipped' \in [Tasks -> SUBSET Topics]
        /\ \A u \in Tasks : skipped[u] \subseteq skipped'[u]
        /\ sys.type[t] # "flow" => (~own => tried = Ins(t))
    <3>1. Tries(t, Ins(t), tried, own) /\ own \in BOOLEAN
      BY <2>2
    <3> QED
      BY <1>0, <3>1 DEF TypeOK, Tries, MaySkip
  <2>9. ok => \A x \in FuncTopics(t) : owner'[x] = t
    <3> SUFFICES ASSUME ok, NEW x \in FuncTopics(t) PROVE owner'[x] = t
      OBVIOUS
    <3>1. FuncSource(t) /\ sys.type[t] = "ibr" /\ x \in Ins(t)
      BY DEF FuncTopics, FuncSource
    <3>2. tried = Ins(t)
      BY <2>8, <3>1
    <3>3. tried \cap Proclaimed = {} /\ Proclaim(t, tried)
      <4>1. Connects(t, tried) /\ Connected(t, tried)
        BY <2>2
      <4> QED
        BY <3>1, <4>1 DEF Connected, Connects, FuncSource
    <3> QED
      BY <1>0, <3>1, <3>2, <3>3, ProclaimEffect
  <2>10. CallKind(t, ok)
    BY <2>1, <2>4, <2>8, <2>9 DEF CallKind
  <2>11. ok \in BOOLEAN
    OBVIOUS
  <2> HIDE DEF ok
  <2>12. Result(t, ok, own)
    BY <2>2 DEF ok
  <2> QED
    BY <2>1, <2>4, <2>6, <2>7, <2>8, <2>10, <2>11, <2>12 DEF Phases, BusType
<1> QED
  BY <1>2, <1>3, <1>4 DEF Call

-----------------------------------------------------------------------------
(* Steps that are no call leave the bus, and what was passed, alone.       *)

Bus == <<sys, owner, links, clkTd, passed, skipped>>

Quiet ==
    \/ CreateBusses \/ EndPhase \/ StartService \/ AllServices \/ AllStarted
    \/ \E t \in Tasks : StartTask(t) \/ RunOnce(t) \/ StartFails(t) \/ RunTask(t) \/ EndTask(t)
    \/ UNCHANGED vars

LEMMA StepKinds == [Next]_vars => Quiet \/ \E t \in Tasks : Call(t)
  BY DEF Next, Main, Quiet, Call

LEMMA QuietBus == Quiet => UNCHANGED Bus
<1>1. CreateBusses \/ EndPhase \/ StartService \/ AllServices \/ AllStarted => UNCHANGED Bus
  BY DEF CreateBusses, EndPhase, StartService, AllServices, AllStarted, Bus
<1>2. \A t \in Tasks : StartTask(t) \/ RunOnce(t) \/ StartFails(t) => UNCHANGED Bus
  BY DEF StartTask, RunOnce, StartFails, Bus
<1>3. \A t \in Tasks : RunTask(t) \/ EndTask(t) => UNCHANGED Bus
  BY DEF RunTask, EndTask, Bus
<1>4. UNCHANGED vars => UNCHANGED Bus
  BY DEF vars, Bus
<1> QED
  BY <1>1, <1>2, <1>3, <1>4 DEF Quiet

LEMMA TypeStep == TypeOK /\ ProgressInv /\ [Next]_vars => TypeOK'
<1> SUFFICES ASSUME TypeOK, ProgressInv, [Next]_vars PROVE TypeOK'
  OBVIOUS
<1>0. N \in Nat \ {0} /\ ServicesNum \in Nat
  BY StartupAssumption
<1>1. ASSUME NEW t \in Tasks, Call(t) PROVE TypeOK'
  <2>1. PICK ok \in BOOLEAN, own \in BOOLEAN : Result(t, ok, own)
    BY <1>1, CallEffect
  <2>2. pc \in Phases /\ i = t /\ BusType
    BY <1>1, CallEffect
  <2>3. /\ sys' = sys /\ pc' = pc /\ thread' = thread /\ ran' = ran
        /\ i' \in 1..N + 1
        /\ errs' = IF ok THEN errs ELSE errs + 1
        /\ passed' \in [Tasks -> SUBSET Phases]
        /\ broken' \in SUBSET {"setup", "service", "thread", "update"}
    BY <2>1, <2>2, ResultEffect
  <2>4. errs' \in Nat /\ pc' # "task"
    BY <2>2, <2>3 DEF TypeOK, Phases
  <2> QED
    BY <1>0, <2>2, <2>3, <2>4 DEF TypeOK, BusType
<1>2. CASE CreateBusses
  <2>1. pc' \in {"init", "refused"} /\ i' = i /\ i \in 1..N + ServicesNum + 1
    BY <1>2 DEF CreateBusses, TypeOK
  <2>2. errs' \in Nat /\ broken' \in SUBSET {"setup", "service", "thread", "update"}
    <3>1. errs \in Nat /\ (errs' = errs \/ errs' = errs + 1)
      BY <1>2 DEF CreateBusses, TypeOK
    <3>2. broken' = broken \/ broken' = broken \cup {"setup"}
      BY <1>2 DEF CreateBusses
    <3>3. errs' \in Nat
      BY <3>1
    <3>4. broken' \in SUBSET {"setup", "service", "thread", "update"}
      BY <3>2 DEF TypeOK
    <3> QED
      BY <3>3, <3>4
  <2>3. pc' = "init" => i' <= N + 1
    BY <1>0, <1>2, <2>1 DEF CreateBusses, ProgressInv
  <2> QED
    BY <1>2, <2>1, <2>2, <2>3 DEF CreateBusses, TypeOK, Phases
<1>3. CASE EndPhase
  BY <1>0, <1>3 DEF EndPhase, TypeOK, Phases, Following
<1>4. CASE StartService
  <2>1. pc' \in {"services", "returned"} /\ i' \in 1..N + ServicesNum + 1
    BY <1>0, <1>4 DEF StartService, TypeOK
  <2>2. broken' \in SUBSET {"setup", "service", "thread", "update"}
    BY <1>4 DEF StartService, TypeOK
  <2> QED
    BY <1>4, <2>1, <2>2 DEF StartService, TypeOK, Phases
<1>5. CASE AllServices
  <2>1. pc' = "start" /\ i' = 1 /\ 1 \in 1..N + ServicesNum + 1 /\ 1 <= N + 1
    BY <1>0, <1>5 DEF AllServices
  <2> QED
    BY <1>5, <2>1 DEF AllServices, TypeOK, Phases
<1>10. CASE AllStarted
  BY <1>10 DEF AllStarted, TypeOK, Phases
<1>6. ASSUME NEW t \in Tasks, StartTask(t) \/ RunOnce(t) \/ StartFails(t) PROVE TypeOK'
  <2>1. pc = "start" /\ i = t /\ t \in 1..N
    BY <1>6 DEF StartTask, RunOnce, StartFails, At, Tasks
  <2>2. CASE StartTask(t)
    <3>1. thread' \in [Tasks -> {"none", "running", "ended"}]
      BY <2>2 DEF StartTask, TypeOK
    <3>2. (pc' = "start" /\ i' = t + 1 /\ t < N) \/ (pc' = "task" /\ i' = t /\ t = N)
      BY <1>0, <2>1, <2>2 DEF StartTask
    <3> QED
      BY <1>0, <2>1, <2>2, <3>1, <3>2 DEF StartTask, TypeOK, Phases
  <2>3. CASE RunOnce(t)
    BY <1>0, <2>1, <2>3 DEF RunOnce, TypeOK, Phases
  <2>4. CASE StartFails(t)
    BY <1>0, <2>1, <2>4 DEF StartFails, TypeOK, Phases
  <2> QED
    BY <1>6, <2>2, <2>3, <2>4
<1>7. ASSUME NEW t \in Tasks, RunTask(t) PROVE TypeOK'
  BY <1>7 DEF RunTask, TypeOK
<1>8. ASSUME NEW t \in Tasks, EndTask(t) PROVE TypeOK'
  <2>1. thread' \in [Tasks -> {"none", "running", "ended"}]
    BY <1>8 DEF EndTask, TypeOK
  <2>2. pc' = pc \/ pc' = "returned"
    BY <1>8 DEF EndTask
  <2> QED
    BY <1>8, <2>1, <2>2 DEF EndTask, TypeOK, Phases
<1>9. CASE UNCHANGED vars
  BY <1>9 DEF vars, TypeOK
<1> QED
  BY <1>1, <1>2, <1>3, <1>4, <1>5, <1>6, <1>7, <1>8, <1>9, <1>10, StepKinds DEF Quiet

LEMMA ProgressStep == TypeOK /\ ProgressInv /\ [Next]_vars => ProgressInv'
<1> SUFFICES ASSUME TypeOK, ProgressInv, [Next]_vars PROVE ProgressInv'
  OBVIOUS
<1>0. N \in Nat \ {0} /\ errs \in Nat
  BY StartupAssumption DEF TypeOK
<1>1. ASSUME NEW t \in Tasks, Call(t) PROVE ProgressInv'
  <2>1. PICK ok \in BOOLEAN, own \in BOOLEAN : Result(t, ok, own)
    BY <1>1, CallEffect
  <2>2. pc \in Phases /\ i = t
    BY <1>1, CallEffect
  <2>3. /\ pc' = pc /\ thread' = thread /\ ran' = ran /\ i' = t + 1
        /\ errs' = IF ok THEN errs ELSE errs + 1
        /\ passed' = IF ok THEN [passed EXCEPT ![t] = @ \cup {pc}] ELSE passed
    BY <2>1, <2>2, ResultEffect
  <2>4. \A u \in Tasks : passed[u] \subseteq passed'[u]
    BY <2>3 DEF TypeOK
  <2>5. pc \notin Executing /\ pc \notin {"busses", "services"}
    BY <2>2 DEF Phases, Executing
  <2>6. ASSUME errs' = 0, NEW u \in Tasks, u < t + 1 PROVE pc \in passed'[u]
    <3>1. ok /\ errs = 0
      BY <1>0, <2>3, <2>6
    <3>2. CASE u = t
      BY <2>3, <3>1, <3>2 DEF TypeOK
    <3>3. CASE u # t
      <4>1. u < t
        BY <2>6, <3>3 DEF Tasks
      <4> QED
        BY <2>2, <2>4, <3>1, <4>1 DEF ProgressInv
    <3> QED
      BY <3>2, <3>3
  <2>7. \A u \in Tasks : Before[pc] \subseteq passed'[u]
    BY <2>2, <2>4 DEF ProgressInv
  <2>8. ran = {} /\ \A u \in Tasks : thread[u] # "running"
    BY <2>5 DEF ProgressInv
  <2> QED
    BY <2>3, <2>5, <2>6, <2>7, <2>8 DEF ProgressInv
<1>2. CASE CreateBusses
  <2>1. /\ passed' = passed /\ thread' = thread /\ ran' = ran /\ i' = 1
        /\ pc' = "init" \/ pc' = "refused"
    BY <1>2 DEF CreateBusses, ProgressInv
  <2>2. ran = {} /\ \A u \in Tasks : thread[u] # "running"
    BY <1>2 DEF CreateBusses, ProgressInv, Executing
  <2>3. Before["init"] = {} /\ \A u \in Tasks : ~(u < 1)
    BY DEF Before, Tasks
  <2> QED
    BY <2>1, <2>2, <2>3 DEF ProgressInv, Executing, Phases
<1>3. CASE EndPhase
  <2>1. /\ pc \in Phases /\ i = N + 1 /\ i' = 1 /\ errs' = 0
        /\ passed' = passed /\ thread' = thread /\ ran' = ran
        /\ pc' = IF errs > 0 THEN "refused" ELSE Following[pc]
    BY <1>3 DEF EndPhase
  <2>2. ran = {} /\ \A u \in Tasks : thread[u] # "running"
    BY <2>1 DEF ProgressInv, Executing, Phases
  <2>3. CASE errs > 0
    BY <2>1, <2>2, <2>3 DEF ProgressInv, Executing, Phases
  <2>4. CASE errs = 0
    <3>1. \A u \in Tasks : u < i
      BY <1>0, <2>1 DEF Tasks
    <3>2. \A u \in Tasks : Before[pc] \cup {pc} \subseteq passed[u]
      BY <2>1, <2>4, <3>1 DEF ProgressInv
    <3>3. pc' = Following[pc]
      BY <1>0, <2>1, <2>4
    <3>4. pc' \in Phases => Before[pc'] \subseteq Before[pc] \cup {pc}
      BY <2>1, <3>3 DEF Phases, Before, Following
    <3>5. pc' = "services" => Before[pc] \cup {pc} = Phases
      BY <2>1, <3>3 DEF Phases, Before, Following
    <3>6. pc' \in Phases \cup {"services"} /\ pc' \notin Executing \cup {"busses"}
      BY <2>1, <3>3 DEF Phases, Following, Executing
    <3>7. \A u \in Tasks : passed[u] \subseteq Phases
      BY DEF TypeOK
    <3>8. pc' = "services" => \A u \in Tasks : passed'[u] = Phases
      BY <2>1, <3>2, <3>5, <3>7
    <3>9. pc' \in Phases => \A u \in Tasks : Before[pc'] \subseteq passed'[u]
      BY <2>1, <3>2, <3>4
    <3>10. \A u \in Tasks : ~(u < 1)
      BY DEF Tasks
    <3> QED
      BY <2>1, <2>2, <3>6, <3>8, <3>9, <3>10 DEF ProgressInv
  <2> QED
    BY <1>0, <2>3, <2>4
<1>4. CASE StartService \/ AllServices
  <2>1. /\ pc = "services" /\ pc' \in {"services"} \cup Executing
        /\ passed' = passed /\ thread' = thread /\ ran' = ran
    BY <1>4 DEF StartService, AllServices, Executing
  <2>2. ran = {} /\ \A u \in Tasks : thread[u] # "running"
    BY <2>1 DEF ProgressInv, Executing
  <2> QED
    BY <2>1, <2>2 DEF ProgressInv, Executing, Phases
<1>5. ASSUME /\ pc \in Executing /\ pc' \in Executing /\ passed' = passed
      PROVE  ProgressInv'
  BY <1>5 DEF ProgressInv, Executing, Phases
<1>6. CASE AllStarted
  BY <1>5, <1>6 DEF AllStarted, Executing
<1>7. ASSUME NEW t \in Tasks, StartTask(t) \/ RunOnce(t) \/ StartFails(t) PROVE ProgressInv'
  BY <1>5, <1>7 DEF StartTask, RunOnce, StartFails, At, Executing
<1>8. ASSUME NEW t \in Tasks, RunTask(t) \/ EndTask(t) PROVE ProgressInv'
  BY <1>5, <1>8 DEF RunTask, EndTask, ProgressInv, Executing
<1>9. CASE UNCHANGED vars
  BY <1>9 DEF vars, ProgressInv
<1> QED
  BY <1>1, <1>2, <1>3, <1>4, <1>6, <1>7, <1>8, <1>9, StepKinds DEF Quiet

LEMMA OwnerStep == TypeOK /\ OwnerInv /\ [Next]_vars => OwnerInv'
<1> SUFFICES ASSUME TypeOK, OwnerInv, [Next]_vars PROVE OwnerInv'
  OBVIOUS
<1>1. CASE Quiet
  <2>1. /\ sys' = sys /\ owner' = owner /\ passed' = passed /\ skipped' = skipped
    BY <1>1, QuietBus DEF Bus
  <2> QED
    BY <2>1, TopicsKept DEF OwnerInv
<1>2. ASSUME NEW t \in Tasks, Call(t) PROVE OwnerInv'
  <2>1. PICK ok \in BOOLEAN, own \in BOOLEAN : Result(t, ok, own) /\ CallKind(t, ok)
    BY <1>2, CallEffect
  <2>2. pc \in Phases /\ i = t
    BY <1>2, CallEffect
  <2>3. /\ sys' = sys
        /\ passed' = IF ok THEN [passed EXCEPT ![t] = @ \cup {pc}] ELSE passed
    BY <2>1, <2>2, ResultEffect
  <2>4. ASSUME NEW u \in Tasks, NEW x \in Topics, owner[x] = u PROVE owner'[x] = u
    <3>1. u # 0
      BY StartupAssumption DEF Tasks
    <3> QED
      BY <2>1, <2>4, <3>1 DEF CallKind
  <2>5. ASSUME NEW u \in Tasks, NEW p, p \in passed'[u], p \notin passed[u]
        PROVE  u = t /\ ok /\ pc = p
    BY <2>3, <2>5 DEF TypeOK
  <2>6. ASSUME NEW u \in Tasks, "outputs" \in passed'[u], NEW x \in Outs(u) \ skipped'[u]
        PROVE  owner'[x] = u
    <3>1. x \in Topics /\ x \notin skipped[u]
      BY <2>1, TopicFacts DEF CallKind
    <3>2. CASE "outputs" \in passed[u]
      BY <2>4, <3>1, <3>2 DEF OwnerInv
    <3>3. CASE "outputs" \notin passed[u]
      BY <2>1, <2>5, <2>6, <3>3 DEF CallKind
    <3> QED
      BY <3>2, <3>3
  <2>7. ASSUME NEW u \in Tasks, "inputs" \in passed'[u], NEW x \in FuncTopics(u)
        PROVE  owner'[x] = u
    <3>1. x \in Topics
      BY TopicFacts
    <3>2. CASE "inputs" \in passed[u]
      BY <2>4, <3>1, <3>2 DEF OwnerInv
    <3>3. CASE "inputs" \notin passed[u]
      BY <2>1, <2>5, <2>7, <3>3 DEF CallKind
    <3> QED
      BY <3>2, <3>3
  <2> QED
    BY <2>3, <2>6, <2>7, TopicsKept DEF OwnerInv
<1> QED
  BY <1>1, <1>2, StepKinds

LEMMA LastStep == TypeOK /\ LastInv /\ [Next]_vars => LastInv'
<1> SUFFICES ASSUME TypeOK, LastInv, [Next]_vars, pc' = "start", i' = N + 1
             PROVE  sys'.type[N] = "ibr"
  BY DEF LastInv, ExecOnce
<1>0. N \in Nat \ {0}
  BY StartupAssumption
<1>1. LastInv => (pc = "start" /\ i = N + 1 => sys.type[N] = "ibr")
  BY DEF LastInv, ExecOnce
<1>2. ASSUME NEW t \in Tasks, Call(t) PROVE FALSE
  <2>1. PICK ok \in BOOLEAN, own \in BOOLEAN : Result(t, ok, own)
    BY <1>2, CallEffect
  <2>2. pc' = pc /\ pc \in Phases
    BY <1>2, <2>1, CallEffect, ResultEffect
  <2> QED
    BY <2>2 DEF Phases
<1>3. CASE CreateBusses \/ StartService \/ AllStarted
  BY <1>3 DEF CreateBusses, StartService, AllStarted
<1>4. CASE EndPhase
  BY <1>4 DEF EndPhase, Phases, Following
<1>5. CASE AllServices
  BY <1>0, <1>5 DEF AllServices
<1>6. ASSUME NEW t \in Tasks, StartTask(t) \/ RunOnce(t) \/ StartFails(t)
      PROVE  sys'.type[N] = "ibr"
  <2>1. i = t /\ t \in 1..N /\ sys' = sys
    BY <1>6 DEF StartTask, RunOnce, StartFails, At, Tasks
  <2>2. ~StartFails(t)
    BY DEF StartFails
  <2>3. ~StartTask(t)
    BY <1>0, <2>1 DEF StartTask
  <2>4. RunOnce(t) /\ i' = t + 1
    BY <1>6, <2>2, <2>3 DEF RunOnce
  <2>5. t = N
    BY <1>0, <2>1, <2>4
  <2> QED
    BY <2>1, <2>4, <2>5 DEF RunOnce, ExecOnce
<1>7. ASSUME NEW t \in Tasks, RunTask(t) \/ EndTask(t) PROVE sys'.type[N] = "ibr"
  BY <1>1, <1>7 DEF RunTask, EndTask
<1>8. CASE UNCHANGED vars
  BY <1>1, <1>8 DEF vars
<1> QED
  BY <1>2, <1>3, <1>4, <1>5, <1>6, <1>7, <1>8, StepKinds DEF Quiet

LEMMA EndsStep == TypeOK /\ LastInv /\ EndsForAReason /\ [Next]_vars => EndsForAReason'
<1> SUFFICES ASSUME TypeOK, LastInv, EndsForAReason, [Next]_vars, pc' = "returned"
             PROVE  broken' # {} \/ sys'.type[N] = "ibr"
  BY DEF EndsForAReason, ExecOnce
<1>1. ASSUME NEW t \in Tasks, Call(t) PROVE FALSE
  <2>1. PICK ok \in BOOLEAN, own \in BOOLEAN : Result(t, ok, own)
    BY <1>1, CallEffect
  <2>2. pc' = pc /\ pc \in Phases
    BY <1>1, <2>1, CallEffect, ResultEffect
  <2> QED
    BY <2>2 DEF Phases
<1>2. CASE CreateBusses \/ AllServices
  BY <1>2 DEF CreateBusses, AllServices
<1>3. CASE EndPhase
  BY <1>3 DEF EndPhase, Phases, Following
<1>4. CASE StartService
  BY <1>4 DEF StartService
<1>5. CASE AllStarted
  BY <1>5 DEF AllStarted, LastInv, ExecOnce
<1>6. ASSUME NEW t \in Tasks, StartTask(t) \/ RunOnce(t) \/ StartFails(t)
      PROVE  broken' # {}
  BY <1>6 DEF StartTask, RunOnce, StartFails, At
<1>7. ASSUME NEW t \in Tasks, RunTask(t) \/ EndTask(t) PROVE broken' # {}
  BY <1>7 DEF RunTask, EndTask, ProcessRuns
<1>8. CASE UNCHANGED vars
  BY <1>8 DEF vars, EndsForAReason, ExecOnce
<1> QED
  BY <1>1, <1>2, <1>3, <1>4, <1>5, <1>6, <1>7, <1>8, StepKinds DEF Quiet

\* The bus only grows, so that a connection stays good whatever is called.
LEMMA FedStep == TypeOK /\ FedInv /\ [Next]_vars => FedInv'
<1> SUFFICES ASSUME TypeOK, FedInv, [Next]_vars PROVE FedInv'
  OBVIOUS
<1>1. CASE Quiet
  <2>1. /\ sys' = sys /\ owner' = owner /\ links' = links /\ clkTd' = clkTd
        /\ passed' = passed /\ skipped' = skipped
    BY <1>1, QuietBus DEF Bus
  <2> QED
    BY <2>1, TopicsKept DEF FedInv, ClkConnected, Proclaimed
<1>2. ASSUME NEW t \in Tasks, Call(t) PROVE FedInv'
  <2>1. PICK ok \in BOOLEAN, own \in BOOLEAN : Result(t, ok, own) /\ CallKind(t, ok)
    BY <1>2, CallEffect
  <2>2. pc \in Phases /\ i = t
    BY <1>2, CallEffect
  <2>3. sys' = sys /\ passed' = IF ok THEN [passed EXCEPT ![t] = @ \cup {pc}] ELSE passed
    BY <2>1, <2>2, ResultEffect
  <2>4. Proclaimed \subseteq Proclaimed'
    <3>1. \A x \in Topics : owner'[x] # owner[x] => owner[x] = 0
      BY <2>1 DEF CallKind
    <3> QED
      BY <3>1 DEF Proclaimed
  <2>0. Ins(t) \subseteq Topics /\ Due(t) \subseteq Topics
    BY TopicFacts DEF Due
  <2>5. \A u \in Tasks : ClkConnected(u) => ClkConnected(u)'
    BY <2>3, <2>4 DEF ClkConnected
  <2> DEFINE Fed(u) ==
        /\ links'[u] \subseteq Ins(u) \cap Proclaimed'
        /\ clkTd'[u] => ClkConnected(u)'
        /\ sys.type[u] # "flow" => skipped'[u] = {}
        /\ "outputs" \in passed'[u] /\ sys.type[u] = "ebr" => Ins(u) \subseteq links'[u]
        /\ "inputs" \in passed'[u] /\ sys.type[u] \in {"flow", "fsm"}
              => Ins(u) \ skipped'[u] \subseteq links'[u]
        /\ "inputs" \in passed'[u] /\ sys.clk[u] # NoTopic => clkTd'[u]
  <2>6. ASSUME NEW u \in Tasks, links'[u] = links[u], clkTd'[u] = clkTd[u],
               skipped'[u] = skipped[u],
               passed'[u] \cap {"outputs", "inputs"} = passed[u] \cap {"outputs", "inputs"}
        PROVE  Fed(u)
    <3>1. links'[u] \subseteq Ins(u) \cap Proclaimed'
      BY <2>4, <2>6 DEF FedInv
    <3>2. clkTd'[u] => ClkConnected(u)'
      BY <2>5, <2>6 DEF FedInv
    <3>3. /\ "outputs" \in passed'[u] <=> "outputs" \in passed[u]
          /\ "inputs" \in passed'[u] <=> "inputs" \in passed[u]
      BY <2>6
    <3> QED
      BY <2>6, <3>1, <3>2, <3>3 DEF FedInv
  \* What was so before the call, with the connections there are now.
  <2>7. /\ links[t] \subseteq Ins(t) \cap Proclaimed
        /\ clkTd[t] => ClkConnected(t)
        /\ sys.type[t] # "flow" => skipped[t] = {}
        /\ "outputs" \in passed[t] /\ sys.type[t] = "ebr" => Ins(t) \subseteq links[t]
        /\ "inputs" \in passed[t] /\ sys.type[t] \in {"flow", "fsm"}
              => Ins(t) \ skipped[t] \subseteq links[t]
        /\ "inputs" \in passed[t] /\ sys.clk[t] # NoTopic => clkTd[t]
    BY DEF FedInv
  <2>8. skipped[t] \subseteq skipped'[t]
    BY <2>1 DEF CallKind
  <2>9. CASE \E p \in {"init", "params", "preexec"} : CallPlain(p, t)
    <3>1. PICK p \in {"init", "params", "preexec"} : CallPlain(p, t)
      BY <2>9
    <3>2. links' = links /\ clkTd' = clkTd /\ skipped' = skipped /\ pc = p
      BY <3>1 DEF CallPlain, At
    <3>3. \A u \in Tasks :
             passed'[u] \cap {"outputs", "inputs"} = passed[u] \cap {"outputs", "inputs"}
      BY <2>3, <3>2 DEF TypeOK
    <3>4. \A u \in Tasks : Fed(u)
      BY <2>6, <3>2, <3>3
    <3> QED
      BY <2>3, <3>4, TopicsKept DEF FedInv
  <2>10. CASE InitOutputs(t)
    <3>1. pc = "outputs" /\ clkTd' = clkTd
      BY <2>10 DEF InitOutputs, At
    <3>2. PICK tried \in SUBSET Due(t), own2 \in BOOLEAN :
              /\ Tries(t, Due(t), tried, own2)
              /\ Result(t, ~own2 /\ ~Lacking(t) /\ tried \cap Proclaimed = {}, own2)
      BY <2>10 DEF InitOutputs
    <3>3. links' = IF sys.type[t] = "ebr"
                   THEN [links EXCEPT ![t] = Ins(t) \cap Proclaimed] ELSE links
      BY <2>10 DEF InitOutputs
    <3>4. /\ \A u \in Tasks : u # t => skipped'[u] = skipped[u]
          /\ sys.type[t] # "flow" => skipped'[t] = skipped[t]
      BY <2>0, <3>2, TriesEffect
    <3>5. \A u \in Tasks : u # t => links'[u] = links[u] /\ passed'[u] = passed[u]
      BY <2>3, <3>3 DEF TypeOK
    <3>6. sys.type[t] = "ebr" => links'[t] = Ins(t) \cap Proclaimed
      BY <3>3 DEF TypeOK
    <3>7. sys.type[t] # "ebr" => links'[t] = links[t]
      BY <3>3
    <3>8. "outputs" \in passed'[t] /\ "outputs" \notin passed[t] /\ sys.type[t] = "ebr"
            => Ins(t) \subseteq Proclaimed
      \* The call succeeded, so nothing was lacking.
      BY <3>2 DEF Result, Lacking
    <3>9. links[t] \subseteq links'[t] /\ links'[t] \subseteq Ins(t) \cap Proclaimed
      BY <2>7, <3>6, <3>7
    <3>10. "inputs" \in passed'[t] <=> "inputs" \in passed[t]
      BY <2>3, <3>1 DEF TypeOK
    <3>11. "outputs" \in passed'[t] /\ sys.type[t] = "ebr" => Ins(t) \subseteq links'[t]
      BY <2>7, <3>6, <3>8, <3>9
    <3>12. Fed(t)
      BY <2>4, <2>5, <2>7, <2>8, <3>1, <3>4, <3>9, <3>10, <3>11
    <3>13. \A u \in Tasks : Fed(u)
      BY <2>6, <3>1, <3>4, <3>5, <3>12
    <3> QED
      BY <2>3, <3>13, TopicsKept DEF FedInv
  <2>11. CASE InitInputs(t)
    <3>1. pc = "inputs" /\ clkTd' = [clkTd EXCEPT ![t] = ClkConnected(t)]
      BY <2>11 DEF InitInputs, At
    <3>2. PICK tried \in SUBSET Ins(t), own2 \in BOOLEAN :
              /\ Tries(t, Ins(t), tried, own2)
              /\ Connects(t, tried)
              /\ Result(t, /\ ~own2 /\ Connected(t, tried)
                           /\ sys.clk[t] # NoTopic => ClkConnected(t), own2)
      BY <2>11 DEF InitInputs
    <3>3. /\ \A u \in Tasks : u # t => skipped'[u] = skipped[u]
          /\ sys.type[t] # "flow" => skipped'[t] = skipped[t]
          /\ ~own2 => Ins(t) \ tried \subseteq skipped'[t]
      BY <2>0, <3>2, TriesEffect
    <3>4. links' = links \/ links' = [links EXCEPT ![t] = @ \cup (tried \cap Proclaimed)]
      BY <3>2 DEF Connects
    <3>5. \A u \in Tasks : u # t => /\ links'[u] = links[u] /\ passed'[u] = passed[u]
                                   /\ clkTd'[u] = clkTd[u]
      <4>1. \A u \in Tasks : u # t => links'[u] = links[u]
        BY <3>4 DEF TypeOK
      <4>2. \A u \in Tasks : u # t => passed'[u] = passed[u]
        BY <2>3 DEF TypeOK
      <4>3. \A u \in Tasks : u # t => clkTd'[u] = clkTd[u]
        BY <3>1 DEF TypeOK
      <4> QED
        BY <4>1, <4>2, <4>3
    <3>6. clkTd'[t] = ClkConnected(t)
      BY <3>1 DEF TypeOK
    <3>7. links'[t] = links[t] \/ links'[t] = links[t] \cup (tried \cap Proclaimed)
      BY <3>4 DEF TypeOK
    <3>8. links[t] \subseteq links'[t] /\ links'[t] \subseteq Ins(t) \cap Proclaimed
      BY <2>7, <3>7
    <3>9. sys.type[t] \in {"flow", "fsm"} => tried \cap Proclaimed \subseteq links'[t]
      <4>1. sys.type[t] \in {"flow", "fsm"}
              => links' = [links EXCEPT ![t] = @ \cup (tried \cap Proclaimed)]
        BY <3>2 DEF Connects, FuncSource
      <4> QED
        BY <4>1 DEF TypeOK
    <3>10. "outputs" \in passed'[t] <=> "outputs" \in passed[t]
      BY <2>3, <3>1 DEF TypeOK
    <3>11. "inputs" \in passed'[t] /\ "inputs" \notin passed[t]
             => ~own2 /\ Connected(t, tried) /\ (sys.clk[t] # NoTopic => ClkConnected(t))
      BY <3>2 DEF Result
    <3>12. sys.type[t] \in {"flow", "fsm"} /\ Connected(t, tried) => tried \subseteq Proclaimed
      BY DEF Connected, FuncSource
    <3>13. "inputs" \in passed'[t] /\ sys.type[t] \in {"flow", "fsm"}
              => Ins(t) \ skipped'[t] \subseteq links'[t]
      BY <2>7, <2>8, <3>3, <3>8, <3>9, <3>11, <3>12
    <3>14. "inputs" \in passed'[t] /\ sys.clk[t] # NoTopic => clkTd'[t]
      BY <2>7, <3>6, <3>11
    <3>15. clkTd'[t] => ClkConnected(t)'
      BY <2>5, <3>6
    <3>16. Fed(t)
      BY <2>4, <2>7, <3>3, <3>8, <3>10, <3>13, <3>14, <3>15
    <3>17. \A u \in Tasks : Fed(u)
      BY <2>6, <3>3, <3>5, <3>16
    <3> QED
      BY <2>3, <3>17, TopicsKept DEF FedInv
  <2> QED
    BY <1>2, <2>9, <2>10, <2>11 DEF Call
<1> QED
  BY <1>1, <1>2, StepKinds

-----------------------------------------------------------------------------
LEMMA StartupInvariant == Spec => []IInv
<1>1. IInv /\ [Next]_vars => IInv'
  BY TypeStep, ProgressStep, OwnerStep, LastStep, FedStep, EndsStep DEF IInv
<1> QED
  BY InitIInv, <1>1, PTL DEF Spec

\* Everything swsys keeps while it starts has its type (swsys.c).
THEOREM StartupTypes == Spec => []TypeOK
<1>1. IInv => TypeOK
  BY DEF IInv
<1> QED
  BY StartupInvariant, <1>1, PTL

LEMMA ReadyWhenExecuted == IInv => RunsOnlyWhenReady
  BY DEF IInv, ProgressInv, RunsOnlyWhenReady

\* However many tasks there are and whichever of their calls fail: no task is
\* executed unless every call of every phase succeeded (swsys_top_module_start).
THEOREM StartupReady == Spec => []RunsOnlyWhenReady
  BY StartupInvariant, ReadyWhenExecuted, PTL

\* In every configuration in which a task is executed each topic has one
\* producer (proclaiming, in init_outputs or by a func source): what Dataflow
\* assumes.
THEOREM StartupSingleProducer == Spec => []SingleProducer
<1>1. IInv => SingleProducer
  <2> SUFFICES ASSUME IInv, ran # {}, NEW t \in Tasks, NEW u \in Tasks, t # u,
                      NEW x \in (Produces(t) \ skipped[t]) \cap (Produces(u) \ skipped[u])
               PROVE  FALSE
    BY DEF SingleProducer
  <2>1. \A v \in {t, u} : v \in Tasks /\ "outputs" \in passed[v] /\ "inputs" \in passed[v]
    BY ReadyWhenExecuted DEF RunsOnlyWhenReady, Phases
  <2>2. \A v \in {t, u} : owner[x] = v
    BY <2>1 DEF IInv, OwnerInv, Produces
  <2> QED
    BY <2>2
<1> QED
  BY StartupInvariant, <1>1, PTL

\* The process does not end without a failure, or a last task that is executed
\* once (swsys_call_exec).
THEOREM StartupEnds == Spec => []EndsForAReason
<1>1. IInv => EndsForAReason
  BY DEF IInv
<1> QED
  BY StartupInvariant, <1>1, PTL

-----------------------------------------------------------------------------
(* What is proclaimed is an output of its owner, or its func source.       *)

ProducerInv == \A x \in Topics : owner[x] # 0 => x \in Produces(owner[x])

\* A call proclaims topics of its task: outputs, then func sources.
LEMMA CallOwns ==
    ASSUME TypeOK, NEW t \in Tasks, Call(t), NEW x \in Topics, owner'[x] # owner[x]
    PROVE  /\ owner'[x] = t
           /\ \/ pc = "outputs" /\ x \in Outs(t)
              \/ pc = "inputs" /\ x \in FuncTopics(t)
<1>0. /\ Due(t) \subseteq Outs(t)
      /\ owner'[x] = t
  BY CallEffect DEF Due, CallKind
<1>1. ASSUME NEW p \in {"init", "params", "preexec"}, CallPlain(p, t) PROVE FALSE
  BY <1>1 DEF CallPlain
<1>2. CASE InitOutputs(t)
  <2>1. PICK tried \in SUBSET Due(t) : Proclaim(t, tried)
    BY <1>2 DEF InitOutputs
  <2>2. x \in tried
    BY <2>1 DEF Proclaim
  <2>3. pc = "outputs"
    BY <1>2 DEF InitOutputs, At
  <2> QED
    BY <1>0, <2>2, <2>3
<1>3. CASE InitInputs(t)
  <2>1. PICK tried \in SUBSET Ins(t) : Connects(t, tried)
    BY <1>3 DEF InitInputs
  <2>2. FuncSource(t) /\ Proclaim(t, tried)
    BY <2>1 DEF Connects
  <2>3. x \in tried
    BY <2>2 DEF Proclaim
  <2>4. pc = "inputs"
    BY <1>3 DEF InitInputs, At
  <2> QED
    BY <1>0, <2>2, <2>3, <2>4 DEF FuncTopics
<1> QED
  BY <1>1, <1>2, <1>3 DEF Call

LEMMA ProducerStep == TypeOK /\ ProducerInv /\ [Next]_vars => ProducerInv'
<1> SUFFICES ASSUME TypeOK, ProducerInv, [Next]_vars, NEW x \in Topics, owner'[x] # 0
             PROVE  x \in Produces(owner[x])'
  BY DEF ProducerInv
<1>1. CASE Quiet
  <2>1. sys' = sys /\ owner' = owner
    BY <1>1, QuietBus DEF Bus
  <2> QED
    BY <2>1 DEF ProducerInv, Produces, Outs, FuncTopics, FuncSource, Ins
<1>2. ASSUME NEW t \in Tasks, Call(t) PROVE x \in Produces(owner[x])'
  <2>1. sys' = sys
    BY <1>2, CallEffect, ResultEffect
  <2>2. x \in Produces(owner'[x])
    <3>1. CASE owner'[x] = owner[x]
      BY <3>1 DEF ProducerInv
    <3>2. CASE owner'[x] # owner[x]
      BY <1>2, <3>2, CallOwns DEF Produces
    <3> QED
      BY <3>1, <3>2
  <2> QED
    BY <2>1, <2>2 DEF Produces, Outs, FuncTopics, FuncSource, Ins
<1> QED
  BY <1>1, <1>2, StepKinds

\* Whoever is executed is connected to its clock and to all that its function is
\* given to read, but for what an ibr and a flow do without, and each of these
\* topics is proclaimed by a task of which it is an output or a func source
\* (swsys_call_init_inputs after swsys_call_init_outputs, bridge_the_flow).
THEOREM StartupFed == Spec => []RunnersAreFed
<1>1. Init => ProducerInv
  BY DEF Init, ProducerInv
<1>2. IInv /\ ProducerInv /\ [Next]_vars => ProducerInv'
  BY ProducerStep DEF IInv
<1>3. IInv /\ ProducerInv => RunnersAreFed
  <2> SUFFICES ASSUME IInv, ProducerInv, NEW t \in ran
               PROVE  /\ sys.type[t] \in {"fsm", "ebr"} => links[t] = Ins(t)
                      /\ sys.type[t] = "flow" => /\ Ins(t) \ skipped[t] \subseteq links[t]
                                                 /\ links[t] \subseteq Ins(t)
                      /\ sys.clk[t] # NoTopic => clkTd[t]
                      /\ \A x \in links[t] : owner[x] \in Tasks /\ x \in Produces(owner[x])
    BY DEF RunnersAreFed
  <2>1. t \in Tasks /\ passed[t] = Phases
    BY ReadyWhenExecuted DEF RunsOnlyWhenReady, IInv, TypeOK
  <2>2. "outputs" \in passed[t] /\ "inputs" \in passed[t]
    BY <2>1 DEF Phases
  <2>3. links[t] \subseteq Ins(t) \cap Proclaimed
    BY <2>1 DEF IInv, FedInv
  <2>4. /\ sys.type[t] = "ebr" => Ins(t) \subseteq links[t]
        /\ sys.type[t] \in {"flow", "fsm"} => Ins(t) \ skipped[t] \subseteq links[t]
        /\ sys.type[t] # "flow" => skipped[t] = {}
    BY <2>1, <2>2 DEF IInv, FedInv
  <2>5. sys.clk[t] # NoTopic => clkTd[t]
    BY <2>1, <2>2 DEF IInv, FedInv
  <2>6. ASSUME NEW x \in links[t] PROVE owner[x] \in Tasks /\ x \in Produces(owner[x])
    <3>1. x \in Topics /\ owner[x] # 0
      BY <2>3 DEF Proclaimed
    <3>2. owner[x] \in 0..N /\ N \in Nat
      BY <3>1, StartupAssumption DEF IInv, TypeOK
    <3>3. owner[x] \in Tasks
      BY <3>1, <3>2 DEF Tasks
    <3> QED
      BY <3>1, <3>3 DEF ProducerInv
  <2> QED
    BY <2>3, <2>4, <2>5, <2>6
<1> QED
  BY StartupInvariant, <1>1, <1>2, <1>3, PTL DEF Spec

-----------------------------------------------------------------------------
(* A consistent configuration in which nothing breaks: no call fails.      *)

\* Topics are taken in the outputs phase, by the tasks it has come to, and func
\* sources in the inputs phase.
TakenInv ==
    /\ pc \in {"busses", "init", "params"} => \A x \in Topics : owner[x] = 0
    /\ pc = "outputs" => \A x \in Topics : owner[x] # 0 => /\ owner[x] < i
                                                          /\ x \in Outs(owner[x])
    /\ pc = "inputs" => \A x \in Topics :
          owner[x] # 0 => owner[x] < i \/ x \in Outs(owner[x])

FaultlessInv == Consistent /\ Intact => errs = 0 /\ pc # "refused"

AcceptInv == ProducerInv /\ TakenInv /\ FaultlessInv

LEMMA TakenStep == TypeOK /\ ProgressInv /\ TakenInv /\ [Next]_vars => TakenInv'
<1> SUFFICES ASSUME TypeOK, ProgressInv, TakenInv, [Next]_vars PROVE TakenInv'
  OBVIOUS
<1>0. N \in Nat /\ \A x \in Topics : owner[x] \in 0..N
  BY StartupAssumption DEF TypeOK
<1>1. ASSUME NEW t \in Tasks, Call(t) PROVE TakenInv'
  <2>1. PICK ok \in BOOLEAN, own \in BOOLEAN : Result(t, ok, own)
    BY <1>1, CallEffect
  <2>2. pc \in Phases /\ i = t
    BY <1>1, CallEffect
  <2>3. pc' = pc /\ i' = t + 1 /\ t \in Nat /\ sys' = sys
    BY <2>1, <2>2, ResultEffect DEF Tasks
  <2>4. pc \in {"init", "params"} => \A x \in Topics : owner'[x] = owner[x]
    BY <1>1, CallOwns
  <2>5. ASSUME pc = "outputs", NEW x \in Topics, owner'[x] # 0
        PROVE  owner'[x] < t + 1 /\ x \in Outs(owner'[x])
    <3>1. CASE owner'[x] = owner[x]
      BY <1>0, <2>2, <2>3, <2>5, <3>1 DEF TakenInv
    <3>2. CASE owner'[x] # owner[x]
      BY <1>1, <2>3, <2>5, <3>2, CallOwns
    <3> QED
      BY <3>1, <3>2
  <2>6. ASSUME pc = "inputs", NEW x \in Topics, owner'[x] # 0
        PROVE  owner'[x] < t + 1 \/ x \in Outs(owner'[x])
    <3>1. CASE owner'[x] = owner[x]
      BY <1>0, <2>2, <2>3, <2>6, <3>1 DEF TakenInv
    <3>2. CASE owner'[x] # owner[x]
      BY <1>1, <2>3, <2>6, <3>2, CallOwns
    <3> QED
      BY <3>1, <3>2
  <2>7. \A v : Outs(v)' = Outs(v)
    BY <2>3, TopicsKept
  <2>8. pc' \in {"busses", "init", "params"} => \A x \in Topics : owner'[x] = 0
    BY <2>2, <2>3, <2>4 DEF TakenInv, Phases
  <2>9. pc' = "outputs" => \A x \in Topics : owner'[x] # 0 => owner'[x] < i'
                                                           /\ x \in Outs(owner[x])'
    BY <2>3, <2>5 DEF Outs
  <2>10. pc' = "inputs" => \A x \in Topics : owner'[x] # 0 => owner'[x] < i'
                                                           \/ x \in Outs(owner[x])'
    BY <2>3, <2>6 DEF Outs
  <2> QED
    BY <2>8, <2>9, <2>10 DEF TakenInv
<1>2. CASE CreateBusses
  BY <1>2 DEF CreateBusses, TakenInv
<1>3. CASE EndPhase
  <2>1. /\ pc \in Phases /\ owner' = owner /\ sys' = sys /\ i' = 1
        /\ pc' \in {"refused", Following[pc]}
    BY <1>3 DEF EndPhase
  <2>2. pc' \in {"params", "outputs"} => pc \in {"init", "params"}
    BY <2>1 DEF Phases, Following
  <2>3. pc' = "inputs" => pc = "outputs"
    BY <2>1 DEF Phases, Following
  <2>4. pc' \notin {"busses", "init"}
    BY <2>1 DEF Phases, Following
  <2>5. pc' = "inputs" => \A x \in Topics : owner'[x] # 0 => x \in Outs(owner[x])'
    BY <2>1, <2>3 DEF TakenInv, Outs
  <2>6. pc' \in {"params", "outputs"} => \A x \in Topics : owner'[x] = 0
    BY <2>1, <2>2 DEF TakenInv
  <2> QED
    BY <2>4, <2>5, <2>6 DEF TakenInv
<1>4. CASE StartService \/ AllServices \/ AllStarted
  BY <1>4 DEF StartService, AllServices, AllStarted, TakenInv
<1>5. ASSUME NEW t \in Tasks, StartTask(t) \/ RunOnce(t) \/ StartFails(t) PROVE TakenInv'
  BY <1>5 DEF StartTask, RunOnce, StartFails, At, TakenInv
<1>6. ASSUME NEW t \in Tasks, RunTask(t) \/ EndTask(t) PROVE TakenInv'
  BY <1>6 DEF RunTask, EndTask, TakenInv, Outs
<1>7. CASE UNCHANGED vars
  BY <1>7 DEF vars, TakenInv, Outs
<1> QED
  BY <1>1, <1>2, <1>3, <1>4, <1>5, <1>6, <1>7, StepKinds DEF Quiet

\* What is proclaimed has one task among whose topics it is.
LEMMA OwnerIsOnly ==
    ASSUME TypeOK, ProducerInv, Consistent, NEW t \in Tasks, NEW x \in Produces(t),
           NEW y \in Topics, x = y, owner[x] # 0
    PROVE  owner[x] = t
<1>1. owner[x] \in 0..N /\ N \in Nat
  BY StartupAssumption DEF TypeOK
<1>2. owner[x] \in Tasks
  BY <1>1 DEF Tasks
<1>3. x \in Produces(owner[x])
  BY DEF ProducerInv
<1> QED
  BY <1>2, <1>3 DEF Consistent

\* A task's outputs are free when it comes to them, since nobody else's
\* outputs they are.
LEMMA OutputsFree ==
    ASSUME TypeOK, ProducerInv, TakenInv, Consistent, pc = "outputs", i \in Tasks
    PROVE  Outs(i) \cap Proclaimed = {}
<1> SUFFICES ASSUME NEW x \in Outs(i), x \in Topics, owner[x] # 0 PROVE FALSE
  BY DEF Proclaimed
<1>1. owner[x] = i
  BY OwnerIsOnly DEF Produces
<1> QED
  BY <1>1 DEF TakenInv, Tasks

\* So are its func sources.
LEMMA SourcesFree ==
    ASSUME TypeOK, ProducerInv, TakenInv, Consistent, pc = "inputs", i \in Tasks, FuncSource(i)
    PROVE  Ins(i) # {} /\ Ins(i) \cap Proclaimed = {}
<1> SUFFICES ASSUME NEW x \in Ins(i), x \in Topics, owner[x] # 0 PROVE FALSE
  BY DEF Proclaimed, Consistent
<1>1. owner[x] = i
  BY OwnerIsOnly DEF Produces, FuncTopics
<1>2. x \notin Outs(i)
  BY DEF Consistent
<1> QED
  BY <1>1, <1>2 DEF TakenInv, Tasks

\* A topic is proclaimed once the outputs of a task that has it are initialised,
\* or the inputs of an ibr whose func source it is.
LEMMA OutputsProclaimed ==
    ASSUME TypeOK, OwnerInv, NEW u \in Tasks, skipped[u] = {}, NEW x,
           \/ "outputs" \in passed[u] /\ x \in Outs(u)
           \/ "inputs" \in passed[u] /\ x \in FuncTopics(u)
    PROVE  x \in Proclaimed
<1>1. x \in Topics
  BY TopicFacts
<1>2. owner[x] = u /\ u # 0
  BY DEF OwnerInv, Tasks
<1> QED
  BY <1>1, <1>2 DEF Proclaimed

\* A call fails only because of the configuration, or for a reason of its own.
LEMMA CallsSucceed ==
    ASSUME IInv, ProducerInv, TakenInv, Consistent, errs = 0, Intact,
           NEW t \in Tasks, Call(t), broken' = {}, skipped' = skipped
    PROVE  errs' = 0
<1>0. TypeOK /\ ProgressInv /\ OwnerInv
  BY DEF IInv
<1>1. pc \in Phases /\ i = t
  BY <1>0, CallEffect
<1>2. ASSUME NEW ok \in BOOLEAN, NEW own \in BOOLEAN, Result(t, ok, own), ok \/ own
      PROVE  errs' = 0
  BY <1>2 DEF Result
<1>3. \A u \in Tasks : skipped[u] = {}
  BY DEF Intact
<1>4. CASE \E p \in {"init", "params", "preexec"} : CallPlain(p, t)
  <2>1. PICK ok \in BOOLEAN : Result(t, ok, ~ok)
    BY <1>4 DEF CallPlain
  <2> QED
    BY <1>2, <2>1
<1>5. CASE InitOutputs(t)
  <2>1. pc = "outputs"
    BY <1>5 DEF InitOutputs, At
  <2>2. Outs(t) \cap Proclaimed = {}
    BY <1>0, <1>1, <2>1, OutputsFree
  <2>3. ~Lacking(t)
    <3> SUFFICES ASSUME sys.type[t] = "ebr", NEW x \in Ins(t) PROVE x \in Proclaimed
      BY DEF Lacking
    <3>1. PICK u \in Tasks : u < t /\ x \in Outs(u)
      BY DEF Consistent
    <3>2. "outputs" \in passed[u]
      BY <1>0, <1>1, <2>1, <3>1 DEF ProgressInv
    <3> QED
      BY <1>0, <1>3, <3>1, <3>2, OutputsProclaimed
  <2>4. PICK tried \in SUBSET Due(t), own \in BOOLEAN :
            Result(t, ~own /\ ~Lacking(t) /\ tried \cap Proclaimed = {}, own)
    BY <1>5 DEF InitOutputs
  <2>5. tried \cap Proclaimed = {}
    BY <2>2 DEF Due
  <2>6. (~own /\ ~Lacking(t) /\ tried \cap Proclaimed = {}) \/ own
    BY <2>3, <2>5
  <2> QED
    BY <1>2, <2>4, <2>6
<1>6. CASE InitInputs(t)
  <2>1. pc = "inputs" /\ "outputs" \in Before["inputs"]
    BY <1>6 DEF InitInputs, At, Before
  <2>2. \A u \in Tasks : "outputs" \in passed[u]
    BY <1>0, <1>1, <2>1 DEF ProgressInv
  <2>3. \A u \in Tasks : u < t => "inputs" \in passed[u]
    BY <1>0, <1>1, <2>1 DEF ProgressInv
  <2>4. ASSUME NEW x, Supplied(x, t) PROVE x \in Proclaimed
    BY <1>0, <1>3, <2>2, <2>3, <2>4, OutputsProclaimed DEF Supplied
  <2>5. sys.clk[t] # NoTopic => ClkConnected(t)
    BY <2>4 DEF Consistent, ClkConnected
  <2>6. PICK tried \in SUBSET Ins(t), own \in BOOLEAN :
            /\ Tries(t, Ins(t), tried, own)
            /\ Result(t, /\ ~own /\ Connected(t, tried)
                         /\ sys.clk[t] # NoTopic => ClkConnected(t), own)
    BY <1>6 DEF InitInputs
  <2>7. ~own => tried = Ins(t)
    <3>1. Ins(t) \subseteq Topics
      BY <1>0, TopicFacts
    <3>2. ~own => Ins(t) \ tried \subseteq skipped'[t]
      <4>1. Tries(t, Ins(t), tried, own)
        BY <2>6
      <4> QED
        BY <1>0, <3>1, <4>1 DEF TypeOK, Tries
    <3> QED
      BY <1>3, <3>2
  <2>8. Connected(t, Ins(t))
    <3>1. FuncSource(t) => Ins(t) # {} /\ Ins(t) \cap Proclaimed = {}
      BY <1>0, <1>1, <2>1, SourcesFree
    <3>2. ~FuncSource(t) => Ins(t) \subseteq Proclaimed
      BY <2>4 DEF Consistent
    <3>3. sys.type[t] = "ibr" /\ sys.source[t] = "func_br" => Ins(t) # {}
      BY DEF Consistent
    <3> QED
      BY <3>1, <3>2, <3>3 DEF Connected, FuncSource
  <2>9. (/\ ~own /\ Connected(t, tried)
         /\ sys.clk[t] # NoTopic => ClkConnected(t)) \/ own
    BY <2>5, <2>7, <2>8
  <2> QED
    BY <1>2, <2>6, <2>9
<1> QED
  BY <1>4, <1>5, <1>6 DEF Call

\* What is broken or skipped stays so.
LEMMA IntactBefore ==
    TypeOK /\ [Next]_vars => sys' = sys /\ (Intact' => Intact /\ skipped' = skipped)
<1> SUFFICES ASSUME TypeOK, [Next]_vars
             PROVE  sys' = sys /\ (Intact' => Intact /\ skipped' = skipped)
  OBVIOUS
<1>1. CASE Quiet
  <2>1. sys' = sys /\ skipped' = skipped
    BY <1>1, QuietBus DEF Bus
  <2>2. CreateBusses \/ EndPhase \/ StartService \/ AllServices \/ AllStarted
           => broken \subseteq broken'
    BY DEF CreateBusses, EndPhase, StartService, AllServices, AllStarted
  <2>3. \A t \in Tasks : StartTask(t) \/ RunOnce(t) \/ StartFails(t) \/ RunTask(t) \/ EndTask(t)
           => broken \subseteq broken'
    BY DEF StartTask, RunOnce, StartFails, RunTask, EndTask
  <2>4. UNCHANGED vars => broken \subseteq broken'
    BY DEF vars
  <2>5. broken \subseteq broken'
    BY <1>1, <2>2, <2>3, <2>4 DEF Quiet
  <2> QED
    BY <2>1, <2>5 DEF Intact
<1>2. ASSUME NEW t \in Tasks, Call(t)
      PROVE  sys' = sys /\ (Intact' => Intact /\ skipped' = skipped)
  <2>1. sys' = sys /\ broken \subseteq broken'
    BY <1>2, CallEffect, ResultEffect
  <2>2. \A u \in Tasks : skipped[u] \subseteq skipped'[u]
    BY <1>2, CallEffect DEF CallKind
  <2>3. skipped \in [Tasks -> SUBSET Topics] /\ skipped' \in [Tasks -> SUBSET Topics]
    BY <1>2, CallEffect DEF TypeOK, BusType
  <2>4. ASSUME Intact' PROVE skipped' = skipped /\ Intact
    <3>1. \A u \in Tasks : skipped[u] = {} /\ skipped'[u] = {}
      BY <2>2, <2>4 DEF Intact
    <3> QED
      BY <2>1, <2>3, <2>4, <3>1 DEF Intact
  <2> QED
    BY <2>1, <2>4
<1> QED
  BY <1>1, <1>2, StepKinds

LEMMA FaultlessStep == IInv /\ AcceptInv /\ [Next]_vars => FaultlessInv'
<1> SUFFICES ASSUME IInv, AcceptInv, [Next]_vars, Consistent', Intact'
             PROVE  errs' = 0 /\ pc' # "refused"
  BY DEF FaultlessInv
<1>0. TypeOK /\ ProducerInv /\ TakenInv /\ FaultlessInv
  BY DEF IInv, AcceptInv
<1>1. sys' = sys /\ Intact /\ skipped' = skipped /\ broken' = {}
  BY <1>0, IntactBefore DEF Intact
<1>2. Consistent
  <2>1. \A v : /\ Outs(v)' = Outs(v) /\ Ins(v)' = Ins(v) /\ FuncTopics(v)' = FuncTopics(v)
              /\ FuncSource(v)' = FuncSource(v) /\ Produces(v)' = Produces(v)
    BY <1>1, TopicsKept
  <2>2. \A x, v : Supplied(x, v)' = Supplied(x, v)
    BY <2>1 DEF Supplied
  <2> QED
    BY <1>1, <2>1, <2>2 DEF Consistent
<1>3. errs = 0 /\ pc # "refused"
  BY <1>0, <1>1, <1>2 DEF FaultlessInv
<1>4. ASSUME NEW t \in Tasks, Call(t) PROVE errs' = 0 /\ pc' # "refused"
  <2>1. pc' = pc
    BY <1>0, <1>4, CallEffect, ResultEffect
  <2> QED
    BY <1>0, <1>1, <1>2, <1>3, <1>4, <2>1, CallsSucceed
<1>5. CreateBusses => errs' = 0 /\ pc' # "refused"
  BY <1>1, <1>3 DEF CreateBusses
<1>6. EndPhase => errs' = 0 /\ pc' # "refused"
  BY <1>3 DEF EndPhase, Phases, Following
<1>7. StartService \/ AllServices \/ AllStarted => errs' = 0 /\ pc' # "refused"
  BY <1>3 DEF StartService, AllServices, AllStarted
<1>8. ASSUME NEW t \in Tasks, StartTask(t) \/ RunOnce(t) \/ StartFails(t)
      PROVE  errs' = 0 /\ pc' # "refused"
  BY <1>3, <1>8 DEF StartTask, RunOnce, StartFails
<1>9. ASSUME NEW t \in Tasks, RunTask(t) \/ EndTask(t) PROVE errs' = 0 /\ pc' # "refused"
  BY <1>3, <1>9 DEF RunTask, EndTask
<1>10. UNCHANGED vars => errs' = 0 /\ pc' # "refused"
  BY <1>3 DEF vars
<1> QED
  BY <1>4, <1>5, <1>6, <1>7, <1>8, <1>9, <1>10, StepKinds DEF Quiet

\* A configuration with one producer of every topic, which it names before the
\* bridges that need it, is not refused in whatever order its tasks are given,
\* unless something breaks (the phases of swsys_top_module_start).
THEOREM StartupAccepts == Spec => []ConsistentIsAccepted
<1>1. Init => AcceptInv
  BY DEF Init, AcceptInv, ProducerInv, TakenInv, FaultlessInv
<1>2. IInv /\ AcceptInv /\ [Next]_vars => AcceptInv'
  BY ProducerStep, TakenStep, FaultlessStep DEF IInv, AcceptInv
<1>3. AcceptInv => ConsistentIsAccepted
  BY DEF AcceptInv, FaultlessInv, ConsistentIsAccepted
<1> QED
  BY StartupInvariant, <1>1, <1>2, <1>3, PTL DEF Spec
=============================================================================
