------------------------------ MODULE Startup -------------------------------
(***************************************************************************)
(* How swsys brings its tasks up (swsys/swsys.c, called by main in         *)
(* catom.c): busses are created, then every phase - load and init, params, *)
(* outputs, inputs, pre-exec - is run over all the tasks in configuration  *)
(* order; a phase in which a task failed is finished and then the start is *)
(* refused.  Then services start, and every task gets a thread, except     *)
(* that the last runs in the calling thread and that tasks executed once   *)
(* (ibr) are executed by the calling thread where they stand.              *)
(*                                                                         *)
(* The bus is external (ESWB): a topic is proclaimed once, connecting      *)
(* needs a proclaimed topic.  All other failures (bad configuration, lack  *)
(* of memory) are nondeterministic, and can be switched off.  They are     *)
(* counted, except that a flow goes on in silence without the topics for   *)
(* which it could not create a bridge (bridge_the_flow).                   *)
(***************************************************************************)
EXTENDS Integers, FiniteSets

CONSTANTS N,           \* tasks_num
          Topics, NoTopic,
          Systems,     \* the configurations swsys_load may have read
          ServicesNum,
          MayFail      \* may a call fail for a reason of its own?

\* The tasks, numbered in the order of the configuration.
Tasks == 1..N

\* What swsys_load keeps of a configuration.
SystemType ==
    [type : [Tasks -> {"flow", "fsm", "ibr", "ebr"}],
     clk : [Tasks -> Topics \cup {NoTopic}],  \* clk_input_path, if clocked by a topic
     outs : [Tasks -> SUBSET Topics],         \* what conn_specs_out name (an ebr's "to")
     ins : [Tasks -> SUBSET Topics],          \* what conn_specs_in name (an ebr's sources)
     strays : [Tasks -> SUBSET Topics],       \* those connected to a name that the task's
                                              \* function does not have
     source : [Tasks -> {"udp", "func_br", "func"}]]  \* the driver of an ibr's source

ASSUME StartupAssumption ==
    /\ N \in Nat \ {0} /\ ServicesNum \in Nat
    /\ NoTopic \notin Topics
    /\ Systems \subseteq SystemType
    /\ MayFail \in BOOLEAN

Phases == {"init", "params", "outputs", "inputs", "preexec"}

VARIABLES sys,      \* swsys_t
          pc,       \* what the calling thread is at
          i,        \* the task or service it has come to
          errs,     \* err_num or err_cnt of the phase
          owner,    \* the task that proclaimed a topic, 0 if none did
          links,    \* topics a task's inputs are connected to
          clkTd,    \* is clk_input_tds[t] connected?
          thread,   \* the thread that runs task() for a task
          ran,      \* history: tasks executed at least once
          passed,   \* history: phases a task has been through with success
          broken,   \* history: what failed for a reason of its own
          skipped   \* history: topics a flow went on without, for such a reason

vars == <<sys, pc, i, errs, owner, links, clkTd, thread, ran, passed, broken, skipped>>

TypeOK ==
    /\ sys \in Systems
    /\ pc \in Phases \cup {"busses", "services", "start", "task", "refused", "returned"}
    /\ i \in 1..N + ServicesNum + 1
    /\ pc \in Phases \cup {"start"} => i <= N + 1
    /\ pc = "task" => i = N
    /\ errs \in Nat
    /\ owner \in [Topics -> 0..N]
    /\ links \in [Tasks -> SUBSET Topics]
    /\ clkTd \in [Tasks -> BOOLEAN]
    /\ thread \in [Tasks -> {"none", "running", "ended"}]
    /\ ran \in SUBSET Tasks
    /\ passed \in [Tasks -> SUBSET Phases]
    /\ broken \in SUBSET {"setup", "service", "thread", "update"}
    /\ skipped \in [Tasks -> SUBSET Topics]

Init ==
    /\ sys \in Systems
    /\ pc = "busses"
    /\ i = 1
    /\ errs = 0
    /\ owner = [x \in Topics |-> 0]
    /\ links = [t \in Tasks |-> {}]
    /\ clkTd = [t \in Tasks |-> FALSE]
    /\ thread = [t \in Tasks |-> "none"]
    /\ ran = {}
    /\ passed = [t \in Tasks |-> {}]
    /\ broken = {}
    /\ skipped = [t \in Tasks |-> {}]

-----------------------------------------------------------------------------
(* The topics of a task.                                                   *)

\* Names are looked up in the connections, or connections in the names: a
\* connection to a name the function does not have is passed over (only an ebr
\* takes all it is given, and a udp source is in no connection).
Outs(t) == IF sys.type[t] = "ebr" THEN sys.outs[t] ELSE sys.outs[t] \ sys.strays[t]

Ins(t) ==
    CASE sys.type[t] = "ebr" -> sys.ins[t]
      [] sys.type[t] = "ibr" /\ sys.source[t] = "udp" -> {}
      [] OTHER -> sys.ins[t] \ sys.strays[t]

\* The func driver proclaims its source, where the others connect to it.
FuncSource(t) == sys.type[t] = "ibr" /\ sys.source[t] = "func"
FuncTopics(t) == IF FuncSource(t) THEN Ins(t) ELSE {}

\* All that a task proclaims.
Produces(t) == Outs(t) \cup FuncTopics(t)

Proclaimed == {x \in Topics : owner[x] # 0}

-----------------------------------------------------------------------------

\* The bus loop of swsys_init: errors are counted, an invalid directory path
\* ends it.
CreateBusses ==
    /\ pc = "busses"
    /\ \/ pc' = "init" /\ UNCHANGED <<errs, broken>>
       \/ /\ MayFail
          /\ broken' = broken \cup {"setup"}
          /\ \/ pc' = "init" /\ errs' = errs + 1
             \/ pc' = "refused" /\ UNCHANGED errs
    /\ UNCHANGED <<sys, i, owner, links, clkTd, thread, ran, passed, skipped>>

\* Task t's call of the phase has returned: failures are counted and the loop
\* goes on.  own: the call failed for a reason of its own.
Result(t, ok, own) ==
    /\ errs' = IF ok THEN errs ELSE errs + 1
    /\ passed' = IF ok THEN [passed EXCEPT ![t] = @ \cup {pc}] ELSE passed
    /\ broken' = IF own THEN broken \cup {"setup"} ELSE broken
    /\ i' = t + 1
    /\ UNCHANGED <<sys, pc, thread, ran>>

At(p, t) == pc = p /\ i = t

\* task_load and function_init, function_set_param, function_pre_exec_init: an
\* ebr supports no params, and only a flow pre_exec_init, which is accepted.
Supports(p, t) ==
    CASE p = "init" -> TRUE
      [] p = "params" -> sys.type[t] # "ebr"
      [] p = "preexec" -> sys.type[t] = "flow"

CallPlain(p, t) ==
    /\ At(p, t)
    /\ \E ok \in BOOLEAN :
          /\ ok \/ (MayFail /\ Supports(p, t))
          /\ Result(t, ok, ~ok)
    /\ UNCHANGED <<owner, links, clkTd, skipped>>

\* Where bridge_the_flow cannot create a bridge it goes on, with no error.
MaySkip(t) == MayFail /\ sys.type[t] = "flow"

\* A call over the topics all comes to those tried.  own: it failed for a reason
\* of its own, and was counted; otherwise the rest was skipped.
Tries(t, all, tried, own) ==
    /\ own => MayFail
    /\ ~own => tried = all \/ MaySkip(t)
    /\ skipped' = IF own THEN skipped ELSE [skipped EXCEPT ![t] = @ \cup (all \ tried)]

\* What is free among the topics is now the task's.
Proclaim(t, topics) ==
    owner' = [x \in Topics |-> IF x \in topics \ Proclaimed THEN t ELSE owner[x]]

\* The bridge of an ebr is set up with its outputs, sources first; without them
\* nothing is proclaimed.
Lacking(t) == sys.type[t] = "ebr" /\ ~(Ins(t) \subseteq Proclaimed)

Due(t) == IF Lacking(t) THEN {} ELSE Outs(t)

\* function_init_outputs: what is free is proclaimed, what is taken is an error.
InitOutputs(t) ==
    /\ At("outputs", t)
    /\ \E tried \in SUBSET Due(t), own \in BOOLEAN :
          /\ Tries(t, Due(t), tried, own)
          /\ Proclaim(t, tried)
          /\ Result(t, ~own /\ ~Lacking(t) /\ tried \cap Proclaimed = {}, own)
    /\ links' = IF sys.type[t] = "ebr" THEN [links EXCEPT ![t] = Ins(t) \cap Proclaimed] ELSE links
    /\ UNCHANGED clkTd

\* What a task's own init_inputs does with the topics it tries.  An ebr connected
\* in init_outputs.  The bridge of an ibr does with the topics there are, if any.
Connects(t, tried) ==
    CASE sys.type[t] = "ebr" -> UNCHANGED <<owner, links>>
      [] FuncSource(t) -> Proclaim(t, tried) /\ UNCHANGED links
      [] OTHER -> links' = [links EXCEPT ![t] = @ \cup (tried \cap Proclaimed)] /\ UNCHANGED owner

Connected(t, tried) ==
    CASE sys.type[t] = "ebr" -> TRUE
      [] FuncSource(t) -> tried # {} /\ tried \cap Proclaimed = {}
      [] sys.type[t] = "ibr" /\ sys.source[t] = "func_br" -> tried \cap Proclaimed # {}
      [] OTHER -> tried \subseteq Proclaimed

ClkConnected(t) == sys.clk[t] # NoTopic /\ sys.clk[t] \in Proclaimed

\* As if nobody looked whether the clocking topic is there.
BlindInitInputs(t) ==
    /\ At("inputs", t)
    /\ clkTd' = [clkTd EXCEPT ![t] = ClkConnected(t)]
    /\ \E tried \in SUBSET Ins(t), own \in BOOLEAN :
          /\ Tries(t, Ins(t), tried, own)
          /\ Connects(t, tried)
          /\ Result(t, ~own /\ Connected(t, tried), own)

\* The clocking topic, then function_init_inputs; the two errors a task may have
\* here count as one.
InitInputs(t) ==
    /\ At("inputs", t)
    /\ clkTd' = [clkTd EXCEPT ![t] = ClkConnected(t)]
    /\ \E tried \in SUBSET Ins(t), own \in BOOLEAN :
          /\ Tries(t, Ins(t), tried, own)
          /\ Connects(t, tried)
          /\ Result(t, /\ ~own /\ Connected(t, tried)
                       /\ sys.clk[t] # NoTopic => ClkConnected(t), own)

\* As if inputs were connected before the outputs are proclaimed.
InputsFirst == [init |-> "params", params |-> "inputs", inputs |-> "outputs",
                outputs |-> "preexec", preexec |-> "services"]

\* The order of swsys_top_module_start.
Following == [init |-> "params", params |-> "outputs", outputs |-> "inputs",
              inputs |-> "preexec", preexec |-> "services"]

\* As if nobody looked at the result of the last phase.
LaxEndPhase ==
    /\ pc \in Phases
    /\ i = N + 1
    /\ pc' = IF errs > 0 /\ pc # "preexec" THEN "refused" ELSE Following[pc]
    /\ i' = 1
    /\ errs' = 0
    /\ UNCHANGED <<sys, owner, links, clkTd, thread, ran, passed, broken, skipped>>

\* The phase has been through all tasks.
EndPhase ==
    /\ pc \in Phases
    /\ i = N + 1
    /\ pc' = IF errs > 0 THEN "refused" ELSE Following[pc]
    /\ i' = 1
    /\ errs' = 0
    /\ UNCHANGED <<sys, owner, links, clkTd, thread, ran, passed, broken, skipped>>

-----------------------------------------------------------------------------
(* swsys_call_exec.  Once it returns so does main, and the process ends     *)
(* with every thread in it.                                                *)

StartService ==
    /\ pc = "services"
    /\ i <= ServicesNum
    /\ \/ i' = i + 1 /\ UNCHANGED <<pc, broken>>
       \/ MayFail /\ pc' = "returned" /\ broken' = broken \cup {"service"} /\ UNCHANGED i
    /\ UNCHANGED <<sys, errs, owner, links, clkTd, thread, ran, passed, skipped>>

AllServices ==
    /\ pc = "services"
    /\ i = ServicesNum + 1
    /\ pc' = "start"
    /\ i' = 1
    /\ UNCHANGED <<sys, errs, owner, links, clkTd, thread, ran, passed, broken, skipped>>

ExecOnce(t) == sys.type[t] = "ibr"

\* As if the last task got a thread of its own, too.
DetachedStartTask(t) ==
    /\ At("start", t)
    /\ ~ExecOnce(t)
    /\ thread' = [thread EXCEPT ![t] = "running"]
    /\ i' = t + 1
    /\ UNCHANGED <<sys, pc, errs, owner, links, clkTd, ran, passed, broken, skipped>>

\* A thread for the task; the last one runs in the calling thread.
StartTask(t) ==
    /\ At("start", t)
    /\ ~ExecOnce(t)
    /\ thread' = [thread EXCEPT ![t] = "running"]
    /\ IF t < N THEN i' = t + 1 /\ UNCHANGED pc ELSE pc' = "task" /\ UNCHANGED i
    /\ UNCHANGED <<sys, errs, owner, links, clkTd, ran, passed, broken, skipped>>

\* As if such a task were forgotten.
SkippingRunOnce(t) ==
    /\ At("start", t)
    /\ ExecOnce(t)
    /\ i' = t + 1
    /\ UNCHANGED <<sys, pc, errs, owner, links, clkTd, thread, ran, passed, broken, skipped>>

RunOnce(t) ==
    /\ At("start", t)
    /\ ExecOnce(t)
    /\ ran' = ran \cup {t}
    /\ i' = t + 1
    /\ UNCHANGED <<sys, pc, errs, owner, links, clkTd, thread, passed, broken, skipped>>

\* No memory for the handle, or no thread.
StartFails(t) ==
    /\ At("start", t)
    /\ MayFail
    /\ pc' = "returned"
    /\ broken' = broken \cup {"thread"}
    /\ UNCHANGED <<sys, i, errs, owner, links, clkTd, thread, ran, passed, skipped>>

AllStarted ==
    /\ pc = "start"
    /\ i = N + 1
    /\ pc' = "returned"
    /\ UNCHANGED <<sys, i, errs, owner, links, clkTd, thread, ran, passed, broken, skipped>>

ProcessRuns == pc \notin {"refused", "returned"}

\* A pass of the loop of task().
RunTask(t) ==
    /\ ProcessRuns
    /\ thread[t] = "running"
    /\ ran' = ran \cup {t}
    /\ UNCHANGED <<sys, pc, i, errs, owner, links, clkTd, thread, passed, broken, skipped>>

\* eswb_get_update fails: the loop ends, and with it the thread.
EndTask(t) ==
    /\ ProcessRuns
    /\ thread[t] = "running"
    /\ sys.clk[t] # NoTopic
    /\ MayFail \/ ~clkTd[t]
    /\ thread' = [thread EXCEPT ![t] = "ended"]
    /\ broken' = broken \cup {"update"}
    /\ pc' = IF t = N THEN "returned" ELSE pc
    /\ UNCHANGED <<sys, i, errs, owner, links, clkTd, ran, passed, skipped>>

-----------------------------------------------------------------------------
Main ==
    \/ CreateBusses \/ EndPhase \/ StartService \/ AllServices \/ AllStarted
    \/ \E t \in Tasks :
          \/ \E p \in {"init", "params", "preexec"} : CallPlain(p, t)
          \/ InitOutputs(t) \/ InitInputs(t)
          \/ StartTask(t) \/ RunOnce(t) \/ StartFails(t)

Next == Main \/ \E t \in Tasks : RunTask(t) \/ EndTask(t)

Spec == Init /\ [][Next]_vars

\* The calling thread and every thread it created get to run.
FairSpec == Spec /\ WF_vars(Main) /\ \A t \in Tasks : WF_vars(RunTask(t))

-----------------------------------------------------------------------------
(* Properties.                                                             *)

\* No task is executed unless every task has been through every phase with
\* success: no early return, and no failure of one task hidden by another's
\* success (the err_cnt of each swsys_call_...).
RunsOnlyWhenReady == ran # {} => \A t \in Tasks : passed[t] = Phases

\* When a task is executed, no topic has two producers in the configuration:
\* what tasks assume of each other's topics is established by the start.
SingleProducer ==
    ran # {} => \A t, u \in Tasks : t # u =>
        (Produces(t) \ skipped[t]) \cap (Produces(u) \ skipped[u]) = {}

\* A task that is executed is connected to all that its function is given to
\* read, and to the topic that clocks it, and what it is connected to is
\* proclaimed by a task that has it among its own.  Two tasks may run with less:
\* an ibr does with a part of its topics, and a flow without those for which it
\* could not create a bridge.
RunnersAreFed ==
    \A t \in ran :
        /\ sys.type[t] \in {"fsm", "ebr"} => links[t] = Ins(t)
        /\ sys.type[t] = "flow" => Ins(t) \ skipped[t] \subseteq links[t] /\ links[t] \subseteq Ins(t)
        /\ sys.clk[t] # NoTopic => clkTd[t]
        /\ \A x \in links[t] : owner[x] \in Tasks /\ x \in Produces(owner[x])

\* The topic x is there when t connects its inputs: outputs are, and the func
\* sources of the tasks before it.
Supplied(x, t) == \E u \in Tasks : x \in Outs(u) \/ (u < t /\ x \in FuncTopics(u))

\* What the configuration must be like: one producer of each topic, a producer
\* of every topic read or clocking, and a bridge after its sources ("bridge
\* supposed to be initialized after its sources", ebr.c:27).  A func source
\* counts as a producer of its topic, not as a reader: of a topic that a task
\* produces there can be none.  The order of the other tasks is of no concern.
Consistent ==
    /\ \A t, u \in Tasks : t # u => Produces(t) \cap Produces(u) = {}
    /\ \A t \in Tasks :
          /\ sys.clk[t] # NoTopic => Supplied(sys.clk[t], t)
          /\ FuncSource(t) => Ins(t) # {} /\ Ins(t) \cap Outs(t) = {}
          /\ ~FuncSource(t) => \A x \in Ins(t) : Supplied(x, t)
          /\ sys.type[t] = "ebr" => \A x \in Ins(t) : \E u \in Tasks : u < t /\ x \in Outs(u)
          /\ sys.type[t] = "ibr" /\ sys.source[t] = "func_br" => Ins(t) # {}

Intact == broken = {} /\ \A t \in Tasks : skipped[t] = {}

\* A consistent configuration is not refused, in whatever order its tasks are
\* given, unless something breaks.
ConsistentIsAccepted == pc = "refused" => ~Consistent \/ ~Intact

\* Once started, the process only ends because of a failure or because its
\* last task is one executed once ("if this task is last, process terminates",
\* swsys.c:438).
EndsForAReason == pc = "returned" => broken # {} \/ ExecOnce(N)

\* Every task of a consistent configuration is executed, unless something
\* breaks.
EveryTaskRuns ==
    Consistent /\ ~ExecOnce(N) => \A t \in Tasks : <>(t \in ran \/ ~Intact)
=============================================================================
