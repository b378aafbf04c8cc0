------------------------------ MODULE Dataflow ------------------------------
(***************************************************************************)
(* The running system: every task loops over "wait for the clock, execute  *)
(* the function" (swsys.c, task), tasks share nothing but ESWB topics, and *)
(* nothing makes the reads or the writes of one execution atomic.          *)
(*                                                                         *)
(* What one execution does is a program of bus operations: a flow calls    *)
(* its input bridges, its functions in batch order and its output bridges; *)
(* an fsm reads its inputs, updates and publishes; a bus bridge reads its  *)
(* sources and publishes.  Each of those is a "call" followed by its reads *)
(* and writes, one topic at a time.                                        *)
(*                                                                         *)
(* A value is abstracted to its stamp: for each task, the newest cycle of  *)
(* that task the value was computed from.                                  *)
(***************************************************************************)
EXTENDS Integers, Sequences

CONSTANTS Tasks,
          Topics,
          NoTopic,
          Prog,      \* Prog[t]: the bus operations of one execution of t
          Clock,     \* Clock[t]: the topic of clk_input_path, NoTopic if the
                     \* task is free running or driven by a timer
          Forgetful, \* the tasks for which eswb_get_update may ignore an update
                     \* that came before it was called (the bus is external code)
          MaxCycles  \* bound: executions of a task that has no clock topic

Ops == [kind : {"call", "read", "write"}, topic : Topics \cup {NoTopic}]

Reads(t) == {i \in DOMAIN Prog[t] : Prog[t][i].kind = "read"}
Writes(t) == {i \in DOMAIN Prog[t] : Prog[t][i].kind = "write"}
Topic(t, i) == Prog[t][i].topic

ASSUME DataflowAssumption ==
    /\ NoTopic \notin Topics
    /\ Prog \in [Tasks -> Seq(Ops)]
    /\ \A t \in Tasks : Prog[t] # <<>> /\ Prog[t][1].kind = "call"
    /\ \A t \in Tasks : \A i \in DOMAIN Prog[t] :
          Prog[t][i].kind # "call" => Prog[t][i].topic \in Topics
    /\ Clock \in [Tasks -> Topics \cup {NoTopic}]
    /\ Forgetful \subseteq Tasks
    /\ MaxCycles \in Nat

\* A topic is proclaimed by the one function that publishes it.
ASSUME SingleWriter ==
    \A t, u \in Tasks : \A i \in Writes(t), j \in Writes(u) :
        Topic(t, i) = Topic(u, j) => t = u /\ i = j

VARIABLES mode, \* where each task's thread is in the loop of task()
          pc,   \* the next operation of a running task, 0 outside
          cyc,  \* executions each task has begun
          seen, \* update of the clock topic the task last woke for
          bus,  \* the stamp of each topic's value
          upd,  \* how many updates each topic has had
          got,  \* what each read operation of each task obtained last
          acc   \* stamp of what the call in progress has computed from

vars == <<mode, pc, cyc, seen, bus, upd, got, acc>>

Stamp == [Tasks -> Nat]
Never == [p \in Tasks |-> 0]
Newest(a, b) == [p \in Tasks |-> IF a[p] > b[p] THEN a[p] ELSE b[p]]

TypeOK ==
    /\ mode \in [Tasks -> {"top", "waiting", "running", "ended"}]
    /\ pc \in [Tasks -> Nat]
    /\ \A t \in Tasks : IF mode[t] = "running" THEN pc[t] \in DOMAIN Prog[t]
                                               ELSE pc[t] = 0
    /\ \A t \in Tasks : mode[t] = "waiting" => Clock[t] # NoTopic
    /\ cyc \in Stamp
    /\ seen \in [Tasks -> Nat]
    /\ bus \in [Topics -> Stamp]
    /\ upd \in [Topics -> Nat]
    /\ DOMAIN got = Tasks
    /\ \A t \in Tasks : got[t] \in [DOMAIN Prog[t] -> Stamp]
    /\ acc \in [Tasks -> Stamp]

Init ==
    /\ mode = [t \in Tasks |-> "top"]
    /\ pc = [t \in Tasks |-> 0]
    /\ cyc = Never
    /\ seen = [t \in Tasks |-> 0]
    /\ bus = [x \in Topics |-> Never]
    /\ upd = [x \in Topics |-> 0]
    /\ got = [t \in Tasks |-> [i \in DOMAIN Prog[t] |-> Never]]
    /\ acc = [t \in Tasks |-> Never]

-----------------------------------------------------------------------------
(* The loop of task().                                                     *)

Execute(t) ==
    /\ mode' = [mode EXCEPT ![t] = "running"]
    /\ pc' = [pc EXCEPT ![t] = 1]
    /\ cyc' = [cyc EXCEPT ![t] = @ + 1]
    /\ UNCHANGED <<bus, upd, got, acc>>

\* swsys_clk_freerun and swsys_clk_timer: nothing to wait for but time.
Tick(t) ==
    /\ mode[t] = "top"
    /\ Clock[t] = NoTopic
    /\ cyc[t] < MaxCycles
    /\ Execute(t)
    /\ UNCHANGED seen

\* A bus that only reports updates made during the call.
ForgetfulBeginWait(t) ==
    /\ mode[t] = "top"
    /\ Clock[t] # NoTopic
    /\ mode' = [mode EXCEPT ![t] = "waiting"]
    /\ seen' = [seen EXCEPT ![t] = upd[Clock[t]]]
    /\ UNCHANGED <<pc, cyc, bus, upd, got, acc>>

\* swsys_clk_inp_upd: the call of eswb_get_update.
BeginWait(t) ==
    /\ mode[t] = "top"
    /\ Clock[t] # NoTopic
    /\ mode' = [mode EXCEPT ![t] = "waiting"]
    /\ \/ UNCHANGED seen
       \/ t \in Forgetful /\ seen' = [seen EXCEPT ![t] = upd[Clock[t]]]
    /\ UNCHANGED <<pc, cyc, bus, upd, got, acc>>

\* eswb_get_update returns eswb_e_ok.
Wake(t) ==
    /\ mode[t] = "waiting"
    /\ upd[Clock[t]] > seen[t]
    /\ seen' = [seen EXCEPT ![t] = upd[Clock[t]]]
    /\ Execute(t)

\* eswb_get_update fails: the thread leaves the loop, the others go on.
WaitFails(t) ==
    /\ mode[t] = "waiting"
    /\ mode' = [mode EXCEPT ![t] = "ended"]
    /\ UNCHANGED <<pc, cyc, seen, bus, upd, got, acc>>

-----------------------------------------------------------------------------
(* One execution of the task's function, operation by operation.           *)

Doing(t, kind) == mode[t] = "running" /\ Prog[t][pc[t]].kind = kind

\* After the last operation the thread is back at the top of its loop.
Advance(t) ==
    /\ pc' = [pc EXCEPT ![t] = IF @ = Len(Prog[t]) THEN 0 ELSE @ + 1]
    /\ mode' = [mode EXCEPT ![t] = IF pc[t] = Len(Prog[t]) THEN "top" ELSE @]

\* A function of the batch, a bridge, or the fsm begins.
Call(t) ==
    /\ Doing(t, "call")
    /\ acc' = [acc EXCEPT ![t] = [Never EXCEPT ![t] = cyc[t]]]
    /\ Advance(t)
    /\ UNCHANGED <<cyc, seen, bus, upd, got>>

\* As if an input that was obtained once were not read again.
CachedRead(t) ==
    /\ Doing(t, "read")
    /\ LET v == IF got[t][pc[t]] = Never THEN bus[Prog[t][pc[t]].topic]
                                         ELSE got[t][pc[t]]
       IN  /\ got' = [got EXCEPT ![t][pc[t]] = v]
           /\ acc' = [acc EXCEPT ![t] = Newest(@, v)]
    /\ Advance(t)
    /\ UNCHANGED <<cyc, seen, bus, upd>>

\* As if only the topic that clocks a task were read.
ClockOnlyRead(t) ==
    /\ Doing(t, "read")
    /\ LET x == Prog[t][pc[t]].topic
           v == IF x = Clock[t] THEN bus[x] ELSE got[t][pc[t]]
       IN  /\ got' = [got EXCEPT ![t][pc[t]] = v]
           /\ acc' = [acc EXCEPT ![t] = Newest(@, v)]
    /\ Advance(t)
    /\ UNCHANGED <<cyc, seen, bus, upd>>

\* One eswb_read.  It fails on a topic that has no value yet; the input then
\* keeps its old content, which is the stamp the topic has anyway.
Read(t) ==
    /\ Doing(t, "read")
    /\ LET v == bus[Prog[t][pc[t]].topic]
       IN  /\ got' = [got EXCEPT ![t][pc[t]] = v]
           /\ acc' = [acc EXCEPT ![t] = Newest(@, v)]
    /\ Advance(t)
    /\ UNCHANGED <<cyc, seen, bus, upd>>

\* As if the execution returned after its first publication every other time.
LeavingWrite(t) ==
    /\ Doing(t, "write")
    /\ LET x == Prog[t][pc[t]].topic
       IN  /\ bus' = [bus EXCEPT ![x] = acc[t]]
           /\ upd' = [upd EXCEPT ![x] = @ + 1]
    /\ \/ Advance(t)
       \/ pc' = [pc EXCEPT ![t] = 0] /\ mode' = [mode EXCEPT ![t] = "top"]
    /\ UNCHANGED <<cyc, seen, got, acc>>

\* One eswb_update_topic.
Write(t) ==
    /\ Doing(t, "write")
    /\ LET x == Prog[t][pc[t]].topic
       IN  /\ bus' = [bus EXCEPT ![x] = acc[t]]
           /\ upd' = [upd EXCEPT ![x] = @ + 1]
    /\ Advance(t)
    /\ UNCHANGED <<cyc, seen, got, acc>>

-----------------------------------------------------------------------------
Step(t) == Call(t) \/ Read(t) \/ Write(t)

Next == \E t \in Tasks : \/ Tick(t) \/ BeginWait(t) \/ Wake(t) \/ WaitFails(t)
                         \/ Step(t)

Spec == Init /\ [][Next]_vars

\* Threads keep running; no one promises that a timer fires again.
FairSpec ==
    /\ Spec
    /\ \A t \in Tasks : WF_vars(BeginWait(t)) /\ WF_vars(Wake(t)) /\ WF_vars(Step(t))

-----------------------------------------------------------------------------
(* Properties.                                                             *)

\* Operation i of t has been done in the execution in progress.
DoneNow(t, i) == mode[t] = "running" /\ i < pc[t]

\* The outputs of a task are published one after another, so others see them
\* torn, but never by more than one execution and always the earlier output
\* first (flow_exec's bridges, fsm_exec's output loop).
PublishSkew ==
    \A p \in Tasks : \A i, j \in Writes(p) :
        i < j =>
            /\ bus[Topic(p, j)][p] <= bus[Topic(p, i)][p]
            /\ bus[Topic(p, i)][p] <= bus[Topic(p, j)][p] + 1

\* Inside one flow a function sees what the functions before it in the batch
\* computed in this very execution, and what itself and those after it
\* computed in the previous one (functions_batch order in flow_exec).
BatchOrder ==
    \A t \in Tasks : \A i \in Reads(t), m \in Writes(t) :
        Topic(t, i) = Topic(t, m) /\ DoneNow(t, i) =>
            got[t][i][t] = IF m < i THEN cyc[t] ELSE cyc[t] - 1

\* A task clocked by an update of topic c computes with inputs of c's producer
\* at least as new as that update when they are published before c or are c
\* itself, and at most one execution older when they are published after c.
ClockedFreshness ==
    \A t, p \in Tasks : \A i \in Reads(t), k, m \in Writes(p) :
        /\ DoneNow(t, i)
        /\ Topic(p, k) = Clock[t]
        /\ Topic(p, m) = Topic(t, i)
        => seen[t] <= got[t][i][p] + (IF m <= k THEN 0 ELSE 1)

\* Reads in one execution never see the system run backwards: whatever data of
\* p reached read i, along any chain of tasks, a later read j of a topic of p
\* is at most one execution of p older, and no older at all when that topic is
\* the first p publishes.  This is what a task gets that reads a derived topic
\* (mode) before the source it was derived from (gen).
CausalReads ==
    \A t, p \in Tasks : \A i, j \in Reads(t), m \in Writes(p) :
        /\ t # p /\ i < j /\ DoneNow(t, j)
        /\ Topic(p, m) = Topic(t, j)
        => got[t][i][p] <= got[t][j][p]
              + (IF \A k \in Writes(p) : m <= k THEN 0 ELSE 1)

\* If the bus does not forget updates for a task, every update of its clock topic
\* comes out at the other end: what the task publishes last is sooner or later
\* computed from data of the clock's producer at least as new as that
\* update, unless the task's wait failed.  Several updates may share one
\* execution.  (For tasks that also read their clock topic.)
UpdateReachesOutput ==
    \A t, p \in Tasks : \A k \in Writes(p), j \in Writes(t), n \in 1..MaxCycles :
        /\ Topic(p, k) = Clock[t]
        /\ \E i \in Reads(t) : Topic(t, i) = Clock[t]
        /\ \A l \in Writes(t) : l <= j
        /\ t \notin Forgetful
        => (upd[Clock[t]] >= n ~> (mode[t] = "ended" \/ bus[Topic(t, j)][p] >= n))
=============================================================================
