-------------------------------- MODULE Fsm ---------------------------------
(***************************************************************************)
(* The hierarchical state machines of an fsm instance (fsminst/fsmlib/     *)
(* fsm.c) while its task executes them: fsm_exec reads the inputs, then    *)
(* updates every top-level machine; an update tries the transitions of the *)
(* current state in list order, takes at most one and descends into the    *)
(* machine nested in the state it is then in.  Conditions are a symbol, or *)
(* the two functions with a memory of their own, timeout and trueduring    *)
(* (fsminst.c).  Time passes between any two steps.                        *)
(*                                                                         *)
(* A moment is kept as its age, and ages stop at MaxAge, so that time has  *)
(* no horizon: only "at least d ago" is ever asked of a moment.            *)
(***************************************************************************)
EXTENDS Integers, Sequences

CONSTANTS Machines,    \* all machines of the instance
          Roots,       \* the top-level ones, in the order fsm_exec updates them
          States, Inputs, Transitions,
          Owner,       \* the machine a state belongs to
          Begin, End,  \* the machine's states "_begin_" and "_end_"
          Nested,      \* the machine nested in a state, NoMachine if none
          Trans,       \* a state's list of transitions
          To, Cond,    \* a transition's target and condition
          NoMachine,
          MaxAge       \* bound: ages saturate here, no duration is longer

Conds == [kind : {"symbol", "timeout", "trueduring"}, on : Inputs, for : 0..MaxAge]

ASSUME FsmAssumption ==
    /\ MaxAge \in Nat
    /\ NoMachine \notin Machines
    /\ Roots \in Seq(Machines) /\ Roots # <<>>
    /\ Owner \in [States -> Machines]
    /\ Begin \in [Machines -> States] /\ End \in [Machines -> States]
    /\ Nested \in [States -> Machines \cup {NoMachine}]
    /\ Trans \in [States -> Seq(Transitions)]
    /\ To \in [Transitions -> States]
    /\ Cond \in [Transitions -> Conds]

\* A transition joins states of one machine (load_transition looks both up in
\* it) and has one state in its from attribute; a nested machine has one host
\* and is no top-level machine; every load of a machine makes another one; and
\* "_begin_" and "_end_" are made by fsm_create, with nothing nested in them.
ASSUME TreeAssumption ==
    /\ \A f \in Machines : Owner[Begin[f]] = f /\ Owner[End[f]] = f
    /\ \A s \in States : \A i \in DOMAIN Trans[s] : Owner[To[Trans[s][i]]] = Owner[s]
    /\ \A s, u \in States : \A i \in DOMAIN Trans[s], j \in DOMAIN Trans[u] :
          Trans[s][i] = Trans[u][j] => s = u /\ i = j
    /\ \A s, u \in States : Nested[s] = Nested[u] /\ Nested[s] # NoMachine => s = u
    /\ \A s \in States, i \in DOMAIN Roots : Nested[s] # Roots[i]
    /\ \A i, j \in DOMAIN Roots : Roots[i] = Roots[j] => i = j
    /\ \A f \in Machines : Nested[Begin[f]] = NoMachine /\ Nested[End[f]] = NoMachine

VARIABLES cur,      \* fsm_t.current_state
          actAge,   \* timeout: age of its activation_time
          armed,    \* trueduring: its armed flag
          armAge,   \* trueduring: age of its arm_time
          in,       \* the symbols of the inputs, as last read
          at,       \* where fsm_exec is: top-level machine, machine, transition
          stateVar, \* the value of the machine's state symbol
          entAge,   \* history: age of the machine's last transition
          falseAge, \* history: age of the last reading of an input as FALSE
          moves     \* history: transitions of each machine in this fsm_exec

vars == <<cur, actAge, armed, armAge, in, at, stateVar, entAge, falseAge, moves>>

\* Between two executions; the machine and transition are of no meaning.
Idle == [root |-> 0, machine |-> Roots[1], trans |-> 0]

Ages == 0..MaxAge

TypeOK ==
    /\ cur \in [Machines -> States]
    /\ actAge \in [Transitions -> Ages]
    /\ armed \in [Transitions -> BOOLEAN]
    /\ armAge \in [Transitions -> Ages]
    /\ in \in [Inputs -> BOOLEAN]
    /\ at \in [root : 0..Len(Roots), machine : Machines, trans : Nat]
    /\ at.trans <= Len(Trans[cur[at.machine]]) + 1
    /\ stateVar \in [Machines -> States]
    /\ entAge \in [Machines -> Ages]
    /\ falseAge \in [Inputs -> Ages]
    /\ moves \in [Machines -> Nat]

\* activation_time and arm_time are zeroed by calloc: a condition that was
\* never activated measures from the zero of the monotonic clock.
Init ==
    /\ cur = Begin
    /\ \E uptime \in Ages : actAge = [t \in Transitions |-> uptime]
    /\ armed = [t \in Transitions |-> FALSE]
    /\ armAge = [t \in Transitions |-> MaxAge]
    /\ in = [i \in Inputs |-> FALSE]
    /\ at = Idle
    /\ stateVar = Begin
    /\ entAge = [f \in Machines |-> MaxAge]
    /\ falseAge = [i \in Inputs |-> MaxAge]
    /\ moves = [f \in Machines |-> 0]

-----------------------------------------------------------------------------
Older(ages) == [x \in DOMAIN ages |-> IF ages[x] < MaxAge THEN ages[x] + 1 ELSE MaxAge]

Tick ==
    /\ actAge' = Older(actAge)
    /\ armAge' = Older(armAge)
    /\ entAge' = Older(entAge)
    /\ falseAge' = Older(falseAge)
    /\ UNCHANGED <<cur, armed, in, at, stateVar, moves>>

\* The input loop of fsm_exec; a failed read leaves the symbol as it was.
ReadInputs ==
    /\ at.root = 0
    /\ in' \in [Inputs -> BOOLEAN]
    /\ falseAge' = [i \in Inputs |-> IF in'[i] THEN falseAge[i] ELSE 0]
    /\ moves' = [f \in Machines |-> 0]
    /\ at' = [root |-> 1, machine |-> Roots[1], trans |-> 0]
    /\ UNCHANGED <<cur, actAge, armed, armAge, stateVar, entAge>>

-----------------------------------------------------------------------------
(* fsm_do_update of the machine at.machine.                                *)

\* The update of a top-level machine is over: the next one, or the outputs.
NextRoot ==
    at' = IF at.root = Len(Roots) THEN Idle
          ELSE [root |-> at.root + 1, machine |-> Roots[at.root + 1], trans |-> 0]

\* The tail of fsm_do_update: update the machine nested in state s.
Descend(s) ==
    IF Nested[s] = NoMachine THEN NextRoot
    ELSE at' = [at EXCEPT !.machine = Nested[s], !.trans = 0]

Updating(f) == at.root > 0 /\ at.machine = f

\* The test for the end state, and the machine's on_update code, which
\* assigns symbols other than inputs and states.
BeginUpdate(f) ==
    /\ Updating(f)
    /\ at.trans = 0
    /\ IF cur[f] = End[f] THEN NextRoot ELSE at' = [at EXCEPT !.trans = 1]
    /\ UNCHANGED <<cur, actAge, armed, armAge, in, stateVar, entAge, falseAge, moves>>

\* The transition the scan of f has reached, if any is left.
Trying(f) == Updating(f) /\ at.trans \in DOMAIN Trans[cur[f]]
Tried(f) == Trans[cur[f]][at.trans]

\* What fsm_ii_exec returns for the condition of t.
Holds(t) ==
    CASE Cond[t].kind = "symbol" -> in[Cond[t].on]
      [] Cond[t].kind = "timeout" -> actAge[t] >= Cond[t].for
      [] Cond[t].kind = "trueduring" ->
            in[Cond[t].on] /\ armed[t] /\ armAge[t] >= Cond[t].for

\* What evaluating it does to its own state (eint_func_trueduring).
ArmedAfter(t) ==
    IF Cond[t].kind = "trueduring" THEN [armed EXCEPT ![t] = in[Cond[t].on]] ELSE armed

\* As if arm_time were never taken down again.
ArmingPassTransition(f) ==
    /\ Trying(f)
    /\ ~Holds(Tried(f))
    /\ LET t == Tried(f)
       IN  /\ armed' = [armed EXCEPT ![t] = @ \/ ArmedAfter(t)[t]]
           /\ armAge' = IF armed'[t] /\ ~armed[t] THEN [armAge EXCEPT ![t] = 0] ELSE armAge
    /\ at' = [at EXCEPT !.trans = @ + 1]
    /\ UNCHANGED <<cur, actAge, in, stateVar, entAge, falseAge, moves>>

\* As if the scan gave up at the first condition that does not hold.
ImpatientPassTransition(f) ==
    /\ Trying(f)
    /\ ~Holds(Tried(f))
    /\ LET t == Tried(f)
       IN  /\ armed' = ArmedAfter(t)
           /\ armAge' = IF armed'[t] /\ ~armed[t] THEN [armAge EXCEPT ![t] = 0] ELSE armAge
    /\ at' = [at EXCEPT !.trans = Len(Trans[cur[f]]) + 1]
    /\ UNCHANGED <<cur, actAge, in, stateVar, entAge, falseAge, moves>>

\* The condition does not hold: go on to the next transition of the list.
PassTransition(f) ==
    /\ Trying(f)
    /\ ~Holds(Tried(f))
    /\ LET t == Tried(f)
       IN  /\ armed' = ArmedAfter(t)
           /\ armAge' = IF armed'[t] /\ ~armed[t] THEN [armAge EXCEPT ![t] = 0] ELSE armAge
    /\ at' = [at EXCEPT !.trans = @ + 1]
    /\ UNCHANGED <<cur, actAge, in, stateVar, entAge, falseAge, moves>>

\* Nothing left to try: update the nested machine.
EndScan(f) ==
    /\ Updating(f)
    /\ at.trans = Len(Trans[cur[f]]) + 1
    /\ Descend(cur[f])
    /\ UNCHANGED <<cur, actAge, armed, armAge, in, stateVar, entAge, falseAge, moves>>

-----------------------------------------------------------------------------
(* fsm_transition, in the order of its calls.  The on_exit, transition and *)
(* on_enter code assigns symbols other than inputs and states; a state's   *)
(* batch of clock sources, disabled and enabled here, is never filled.     *)

\* As if a nested machine went on where it was left.
ResumingMoveTo(f, d) == cur' = [cur EXCEPT ![f] = d]

\* The new current state, and fsm_reset of the machine nested in it.
MoveTo(f, d) ==
    cur' = [g \in Machines |->
              IF g = f THEN d ELSE IF g = Nested[d] THEN Begin[g] ELSE cur[g]]

\* As if activation were left to the first evaluation.
LazyActivateTransitions(d) == UNCHANGED <<actAge, armed>>

\* activate_transitions: the conditions of the entered state start afresh.
ActivateTransitions(d) ==
    LET own == {Trans[d][i] : i \in DOMAIN Trans[d]}
    IN  /\ actAge' = [t \in Transitions |-> IF t \in own THEN 0 ELSE actAge[t]]
        /\ armed' = [t \in Transitions |-> t \notin own /\ armed[t]]

\* fsm_actualize_state_var.
Actualize(f, d) == stateVar' = [stateVar EXCEPT ![f] = d]

\* As if the scan went on after a transition.
UnbrokenAfterFiring(d) == at' = [at EXCEPT !.trans = 1]

\* As if the nested machine of the state the update began in were updated.
StaleAfterFiring(d) == Descend(cur[at.machine])

\* The break after a transition, then the nested machine of the new state.
AfterFiring(d) == Descend(d)

FireTransition(f) ==
    /\ Trying(f)
    /\ Holds(Tried(f))
    /\ LET d == To[Tried(f)]
       IN  /\ MoveTo(f, d)
           /\ ActivateTransitions(d)
           /\ Actualize(f, d)
           /\ AfterFiring(d)
    /\ entAge' = [entAge EXCEPT ![f] = 0]
    /\ moves' = [moves EXCEPT ![f] = @ + 1]
    /\ UNCHANGED <<armAge, in, falseAge>>

-----------------------------------------------------------------------------
Update(f) == BeginUpdate(f) \/ PassTransition(f) \/ FireTransition(f) \/ EndScan(f)

Next ==
    \/ Tick
    \/ ReadInputs
    \/ \E f \in Machines : Update(f)

Spec == Init /\ [][Next]_vars

\* The task is clocked again and again, its thread runs, and time passes.
FairSpec ==
    /\ Spec
    /\ WF_vars(ReadInputs)
    /\ WF_vars(\E f \in Machines : Update(f))
    /\ WF_vars(Tick)

-----------------------------------------------------------------------------
(* Properties.                                                             *)

RootMachines == {Roots[i] : i \in DOMAIN Roots}

\* A state's timeout measures from the transition that entered the state, not
\* from an earlier visit nor from its first evaluation (fsm.c activates, the
\* condition compares).  "_begin_" is not entered by a transition: there it
\* measures from boot, or from the last time the state was entered by one.
TimeoutsMeasureEntry ==
    \A f \in Machines : cur[f] # Begin[f] =>
        \A i \in DOMAIN Trans[cur[f]] : actAge[Trans[cur[f]][i]] = entAge[f]

\* When trueduring(x, d) is evaluated and is counting, every reading of x since
\* it began to count was true, and it began after the state was entered: no
\* false reading goes by unevaluated, neither because an earlier transition of
\* the list fired nor because the machine was not hosted.  A nested machine's
\* "_begin_" is the exception: fsm_reset does not disarm.
TrueDuringCountsReadings ==
    \A f \in Machines : Trying(f) =>
        LET t == Tried(f)
            x == Cond[t].on
        IN  (/\ Cond[t].kind = "trueduring" /\ armed[t] /\ in[x]
             /\ f \in RootMachines \/ cur[f] # Begin[f])
            => /\ armAge[t] <= falseAge[x]
               /\ cur[f] # Begin[f] => armAge[t] <= entAge[f]

\* One execution moves a machine at most once, whatever its host does ("one
\* transition per iteration", fsm_do_update).
OneMovePerExecution == \A f \in Machines : moves[f] <= 1

\* Only a machine whose host state is current is updated.
HostIsCurrent ==
    at.root > 0 => \/ at.machine \in RootMachines
                   \/ \E f \in Machines : Nested[cur[f]] = at.machine

\* A nested machine that has left "_begin_" has done so during this visit of
\* its host state, however often the host was left and entered.
NestedStartsAfresh ==
    \A f \in Machines :
        LET n == Nested[cur[f]]
        IN  n # NoMachine /\ cur[n] # Begin[n] /\ cur[f] # Begin[f] => entAge[n] <= entAge[f]

\* What a machine publishes as its state is the state it is in, except that a
\* nested machine just reset still shows the state it was left in (fsm_reset
\* does not write the symbol).
StateVarIsState ==
    \A f \in Machines :
        stateVar[f] = cur[f] \/ (f \notin RootMachines /\ cur[f] = Begin[f])

\* A top-level machine never leaves "_end_", even if a transition from there
\* is configured.
EndIsFinal == [][\A r \in RootMachines : cur[r] = End[r] => cur'[r] = End[r]]_vars

HasTimeout(s) ==
    \E i \in DOMAIN Trans[s] : Cond[Trans[s][i]].kind = "timeout" /\ To[Trans[s][i]] # s

\* A top-level machine does not stay in a state that has a timeout without
\* moving: wherever in the list the timeout stands, by that transition or
\* another the state is left or entered anew.  Entering anew is a transition
\* back to the same state; it activates the timeout afresh (fsm_transition), and
\* such transitions may keep the machine there for ever.
TimeoutMovesMachine ==
    \A r \in RootMachines : \A s \in States \ {End[r]} :
        HasTimeout(s) => []<>(cur[r] # s \/ entAge[r] = 0)
=============================================================================
