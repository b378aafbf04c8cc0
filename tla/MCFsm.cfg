CONSTANTS
    ctl = ctl
    sub = sub
    led = led
    cB = cB
    idle = idle
    run = run
    cE = cE
    sB = sB
    s1 = s1
    s2 = s2
    sE = sE
    lB = lB
    on = on
    off = off
    lE = lE
    go = go
    ok = ok
    t1 = t1
    t2 = t2
    t3 = t3
    t4 = t4
    t5 = t5
    t6 = t6
    t7 = t7
    t8 = t8
    t9 = t9
    ta = ta
    tb = tb
    Machines <- MCMachines
    Roots <- MCRoots
    States <- MCStates
    Inputs <- MCInputs
    Transitions <- MCTransitions
    Owner <- MCOwner
    Begin <- MCBegin
    End <- MCEnd
    Nested <- MCNested
    Trans <- MCTrans
    To <- MCTo
    Cond <- MCCond
    NoMachine = nomachine
    MaxAge = 2
SPECIFICATION FairSpec
INVARIANTS TimeoutsMeasureEntry TrueDuringCountsReadings OneMovePerExecution
INVARIANTS HostIsCurrent NestedStartsAfresh
PROPERTY TimeoutMovesMachine
