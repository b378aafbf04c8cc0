CONSTANTS
    gen = gen
    mod = mod
    cont = cont
    prop = prop
    norm = norm
    o1 = o1
    o2 = o2
    m1 = m1
    im1 = im1
    isig = isig
    out = out
    NoTopic = notopic
    Tasks <- MCTasks
    Topics <- MCTopics
    Prog <- MCProg
    Clock <- MCClock
    Forgetful = {cont}
    MaxCycles = 2
CHECK_DEADLOCK FALSE
SPECIFICATION FairSpec
INVARIANTS PublishSkew BatchOrder ClockedFreshness CausalReads
PROPERTY UpdateReachesOutput
