SPECIFICATION FairSpec
CONSTANTS
    N = 4
    Topics <- TopicNames
    NoTopic = "none"
    Systems <- Configurations
    ServicesNum = 1
    MayFail = TRUE
INVARIANTS RunsOnlyWhenReady RunnersAreFed ConsistentIsAccepted EndsForAReason
PROPERTY EveryTaskRuns
CHECK_DEADLOCK FALSE
