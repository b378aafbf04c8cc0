CONSTANTS
    s1 = s1
    s2 = s2
    Srcs = {s1, s2}
    Cycle = cycle
    NoOne = noone
    MaxEmits = 3
SPECIFICATION MuxFairSpec
PROPERTY LevelServed
