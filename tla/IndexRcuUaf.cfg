SPECIFICATION Spec
CONSTANTS
    Threads = {t1, t2, t3}
    Instances = {i1, i2, i3}
    NoInst = NoInst
    First = i1
    MaxLost = 1
    Scribble <- MCScribble
INVARIANTS
    NoUseAfterFree
