SPECIFICATION Spec
CONSTANTS
    Instances = {1, 2}
    Patches = {p, q}
    NoPatch = noPatch
    Workers = {w1, w2}
    EvalMax = 1
    DefaultTotal = 4
    RetryMissing = TRUE
    MaxBoots = 2
INVARIANT EvalSlots
