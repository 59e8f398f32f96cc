SPECIFICATION FairSpec
CONSTANTS
    Instances = {1, 2}
    Patches = {p, q}
    NoPatch = noPatch
    Workers = {w1}
    EvalMax = 1
    DefaultTotal = 4
    RetryMissing = TRUE
    MaxBoots = 2
INVARIANT EvalTypeOK
INVARIANT EvalDoneMeansAll
INVARIANT ReportsMatch
INVARIANT EntriesTruthful
PROPERTY RowsGetEvaluated
PROPERTY WorkerEnds
