\* The runner and pack checks on every write: one PUT with an unknown
\* runner, or a pack without an actions/ directory, is among the requests.
CONSTANTS
    Ids = {"i1", "i2", "i3"}
    Seed <- MCSeed
    Names = {"a", "b"}
    Runners = {"local", "ghost"}
    KnownRunners = {"local"}
    Packs = {"default", "nopack"}
    ValidPacks = {"default"}
    Reqs = {"r1", "r2"}
SPECIFICATION Spec
INVARIANT StoredActionsValid
\* Every handler ends by answering: the final states are not deadlocks.
CHECK_DEADLOCK FALSE
