\* The strict store: a PUT or DELETE acts on an id only while it holds an
\* action.  Two handlers with a PUT and a DELETE of the seeded id among
\* their requests suffice.
CONSTANTS
    Ids = {"i1", "i2", "i3"}
    Seed <- MCSeed
    Names = {"a", "b"}
    Runners = {"local", "ghost"}
    KnownRunners = {"local"}
    Packs = {"default", "nopack"}
    ValidPacks = {"default"}
    Reqs = {"r1", "r2"}
SPECIFICATION Spec
PROPERTY Linearizable
\* Every handler ends by answering: the final states are not deadlocks.
CHECK_DEADLOCK FALSE
