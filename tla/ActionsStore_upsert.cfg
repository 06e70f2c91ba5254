\* Two handlers serving any pair of requests: GET by id or name, POST, PUT
\* or DELETE of any id, with a name that is free or taken, a runner that
\* exists or not, a valid pack or not, and a body that validates or not.
\* One action is stored at the start; two ids are free for POSTs.
CONSTANTS
    Ids = {"i1", "i2", "i3"}
    Seed <- MCSeed
    Names = {"a", "b"}
    Runners = {"local", "ghost"}
    KnownRunners = {"local"}
    Packs = {"default", "nopack"}
    ValidPacks = {"default"}
    Reqs = {"r1", "r2"}
SPECIFICATION Spec
PROPERTY ImplementsUpsertStore
\* Every handler ends by answering; the final states are not deadlocks
\* (a handler that could not answer is caught by the property's fairness).
CHECK_DEADLOCK FALSE
