\* Parameter resolution and the synchronous wait, over every list of at
\* most three tokens built from the keys p, q, method, the raw values
\* true, 1, maybe, and the paths f (file), d (directory), m (missing).
CONSTANTS
    UserKeys = {"p", "q", "method"}
    RawValues = {"true", "1", "maybe"}
    Paths = {"f", "d", "m"}
    FileKind <- MCFileKind
    BaseName <- MCBaseName
    RunnerParams <- MCRunnerParams
    ActionParams <- MCActionParams
    MaxArgs = 3
SPECIFICATION Spec
INVARIANTS
    TypeOK
    ParamsAsSpecified
    SyncReturnsFinal
PROPERTIES
    RunTerminates
\* run() returns or raises and the CLI process exits: the final states
\* are not deadlocks.
CHECK_DEADLOCK FALSE
