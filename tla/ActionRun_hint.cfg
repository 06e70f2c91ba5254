\* An integer parameter whose raw value contains the words "malformed
\* string": which error does run() report?
CONSTANTS
    UserKeys = {"p", "q"}
    RawValues = {"1", "maybe", "malformed string"}
    Paths = {"f"}
    FileKind <- MCFileKind
    BaseName <- MCBaseName
    RunnerParams <- MCRunnerParams
    ActionParams <- MCActionParams
    MaxArgs = 1
SPECIFICATION Spec
INVARIANT BoolHintOnlyForBoolean
CHECK_DEADLOCK FALSE
