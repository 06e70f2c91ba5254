\* The boolean transformer on the raw values 1, true and maybe for the
\* boolean-typed key p: does a non-boolean value reach the service?
CONSTANTS
    UserKeys = {"p"}
    RawValues = {"true", "1", "maybe"}
    Paths = {"f"}
    FileKind <- MCFileKind
    BaseName <- MCBaseName
    RunnerParams <- MCRunnerParams
    ActionParams <- MCActionParams
    MaxArgs = 1
SPECIFICATION Spec
INVARIANT BooleanParamsAreBool
CHECK_DEADLOCK FALSE
