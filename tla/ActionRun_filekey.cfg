\* A user who types the reserved key file_content as a plain `key=value`
\* parameter: does the file post-pass raise?
CONSTANTS
    UserKeys = {"p", "file_content"}
    RawValues = {"true"}
    Paths = {"f"}
    FileKind <- MCFileKind
    BaseName <- MCBaseName
    RunnerParams <- MCRunnerParams
    ActionParams <- MCActionParams
    MaxArgs = 2
SPECIFICATION Spec
INVARIANT OnlyDeclaredErrors
CHECK_DEADLOCK FALSE
