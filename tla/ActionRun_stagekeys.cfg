\* A user who types both staging keys, _file_name and file_content, as plain
\* `key=value` parameters and no `@key=path` token: are the parameters the
\* ones spec 4.3 gives when no file was staged?
CONSTANTS
    UserKeys = {"_file_name", "file_content"}
    RawValues = {"true"}
    Paths = {"f"}
    FileKind <- MCFileKind
    BaseName <- MCBaseName
    RunnerParams <- MCRunnerParams
    ActionParams <- MCActionParams
    MaxArgs = 2
SPECIFICATION Spec
INVARIANT ParamsAsSpecified
CHECK_DEADLOCK FALSE
