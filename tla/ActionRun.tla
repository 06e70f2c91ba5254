------------------------------ MODULE ActionRun ------------------------------
(***************************************************************************)
(* The `st2 action execute|run` handler, ActionRunCommand.run in           *)
(* st2client/commands/action.py: resolve the action and its runner type,   *)
(* scan the CLI parameter tokens into execution.parameters (typed by the   *)
(* runner's and the action's schemas, `@key=path` read from disk, the      *)
(* first bare token and the rest collapsed into `cmd`), apply the file     *)
(* post-pass, create the execution and, in synchronous mode, poll it until *)
(* it leaves scheduled/running and decode its result.                      *)
(*                                                                         *)
(* The execution-management service the client talks to is not in this    *)
(* repository's sources; its behaviour (create, advance the status, answer *)
(* get_by_id) is modelled from the spec, section 4.5 and 6.                *)
(***************************************************************************)
EXTENDS Naturals, Sequences

CONSTANTS
    UserKeys,       \* parameter names a user may type (strings)
    RawValues,      \* raw value strings typed after `key=`
    Paths,          \* file paths typed after `@key=`
    FileKind,       \* what each path is on disk
    BaseName,       \* os.path.basename(os.path.normpath(cwd/path))
    RunnerParams,   \* runner.runner_parameters: name -> declared type
    ActionParams,   \* action.parameters: name -> declared type
    MaxArgs         \* bound on the number of CLI parameter tokens

(* Declared "type" of a schema entry: one of the transformer keys, a type  *)
(* string with no transformer, or no "type" field at all.                  *)
SchemaTypes == {"array", "boolean", "integer", "number", "object", "string",
                "other", "untyped"}
TransformerTypes == {"array", "boolean", "integer", "number", "object", "string"}

(* The representative raw strings whose Python parses the model tabulates. *)
KnownRaw == {"true", "FALSE", "1", "2.5", "none", "maybe", "{}", "a,b",
             "malformed string"}

ASSUME ConstAssumption ==
    /\ UserKeys \subseteq STRING
    /\ RawValues \subseteq KnownRaw
    /\ Paths \subseteq STRING
    /\ FileKind \in [Paths -> {"file", "dir", "missing", "unreadable"}]
    /\ BaseName \in [Paths -> STRING]
    /\ \E D \in SUBSET UserKeys : RunnerParams \in [D -> SchemaTypes]
    /\ \E D \in SUBSET UserKeys : ActionParams \in [D -> SchemaTypes]
    /\ MaxArgs \in Nat

-----------------------------------------------------------------------------
(* Python values, abstracted to their type and the string they came from.  *)
(* `at` is used only by `cmd`: the index of the token where the joined     *)
(* tail starts.                                                             *)
PyTypes == {"bool", "int", "float", "NoneType", "dict", "list", "str", "bytes"}
Srcs == RawValues \cup Paths \cup {BaseName[p] : p \in Paths} \cup {"POST", "joined", ""}
Values == [t : PyTypes, src : Srcs, at : 0..MaxArgs]
Val(ty, s) == [t |-> ty, src |-> s, at |-> 0]
Absent == [t |-> "absent", src |-> "", at |-> 0]       \* key not in the dict

(* Result of a call that may raise: the value, or the exception's class    *)
(* and whether str(e) contains "malformed string" (action.py:160).         *)
ExcClasses == {"ValueError", "SyntaxError", "IOError"}
Outcomes == [ok : {TRUE}, val : Values, exc : {"none"}, hint : {FALSE}]
       \cup [ok : {FALSE}, val : {Absent}, exc : ExcClasses, hint : BOOLEAN]
Ok(v) == [ok |-> TRUE, val |-> v, exc |-> "none", hint |-> FALSE]
Raise(c, m) == [ok |-> FALSE, val |-> Absent, exc |-> c, hint |-> m]

(* Messages of int(), float() and open() quote the offending text.         *)
Mentions(s) == s = "malformed string"

(* ast.literal_eval(s.capitalize()): the literal's type, "malformed" for a *)
(* ValueError('malformed string'), "syntax" for a SyntaxError.             *)
LiteralOf(s) ==
    CASE s \in {"true", "FALSE"} -> "bool"
      [] s = "1"                 -> "int"
      [] s = "2.5"               -> "float"
      [] s = "none"              -> "NoneType"
      [] s = "{}"                -> "dict"
      [] s \in {"maybe", "a,b"}  -> "malformed"
      [] OTHER                   -> "syntax"
(* json.loads(s): the decoded type, or "invalid".                          *)
JsonOf(s) ==
    CASE s = "true" -> "bool"
      [] s = "1"    -> "int"
      [] s = "2.5"  -> "float"
      [] s = "{}"   -> "dict"
      [] OTHER      -> "invalid"
IntText == {"1"}
FloatText == {"1", "2.5"}

(* The `transformer` table, applied to a raw string.                       *)
Transform(ty, v) ==
    CASE ty = "array"   -> Ok(Val("list", v))
      [] ty = "boolean" -> IF LiteralOf(v) \in PyTypes THEN Ok(Val(LiteralOf(v), v))
                           ELSE IF LiteralOf(v) = "malformed" THEN Raise("ValueError", TRUE)
                           ELSE Raise("SyntaxError", FALSE)
      [] ty = "integer" -> IF v \in IntText THEN Ok(Val("int", v))
                           ELSE Raise("ValueError", Mentions(v))
      [] ty = "number"  -> IF v \in FloatText THEN Ok(Val("float", v))
                           ELSE Raise("ValueError", Mentions(v))
      [] ty = "object"  -> IF JsonOf(v) \in PyTypes THEN Ok(Val(JsonOf(v), v))
                           ELSE Raise("ValueError", FALSE)
      [] OTHER          -> Ok(Val("str", v))

(* normalize(name, value): the runner's declared type first, then the      *)
(* action's; a value with no known type is kept as the string.             *)
Typed(schema, n) == n \in DOMAIN schema /\ schema[n] \in TransformerTypes
Normalize(n, v) ==
    IF Typed(RunnerParams, n) THEN Transform(RunnerParams[n], v)
    ELSE IF Typed(ActionParams, n) THEN Transform(ActionParams[n], v)
    ELSE Ok(Val("str", v))

(* read_file(file_path): existence check, is-file check, then open().      *)
ReadFile(p) ==
    CASE FileKind[p] = "file"    -> Ok(Val("bytes", p))
      [] FileKind[p] = "unreadable" -> Raise("IOError", Mentions(p))
      [] OTHER                   -> Raise("ValueError", Mentions(p))

-----------------------------------------------------------------------------
(* CLI tokens after `ref-or-id`: `key=value`, `@key=path`, or a token with *)
(* no `=`.  A token is given already split at its first `=`.               *)
KVTokens == [eq : {TRUE}, file : {FALSE}, key : UserKeys, val : RawValues]
FileTokens == [eq : {TRUE}, file : {TRUE}, key : UserKeys, val : Paths]
Bare == [eq |-> FALSE, file |-> FALSE, key |-> "", val |-> ""]
Tokens == KVTokens \cup FileTokens \cup {Bare}
ArgLists == UNION {[1..n -> Tokens] : n \in 0..MaxArgs}

ReservedKeys == {"cmd", "file_content", "_file_name", "file_name", "method"}
AllKeys == UserKeys \cup ReservedKeys
NoParams == [k \in AllKeys |-> Absent]

Pending == {"scheduled", "running"}          \* ACTIONEXEC_STATUS_*
Terminal == {"succeeded", "failed", "canceled"}
Results == {"none", "json", "raw", "decoded"}
ErrKinds == {"none", "usage", "not_found", "bool_hint", "KeyError", "api_error"}
            \cup ExcClasses

VARIABLES
    pc,         \* where run() is
    hasRef,     \* args.ref_or_id was given
    args,       \* args.parameters
    async,      \* args.async
    idx,        \* loop index into args
    params,     \* execution.parameters
    exec,       \* the client's copy of the execution
    err,        \* the exception run() raised, and the token it came from
    svc         \* the service's execution record

vars == <<pc, hasRef, args, async, idx, params, exec, err, svc>>

NoExec == [status |-> "none", result |-> "none"]
TypeOK ==
    /\ pc \in {"start", "parse", "post", "poll", "done", "failed"}
    /\ hasRef \in BOOLEAN
    /\ args \in Seq(Tokens) /\ Len(args) <= MaxArgs
    /\ async \in BOOLEAN
    /\ idx \in 1..(MaxArgs + 1)
    /\ params \in [AllKeys -> Values \cup {Absent}]
    /\ exec \in [status : {"none"} \cup Pending \cup Terminal, result : Results]
    /\ err \in [kind : ErrKinds, at : 0..MaxArgs]
    /\ svc \in [status : {"absent"} \cup Pending \cup Terminal, result : Results,
                params : [AllKeys -> Values \cup {Absent}]]

Init ==
    /\ pc = "start"
    /\ hasRef \in BOOLEAN
    /\ args \in ArgLists
    /\ async \in BOOLEAN
    /\ idx = 1
    /\ params = NoParams
    /\ exec = NoExec
    /\ err = [kind |-> "none", at |-> 0]
    /\ svc = [status |-> "absent", result |-> "none", params |-> NoParams]

Fail(kind, at) == pc' = "failed" /\ err' = [kind |-> kind, at |-> at]

(* run(): a missing ref-or-id is a usage error; the action, then its       *)
(* runner type, are looked up and either may be missing.                   *)
Resolve ==
    /\ pc = "start"
    /\ \/ ~hasRef /\ Fail("usage", 0)
       \/ hasRef /\ Fail("not_found", 0)
       \/ /\ hasRef
          /\ pc' = IF args = <<>> THEN "post" ELSE "parse"
          /\ UNCHANGED err
    /\ UNCHANGED <<hasRef, args, async, idx, params, exec, svc>>

(* One iteration of the loop over args.parameters for a `key=value` or     *)
(* `@key=path` token: store the typed value, or the file's content and     *)
(* name under the staging keys; an exception whose message mentions        *)
(* "malformed string" is replaced by the boolean hint, others re-raised.   *)
ParseAssignment ==
    LET tok == args[idx]
        out == IF tok.file THEN ReadFile(tok.val) ELSE Normalize(tok.key, tok.val)
    IN
    /\ pc = "parse"
    /\ tok.eq
    /\ IF out.ok
         THEN /\ params' = IF tok.file
                             THEN [params EXCEPT !["_file_name"] = Val("str", BaseName[tok.val]),
                                                 !["file_content"] = out.val]
                             ELSE [params EXCEPT ![tok.key] = out.val]
              /\ idx' = idx + 1
              /\ pc' = IF idx = Len(args) THEN "post" ELSE "parse"
              /\ UNCHANGED err
         ELSE /\ Fail(IF out.hint THEN "bool_hint" ELSE out.exc, idx)
              /\ UNCHANGED <<params, idx>>
    /\ UNCHANGED <<hasRef, args, async, exec, svc>>

(* Variants of ParseBare with the bugs a rewrite of this branch could     *)
(* make: slicing args.parameters[idx + 1:] (dropping the bare token), and *)
(* forgetting the `break` so later tokens are still parsed one by one.    *)
ParseBareSkipsToken ==
    /\ pc = "parse"
    /\ ~args[idx].eq
    /\ params' = [params EXCEPT !["cmd"] = [t |-> "str", src |-> "joined", at |-> idx + 1]]
    /\ pc' = "post"
    /\ UNCHANGED <<hasRef, args, async, idx, exec, err, svc>>
ParseBareNoBreak ==
    /\ pc = "parse"
    /\ ~args[idx].eq
    /\ params' = [params EXCEPT !["cmd"] = [t |-> "str", src |-> "joined", at |-> idx]]
    /\ idx' = idx + 1
    /\ pc' = IF idx = Len(args) THEN "post" ELSE "parse"
    /\ UNCHANGED <<hasRef, args, async, exec, err, svc>>

(* The first token without `=`: it and every later token, joined by        *)
(* spaces, become `cmd`, and the loop breaks.                              *)
ParseBare ==
    /\ pc = "parse"
    /\ ~args[idx].eq
    /\ params' = [params EXCEPT !["cmd"] = [t |-> "str", src |-> "joined", at |-> idx]]
    /\ pc' = "post"
    /\ UNCHANGED <<hasRef, args, async, idx, exec, err, svc>>

(* The file post-pass: when `file_content` is in the parameters, default   *)
(* `method` and `file_name`, then delete `_file_name` (a KeyError when it  *)
(* is missing).                                                            *)
PostPass(p) ==
    IF p["file_content"] = Absent THEN p
    ELSE [k \in AllKeys |->
            CASE k = "_file_name" -> Absent
              [] k = "method" /\ p[k] = Absent -> Val("str", "POST")
              [] k = "file_name" /\ p[k] = Absent -> p["_file_name"]
              [] OTHER -> p[k]]
PostPassFails(p) == p["file_content"] # Absent /\ p["_file_name"] = Absent

(* The post-pass, then action_exec_mgr.create(): the service rejects the   *)
(* request, or records it as scheduled and returns it.  In async mode run  *)
(* returns the created execution as it is.                                 *)
Submit ==
    /\ pc = "post"
    /\ IF PostPassFails(params)
         THEN Fail("KeyError", 0) /\ UNCHANGED <<exec, svc>>
         ELSE \/ Fail("api_error", 0) /\ UNCHANGED <<exec, svc>>
              \/ /\ svc' = [status |-> "scheduled", result |-> "none",
                            params |-> PostPass(params)]
                 /\ exec' = [status |-> "scheduled", result |-> "none"]
                 /\ pc' = IF async THEN "done" ELSE "poll"
                 /\ UNCHANGED err
    /\ UNCHANGED <<hasRef, args, async, idx, params>>

(* A wait loop that tests only for "scheduled".                           *)
IsPendingScheduledOnly(s) == s = "scheduled"

(* The loop condition of the synchronous wait.                             *)
IsPending(s) == s = "scheduled" \/ s = "running"

(* A refetch that hands back the copy already held (a cached response).  *)
RefetchStale == exec

(* action_exec_mgr.get_by_id(execution.id): a fresh copy of the record.    *)
Refetch == [status |-> svc.status, result |-> svc.result]

(* One turn of the wait loop: sleep, print a dot, refetch the execution.   *)
PollRefetch ==
    /\ pc = "poll"
    /\ IsPending(exec.status)
    /\ exec' = Refetch
    /\ UNCHANGED <<pc, hasRef, args, async, idx, params, err, svc>>

(* The same turn when get_by_id raises: the error propagates out of run(). *)
PollError ==
    /\ pc = "poll"
    /\ IsPending(exec.status)
    /\ Fail("api_error", 0)
    /\ UNCHANGED <<hasRef, args, async, idx, params, exec, svc>>

(* json.loads(execution.result), any failure silently ignored.             *)
Decode(r) == IF r = "json" THEN "decoded" ELSE r

(* Leaving the wait loop: decode the result and return the execution.      *)
Finish ==
    /\ pc = "poll"
    /\ ~IsPending(exec.status)
    /\ exec' = [exec EXCEPT !.result = Decode(exec.result)]
    /\ pc' = "done"
    /\ UNCHANGED <<hasRef, args, async, idx, params, err, svc>>

(* The execution service advances a created execution: scheduled to       *)
(* running or to a terminal status, running to a terminal status; a        *)
(* terminal execution carries a result, JSON-encoded or not.               *)
Progress ==
    /\ IsPending(svc.status)
    /\ \/ svc.status = "scheduled" /\ svc' = [svc EXCEPT !.status = "running"]
       \/ \E s \in Terminal, r \in {"json", "raw"} :
             svc' = [svc EXCEPT !.status = s, !.result = r]
    /\ UNCHANGED <<pc, hasRef, args, async, idx, params, exec, err>>

Client == Resolve \/ ParseAssignment \/ ParseBare \/ Submit \/ PollRefetch
          \/ PollError \/ Finish
Next == Client \/ Progress

(* The CLI process is a single thread that always runs its next statement: *)
(* every client step is weakly fair, except that a service error on a      *)
(* refetch is never forced, so the wait loop cannot end by failing; the    *)
(* service is assumed to keep advancing the execution it accepted.         *)
Fairness ==
    /\ WF_vars(Resolve \/ ParseAssignment \/ ParseBare \/ Submit \/ Finish)
    /\ WF_vars(PollRefetch)
    /\ WF_vars(Progress)

Spec == Init /\ [][Next]_vars /\ Fairness

(* TypeOK strengthened to be inductive: the loop starts at the first      *)
(* token and inside it the index points at a token; the client waits only  *)
(* on an execution the service has created.                                *)
IInv ==
    /\ TypeOK
    /\ pc = "start" => idx = 1
    /\ pc = "parse" => idx \in 1..Len(args)
    /\ pc = "poll" => svc.status # "absent"


-----------------------------------------------------------------------------
(* What the spec (section 4.3) says the parameters of a run are, stated    *)
(* over the whole token list rather than by a loop: the tokens before the  *)
(* first bare one are scanned; each key gets the value of the last scanned *)
(* token that writes it; the bare tail is `cmd`; a staged file defaults    *)
(* `method` and `file_name` and its staging key is dropped.                *)
FirstBare ==
    IF \E i \in 1..Len(args) : ~args[i].eq
      THEN CHOOSE i \in 1..Len(args) : ~args[i].eq /\ \A j \in 1..(i - 1) : args[j].eq
      ELSE Len(args) + 1
Scanned == 1..(FirstBare - 1)
TokenOutcome(i) ==
    IF args[i].file THEN ReadFile(args[i].val) ELSE Normalize(args[i].key, args[i].val)
Failing == {i \in Scanned : ~TokenOutcome(i).ok}
Writes(i, k) == IF args[i].file THEN k \in {"file_content", "_file_name"} ELSE k = args[i].key
Written(i, k) ==
    IF args[i].file /\ k = "_file_name" THEN Val("str", BaseName[args[i].val])
    ELSE TokenOutcome(i).val
LastWriter(k) == CHOOSE i \in Scanned : Writes(i, k) /\ \A j \in Scanned : Writes(j, k) => j <= i
ScannedParams ==
    [k \in AllKeys |->
        IF k = "cmd" /\ FirstBare <= Len(args)
          THEN [t |-> "str", src |-> "joined", at |-> FirstBare]
        ELSE IF \E i \in Scanned : Writes(i, k) THEN Written(LastWriter(k), k)
        ELSE Absent]
Staged == \E i \in Scanned : args[i].file
ExpectedParams ==
    LET L == ScannedParams IN
    IF ~Staged THEN L
    ELSE [k \in AllKeys |->
            IF k = "_file_name" THEN Absent
            ELSE IF L[k] # Absent THEN L[k]
            ELSE IF k = "method" THEN Val("str", "POST")
            ELSE IF k = "file_name" THEN L["_file_name"]
            ELSE Absent]
ErrorOf(o) == IF o.hint THEN "bool_hint" ELSE o.exc

(* Parameter resolution (the token loop and the file post-pass): an        *)
(* execution is created only when no scanned token fails, and then with    *)
(* exactly the parameters the spec's last-writer semantics gives; a run    *)
(* that fails on a token fails on the first failing one, with its error.   *)
ParamsAsSpecified ==
    /\ svc.status # "absent" => Failing = {} /\ svc.params = ExpectedParams
    /\ (pc = "failed" /\ err.at # 0) =>
           /\ err.at \in Failing
           /\ \A j \in Failing : err.at <= j
           /\ err.kind = ErrorOf(TokenOutcome(err.at))

(* The synchronous wait (action.py:184-197) returns the execution only in  *)
(* a terminal status, and the copy it returns is the service's final one,  *)
(* with its result decoded.                                                *)
SyncReturnsFinal ==
    (pc = "done" /\ ~async) =>
        /\ exec.status \in Terminal
        /\ exec.status = svc.status
        /\ exec.result = Decode(svc.result)

(* Every invocation of run() returns or raises, given that the service     *)
(* keeps advancing the execution it accepted.                              *)
RunTerminates == <>(pc \in {"done", "failed"})

(* The type normalize() applies to a key: the runner's, else the action's. *)
EffectiveType(k) ==
    IF Typed(RunnerParams, k) THEN RunnerParams[k]
    ELSE IF Typed(ActionParams, k) THEN ActionParams[k]
    ELSE "untyped"

(* Spec 4.2: a boolean parameter is a true/false literal, any other value  *)
(* fails.  The boolean transformer is ast.literal_eval(x.capitalize()),    *)
(* action.py:111.                                                          *)
BooleanParamsAreBool ==
    svc.status # "absent" =>
        \A k \in UserKeys :
            (EffectiveType(k) = "boolean" /\ svc.params[k] # Absent) => svc.params[k].t = "bool"

(* Spec 7: run() fails only with the errors of its taxonomy (not found,    *)
(* invalid value, file access, the service's own); the post-pass at        *)
(* action.py:170-179 must not raise.                                       *)
OnlyDeclaredErrors == err.kind # "KeyError"

(* Spec 4.2/7: the "Valid values are: true, false" hint is given for a     *)
(* malformed boolean parameter; action.py:160 chooses it by searching the  *)
(* exception's message for "malformed string".                             *)
BoolHintOnlyForBoolean ==
    (pc = "failed" /\ err.kind = "bool_hint") =>
        ~args[err.at].file /\ EffectiveType(args[err.at].key) = "boolean"

(* IInv strengthened for SyncReturnsFinal: inside the wait loop the client *)
(* holds a copy of an execution, and once that copy is terminal it is the  *)
(* service's current record (a terminal execution no longer changes).      *)
WaitInv ==
    /\ IInv
    /\ pc = "poll" => exec.status # "none"
    /\ (pc = "poll" /\ exec.status \in Terminal) => exec = Refetch
    /\ SyncReturnsFinal
====
