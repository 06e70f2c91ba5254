# TLA+ models of the st2 action CLI

These TLA+ modules model the `st2 run` / `st2 action execute` path of the
StackStorm client (`src/st2client/st2client/commands/action.py`), and the
API server's REST handlers that store actions
(`src/st2api/st2api/controllers/actions.py`). The TLC runs check the models
on small instances. TLAPS proves, for every value of the constants,
invariants of the client's parameter handling and of its help output, and
that the concurrent handlers implement an abstract atomic store.

## The system

`ActionRunCommand.run` (action.py:81-199) is a single-threaded client that
runs these steps in order:

1. **Lookup.** It resolves the action reference and then the action's runner
   type. Either may be missing.
2. **Argument parser.** It scans the `parameters` tokens in order:
   - A `key=value` token is typed by `normalize`. The runner's declared type
     is used first, then the action's; with neither, the value stays a string.
     The types come from the `transformer` table: `literal_eval` for boolean,
     `int`, `float`, `json.loads`, comma split.
   - An `@key=path` token reads the file. It stores the content under
     `file_content` and the base name under the staging key `_file_name`.
   - The first token without `=` ends the scan. It and all later tokens are
     joined into `cmd`.
   - An exception whose text contains "malformed string" is replaced by the
     boolean hint. Any other exception is re-raised.
3. **Post-pass.** If `file_content` is set, `method` defaults to `POST`,
   `file_name` defaults to the staged name, and `_file_name` is deleted.
4. **Submitter.** `create()` sends the execution to the execution service.
5. **Poller.** Unless the run is `--async`, it sleeps and calls `get_by_id`
   while the status is `scheduled` or `running`. Then it JSON-decodes the
   result if it can.

`print_help` (action.py:250-285) runs before `run` when `--help` is given. It:

- looks up the action and the runner;
- merges their schemas with `_get_params_types`: the action's entry overrides
  the runner's, and immutability is the OR of the two flags;
- prints the required group and then the optional group, each sorted by
  `_get_parameter_sort_value` (the position, else the name, else `None`);
- prints each parameter with `print_param`. It raises before printing
  anything on a missing schema. It raises after printing the name when the
  description is not a string (`textwrap.fill`, 213) or an enum member is not
  a string (`', '.join`, 217).

Any exception after the lookup is caught and printed as one ERROR line.

`ActionsController` (actions.py) serves `get_one`, `get_all`, `post`, `put`
and `delete` for actions. The API server runs several handlers at once
against one collection. Each database call is atomic, but `put` and
`delete` make two calls: `__get_by_id` (404 when absent) and then
`add_or_update` or `Action.delete`. `post` checks the runner type (404), the
content pack (400) and relies on the unique name index (409); `put` checks
neither the runner nor the pack, and the index's `NotUniqueError` escapes as
a 500.

The execution service is not part of this repository. It is modelled from
spec §4.5: an execution goes from scheduled to running to a terminal status
with a result.

## Modules

| module | models | state |
|---|---|---|
| `ActionRun` | `run()` and the execution service | `pc` (the point reached in `run`), `hasRef`, `args` (the token list), `async`, `idx` (loop index), `params` (`execution.parameters`), `exec` (the client's copy), `err` (exception kind and token index), `svc` (the service's record) |
| `MC_ActionRun` | TLC instances: schemas and disk contents | |
| `ActionRun_proofs` | TLAPS proofs about `ActionRun` | |
| `HelpRender` | `print_help`, `_get_params_types`, `_sort_parameters`, `print_param` | `request` (flags and lookup results), `rp`/`ap` (the two schemas), `reqR`/`reqA` (the two required lists), `hasDesc`, `out` (the printed lines) |
| `MC_HelpRender` | TLC instance: name order | |
| `HelpRender_proofs` | TLAPS proofs of the three `help` invariants | |
| `StoreData` | the records, requests, replies and checks of `ActionsController` | (operators only) |
| `AtomicStore` | the abstract store: each request one atomic step | `store`, `allocated` (ids ever used), `req`, `reply` |
| `ActionsStore` | the handlers, each a process with one or two database calls | `db`, `used`, `req` (each handler's request), `pc` (`start`, `write`, `done`), `resp` |
| `MC_ActionsStore` | TLC instance: the seeded collection | |
| `ActionsStore_proofs` | TLAPS proofs about `ActionsStore`: refinement of `AtomicStore`, type correctness | |

How `ActionRun` corresponds to the code:

- `Resolve` models lines 83-95.
- `ParseAssignment` is one iteration of the loop for a `=` token (134-165).
  `ParseBare` is the `else` branch and its `break` (166-168).
- `Submit` is the post-pass together with `create` (170-182). `PostPassFails`
  is the `KeyError` of lines 177/179.
- `PollRefetch` is one turn of the wait loop (184-190). `PollError` is the
  same turn when `get_by_id` raises.
- `Finish` is the loop exit with the decode (192-199).
- `Progress` is the service.

How Python's conversions are modelled:

- A conversion is tabulated by what it returns on each representative input
  string of `KnownRaw`: `LiteralOf` for `literal_eval(capitalize)`, `JsonOf`
  for `json.loads`, and `IntText`/`FloatText` for the strings that `int` and
  `float` accept. Any other input raises.
- A value records its Python type and the text it came from.
- The file system is a constant map from path to file, directory, missing or
  unreadable.

How `ActionsStore` corresponds to `actions.py`:

- `GetOne` is `get_one` (50-63), `GetAll` is `get_all` with
  `__get_by_name` (41-48, 65-77), `Post` is `post` (89-150): its checks in
  the code's order (`PostError`) and one `add_or_update` that takes a fresh
  id.
- `PutRead` is `put`'s `__get_by_id` (153) followed by `to_model`
  (156-157), whose `ValidationError`/`ValueError` is the 400 (159-162).
  `to_model` only converts the body and touches no shared state, so it is
  part of the same atomic step as the read. `PutWrite` is `add_or_update`
  (158-168): `NotUniqueError` escapes as a 500 (`PutError`), else the id
  is upserted.
- `PostError` and `PutError` are `IF` chains, not `CASE`, because the code
  tries its checks in order and several can fail at once.
- `DeleteRead` is `delete`'s lookup (181); `DeleteWrite` is `Action.delete`
  (186), which does not fail on a document already gone.
- A body is abstracted to a record (name, runner type, pack) and a flag
  `valid` for whether `to_model` and the model's validation accept it.
- `NameTaken`, the unique index, is modelled from the persistence layer's
  contract (it is not in this repository).

`AtomicStore` is what a store of actions promises. `StrictSpec` is the
linearizable store. `UpsertSpec` also admits a PUT that writes back an id
that held an action once (`APutLate`) and a DELETE that answers 204 for such
an id (`ADeleteLate`), and requires every request to be answered. The
mapping is `store <- db`, `allocated <- used`, `reply <- resp`: a handler's
last database call is its store step, and `PutRead`/`DeleteRead` on a
present id are stutters.

In `HelpRender`, the printed text is a sequence of lines (a header, a
parameter name, or an error). A schema records whether it is non-empty, its
`immutable` flag, its `position`, and whether `print_param` can format it
(`printable`). `Printed` cuts the text at the first parameter that
`print_param` raises on. The cut drops that parameter's line when its schema
is missing (`Missing`) and keeps it when the schema cannot be formatted
(`Unprintable`). An ERROR line follows the cut. This keeps what the properties compare and drops
the wording. The client is Python 2 code (it reads `args.async`), so
`KeyLess` compares sort keys the Python 2 way: None < numbers < strings.
`sorted` over a set may order equal keys either way, so the model takes any
order with non-decreasing keys. The properties are stated over the indices of
`out` (`ParamLines`, `Listing(S)`): which lines list a parameter, and which
list a member of `S`. `HelpAssumption` requires the set of names to be finite,
which a schema (a JSON object) always is.

## Runs

| run | expect | properties | what it shows |
|---|---|---|---|
| `params` | pass | `TypeOK`, `ParamsAsSpecified`, `SyncReturnsFinal`, `RunTerminates` | see below |
| `boolean` | violation | `BooleanParamsAreBool` | `p=1` for a boolean `p` is submitted as the integer 1 (`literal_eval`, line 111). |
| `filekey` | violation | `OnlyDeclaredErrors` | a plain `file_content=...` token makes the post-pass raise `KeyError` on `_file_name` (line 177). |
| `stagekeys` | violation | `ParamsAsSpecified` | `_file_name=true file_content=true`, with no `@` token, is post-processed as if a file had been staged: `method` defaults to POST, `file_name` is copied from `_file_name`, and `_file_name` is dropped (line 170). Spec §4.3 post-processes only a staged file. |
| `hint` | violation | `BoolHintOnlyForBoolean` | an integer parameter whose text is "malformed string" gets the boolean hint (line 160). |
| `help` | pass | `ImmutableNeverListed`, `HelpOrdered`, `HelpListsAll` | see below |
| `partition` | violation | `PartitionExact` | a required name with no schema entry breaks spec §4.1's partition claim, so help prints ERROR (line 228). |
| `upsert` | pass | `ImplementsUpsertStore` | see below |
| `linear` | violation | `Linearizable` | TLC's trace: a PUT finds the action (actions.py:153), a DELETE removes it and answers 204, then the PUT writes it back and answers 200. In an atomic store a PUT after the DELETE answers 404. |
| `valid` | violation | `StoredActionsValid` | a PUT stores a pack with no `actions/` directory: `put()` skips `post()`'s checks (actions.py:157). |

What the `params` run checks:

- **`ParamsAsSpecified`** compares the loop with a declarative reading of
  spec §4.3: the tokens before the first bare one are scanned, the last writer
  of each key wins, the bare tail becomes `cmd`, then the file post-pass is
  applied. An execution is created only if no scanned token fails, and then
  with exactly those parameters. A failing run fails at the first failing
  token, with that token's error.
- **`SyncReturnsFinal`**: a synchronous run returns the service's terminal
  record, with its result decoded.
- **`RunTerminates`**: every run ends, either by returning or by raising.
  A `get_by_id` that raises mid-wait (action.py:190) also ends the run. The
  execution it leaves running on the service is not reported, and no
  property states what should happen to it.

What the `help` run checks:

- **`ImmutableNeverListed`**: help never lists a parameter that either
  schema marks immutable.
- **`HelpOrdered`**: each group lists parameters with a position first, by
  position, then the others by name.
- **`HelpListsAll`**: for an action with a description, an ERROR line is
  printed exactly when some required or optional parameter cannot be printed:
  it has no schema, or its description or enum cannot be formatted. When
  every one can be printed, each is listed once, required ones first.

What the `upsert` run checks:

- **`ImplementsUpsertStore`**: `AtomicStore!UpsertSpec` under the refinement
  mapping, liveness included: every request takes effect atomically at its
  last database call and is answered, and a PUT or DELETE only touches an id
  the database allocated. `UpsertSpec` deliberately admits the write-back
  and the second 204 that the `linear` run exhibits. The `linear` run, not
  this one, is the check on those anomalies.

Unique names are not a property of the model. The unique name index is in
the persistence layer, which is not in this repository, and the model takes
it as the contract of `add_or_update` (`NameTaken`). A property of unique
names would therefore hold by that assumption alone.

Each property of a passing run has a mutant in `PROJECT.json` that TLC
catches. Each mutant is a plausible bug:

- the bare token handled without `break`, or skipping a token;
- a wait loop that tests only `scheduled`;
- a refetch that returns the cached copy;
- action-only immutability;
- sorting by name only;
- an optional set that keeps the required names;
- a PUT that writes without looking the id up.

### Bounds

**`params`** (172,820 distinct states):

- Keys: `p` is typed boolean by the runner and integer by the action (so the
  runner's type must win), `q` is typed integer by the action only, and
  `method` is declared without a type.
- Raw values: `true`, `1`, `maybe`. They give a valid boolean, a valid
  integer that the boolean transformer also accepts (as the integer 1), and a
  value that the boolean and integer transformers reject.
- Paths: a file, a directory, and a missing path.
- Lists of up to three tokens. This length is enough for an overwrite, a
  failure after a success, a bare token in the middle, and a file token
  followed by `method`.

**`help`** (2,465,112 distinct states): every runner and action schema over
two names (each absent, empty, or with any immutable flag, position 0, 1 or
none, and formattable or not),
every pair of required lists, with and without a description. Two positions
give both ties and positions that contradict the name order.

**`upsert`** (24,642 distinct states): two handlers, each with any request
over three ids (one seeded, two free for POSTs), two names (one taken), a
known and an unknown runner, a valid and an invalid pack, and a valid and
invalid body. Two handlers are enough for every pair of racing calls: a PUT
or DELETE racing a DELETE, two POSTs or a POST and a PUT taking one name.
The violation runs use the same instance.

### Fairness

`run()` is one thread that always executes its next statement, so every
client step of `ActionRun` is weakly fair, with one exception:
`PollError`, a failure of the service call, has no fairness and is never
forced.

`RunTerminates` also assumes weak fairness of the service's `Progress`. This
is the assumption the code depends on: the wait loop has no timeout (spec §5).

`HelpRender` is checked only for invariants.

Each handler of `ActionsStore` is weakly fair: a server worker runs the
request it took to completion.

Deadlock checking is off in every cfg. In every final state `run()` or
`print_help` has returned and the process exits, so a state with no next
step is not a deadlock.

## What is proved

`ActionRun_proofs.tla` is checked by `tlapm` with no unproved step. It assumes
`ConstAssumption`:

- the schemas map keys to schema types;
- the raw values are among the tabulated strings;
- `MaxArgs` is a natural number.

It proves three theorems:

- **`TypeCorrect`**: `Spec => []TypeOK`. `TypeOK` alone is not inductive. The
  proof goes through `IInv`, which adds three facts:
  - the loop index is 1 before the loop starts;
  - inside the loop, the index points at a token;
  - in the wait loop, the service's record exists.

  There is one lemma per action, plus lemmas on the operators the model uses:
  `Transform`, `Normalize` and `ReadFile` return outcomes, `PostPass` keeps
  the parameter map well typed, and an `=` token is a key or file token.
- **`SyncResultFinal`**: `Spec => []SyncReturnsFinal`. The proof goes through
  `WaitInv`, which is `IInv` plus two facts:
  - in the wait loop the copy has a status;
  - once the copy is terminal, it equals the service's record (`Refetch`).
- **`ParamsResolved`**: `Spec => []ParamsAsSpecified`, under the hypothesis
  `StagingKeysApart`: `file_content` and `_file_name` are not both in
  `UserKeys`. This is a hypothesis of the theorem, not an assumption on the
  constants. Without it the property is false, and the `stagekeys` run shows
  the counterexample. The proof goes through `PInv`, which adds to `IInv`:
  - before the loop, the parameters are empty;
  - inside the loop, the tokens before `idx` all have `=` and succeed
    (`ScannedOk`), and every key holds the value of the last of them that
    writes it (`ParamsAfter`);
  - after the loop, no scanned token fails, and the parameters are
    `ScannedParams`;
  - `ParamsAsSpecified` itself.

  The loop invariant replaces induction over the token list: each step of
  the loop extends it by one token (`AfterStep`, `UpdateIsWrite`). On leaving
  the loop it is `ScannedParams` (`AfterIsScanned`).

  `FirstBare` and `LastWriter` are defined with `CHOOSE`. Their lemmas
  (`FirstBareSpec`, `FirstBareAt`, `LastWriterSpec`) get the chosen element
  from `LeastNat` and `GreatestIn` (`WFMin`), and pin it down by uniqueness.

  `PostPassExpected` shows that a post-pass that does not raise gives the
  expected parameters:
  - with a staged file, `file_content` is present (`StagedContent`);
  - with no staged file and `file_content` present, the hypothesis says
    nothing writes `_file_name`, so the post-pass raises
    (`UnstagedContent`).

  `WaitInv` is inductive for two reasons: `Progress` cannot change a terminal
  record, and `Finish` takes the copy only when it is terminal.

All three strengthenings were checked with TLC as invariants before they were
proved.

`ActionsStore_proofs.tla` proves, from `StoreAssumption` (finitely many
ids, a seed with unique names, known runners and valid packs among the
runners and packs):

- **`RefinesUpsertStore`**: `Spec => AS!AInit /\ [][AS!UpsertNext]_AS!avars`,
  the safety part of `ImplementsUpsertStore`. The proof goes through `SInv`,
  which adds to `TypeOK`:
  - a handler that is not done has not answered (so its store step finds
    `reply[r] = NoReply`);
  - a handler between its two calls serves a PUT or DELETE of an allocated
    id (so a write to an id that is now absent is a late step);
  - every id holding an action was allocated.

  There is one lemma per handler step, each showing that the step keeps
  `SInv` and is a store step or a stutter, and a lemma that the data
  operators seen through the instance are the handlers' own.
  `PutRead` maps to one of three things:
  - a stutter when the id holds an action and the body converts;
  - the store's 404 when the id holds no action;
  - the store's PUT answering `PutError`'s 400 otherwise.
- **`StoreTypeCorrect`**: `Spec => []TypeOK` for the handlers.

`SInv` was checked with TLC before it was proved.

`HelpRender_proofs.tla` proves, from `HelpAssumption`, the three invariants
of the `help` run for every set of names, name order and positions:

- **`ImmutableParamsHidden`**: `Spec => []ImmutableNeverListed`, through
  `IInv` (`TypeOK` and the property). `IInv` is inductive because every step
  rewrites `out` from the fixed schemas. The argument:
  - every parameter line of the help text names a member of `Required` or
    `Optional` (`ParamsIn`, kept by concatenation and by `Printed`'s
    truncation);
  - neither set holds a name either schema marks immutable
    (`ListableNotImmutable`).
- **`HelpIsOrdered`**: `Spec => []HelpOrdered`, through `OInv`. `OInv` says
  that what is printed is sorted by `SortKey` within each group
  (`SortedIn`), and that it lists no parameter without a schema
  (`NoMissing`). A line of a parameter that cannot be formatted may be
  printed before the ERROR line, but such a parameter has a schema, so its
  key is its position or its name. Two lemmas carry it:
  - `KeyOrder`: for parameters with a schema, the promised order implies
    `KeyLess` on the keys;
  - `ConcatSorted`: the two groups list disjoint sets, so joining them keeps
    each sorted.
- **`HelpListsEveryParam`**: `Spec => []HelpListsAll`, through `LInv`. Once
  the help of an action with a description is printed, there is a help text
  `HelpText(oreq, oopt)` from sorted orders of the two groups such that:
  - `out` is that text when `print_param` raises on none of its lines;
  - otherwise `out` holds an ERROR line.

  `HelpTextBad` shows that `print_param` raises on no line of the text
  exactly when every required and optional parameter can be printed,
  because the text lists each of them and only them. `PrintedShape`
  describes the cut, and `ErrorAppended` shows that the cut text holds the
  ERROR line. `OrderOnto` shows that a sorted order of a
  finite set lists each member once: it has `Cardinality(S)` distinct
  entries, so it is onto (`FS_Injection`). `GroupLists`, `ConcatLists` and
  `ConcatReqFirst` carry this through the text.

`Printed` picks the first bad line with `CHOOSE`. That such a line exists
comes from `LeastNat`: `<` is well founded on `Nat` (`WFMin` of
`WellFoundedInduction`). This needs no induction with an operator parameter.
`IInv`, `OInv` and `LInv` were each checked with TLC as invariants of the
`help` run before they were proved. `LInv` is stated without `Printed`.
A first version said `out = Printed(...)`, and its primed form needed two
`CHOOSE` expressions to be equal when their predicates are. The provers do
not find that step.

These are checked only with TLC:

- liveness (`RunTerminates`, and the part of `ImplementsUpsertStore` saying
  every request is answered): TLAPS does not reason with fairness and
  `ENABLED` here;
- `ParamsAsSpecified` when a user may type both staging keys: the
  `stagekeys` run shows it is false then;
- the violated properties, which the runs refute.

## Not modelled

- **`_validate_action_parameters`** (actions.py:79-87). It is never called:
  its call in `post()` (126) is commented out.
- **The `enabled` default in `post()`** (100-105). It sets a field that no
  check and no property reads.
- **`run()` against a concurrently changing store.** `run()` reads the
  action and its runner once and submits. The service validates the
  parameters against the action it holds at create (spec 4.4), and that
  code is not in this repository.
- **Execution list/get commands and command registration.** They only forward
  one call and print the answer.
- **Output formatting.** It is out of scope.
- **The race between `read_file`'s checks and its `open`.** The file system
  is a fixed map. The race's outcomes (an `IOError` from `open`, or the
  content of another file) are those of a path of kind `unreadable` or
  `file`, which the model already has.

## Plan

1. An abstract `Invoke` specification: one step from the request to created
   or failed, then a terminal result. `ActionRun` will be shown to refine it
   with `INSTANCE ... WITH`, and the refinement proved step by step.
2. `Linearizable` fails, and `UpsertSpec` admits the resulting
   anomalies. A weaker named property could state exactly which of them
   clients may observe: a 200 for a PUT after a 204 for a DELETE of the same
   id.
