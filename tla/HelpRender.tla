----------------------------- MODULE HelpRender -----------------------------
(***************************************************************************)
(* The help path of `st2 run <ref> --help` (ActionRunCommand.print_help    *)
(* in st2client/commands/action.py): look up the action and its runner,   *)
(* merge their parameter schemas into required / optional / immutable     *)
(* (_get_params_types), sort each printed group by position or name       *)
(* (_sort_parameters, _get_parameter_sort_value) and print one entry per  *)
(* parameter (print_param), which raises on a missing schema.  Any         *)
(* exception after the lookup is caught and printed as one ERROR line.     *)
(*                                                                         *)
(* The printed text is abstracted to a sequence of lines that keep what    *)
(* the properties tell apart: which header, which parameter, which error.  *)
(* The client runs under Python 2 (it reads `args.async`), so sort keys    *)
(* of different types compare as Python 2 does: None < numbers < strings.  *)
(***************************************************************************)
EXTENDS Naturals, Sequences, FiniteSets

CONSTANTS
    Names,      \* parameter names
    NameRank,   \* the lexicographic order of the names, as ranks
    Positions   \* the values a schema's `position` can take

ASSUME HelpAssumption ==
    /\ IsFiniteSet(Names)
    /\ Positions \subseteq Nat
    /\ NameRank \in [Names -> Nat]
    /\ \A m, n \in Names : m # n => NameRank[m] # NameRank[n]

(* `position` is absent ({}) or holds one value ({p}).                     *)
NoPos == {}
PosSets == {NoPos} \cup {{p} : p \in Positions}
PosOf(m) == CHOOSE p \in m.pos : TRUE

(* A parameter's schema, as far as the help path reads it: whether the     *)
(* dict is non-empty (print_param's `if not schema`), its `immutable` flag *)
(* and its `position`, and whether print_param can format it: a            *)
(* description that is not a string (textwrap.fill) or an enum with a      *)
(* member that is not a string (', '.join) raises.  The empty dict has     *)
(* none of these.                                                          *)
EmptyMeta == [present |-> FALSE, immutable |-> FALSE, pos |-> NoPos, printable |-> TRUE]
Metas == {EmptyMeta} \cup
         [present : {TRUE}, immutable : BOOLEAN, pos : PosSets, printable : BOOLEAN]
Schemas == UNION {[D -> Metas] : D \in SUBSET Names}
NoSchema == [n \in {} |-> EmptyMeta]

(* What print_help finds: no --help flag, --help without a reference, an   *)
(* action that is not found, a runner get_by_name returns None for, or     *)
(* both action and runner.                                                 *)
Requests == {"no_help", "usage", "not_found", "no_runner", "found"}
LineKinds == {"usage", "not_found", "desc", "req_hdr", "opt_hdr", "param", "error"}
Line(k, n) == [k |-> k, n |-> n]
Lines == [k : LineKinds, n : Names \cup {"-"}]

VARIABLES
    pc,         \* "start", then "run" (print_help returned False) or "done"
    request,    \* args.help / args.ref_or_id and what the lookups return
    hasDesc,    \* action.description is a string (textwrap.fill(None) raises)
    rp,         \* runner.runner_parameters
    ap,         \* action.parameters
    reqR,       \* runner.required_parameters
    reqA,       \* action.required_parameters
    out         \* the lines printed so far

vars == <<pc, request, hasDesc, rp, ap, reqR, reqA, out>>

TypeOK ==
    /\ pc \in {"start", "run", "done"}
    /\ request \in Requests
    /\ hasDesc \in BOOLEAN
    /\ rp \in Schemas /\ ap \in Schemas
    /\ reqR \in SUBSET Names /\ reqA \in SUBSET Names
    /\ out \in Seq(Lines)

-----------------------------------------------------------------------------
(* _get_params_types: parameters = copy(runner_params) updated with        *)
(* action_params, so the action's entry wins on a shared name.             *)
Parameters ==
    [n \in DOMAIN rp \cup DOMAIN ap |-> IF n \in DOMAIN ap THEN ap[n] ELSE rp[n]]

(* is_immutable(runner_params.get(p, {}), action_params.get(p, {})).        *)
MetaOf(s, n) == IF n \in DOMAIN s THEN s[n] ELSE EmptyMeta

(* An is_immutable that lets the action's flag override the runner's.     *)
IsImmutableActionOnly(n) == MetaOf(ap, n).immutable

IsImmutable(n) ==
    IF MetaOf(rp, n).immutable THEN TRUE ELSE MetaOf(ap, n).immutable

Immutable == {n \in DOMAIN Parameters : IsImmutable(n)}

(* An optional set that does not remove the required names.                *)
OptionalWithRequired == DOMAIN Parameters \ Immutable

Required == (reqR \cup reqA) \ Immutable

Optional == (DOMAIN Parameters \ Required) \ Immutable

(* parameters.get(name): the schema print_param receives, None if absent.  *)
HasSchema(n) == n \in DOMAIN Parameters /\ Parameters[n].present

(* _get_parameter_sort_value: None for a missing or empty schema, else the *)
(* `position` if set, else the name.  A key is a Python 2 value: its type  *)
(* and, for ints and strings, what orders it within the type.              *)
SortKeyByName(n) ==
    IF ~HasSchema(n) THEN [ty |-> 0, v |-> 0] ELSE [ty |-> 2, v |-> NameRank[n]]

SortKey(n) ==
    IF ~HasSchema(n) THEN [ty |-> 0, v |-> 0]
    ELSE IF Parameters[n].pos = NoPos THEN [ty |-> 2, v |-> NameRank[n]]
    ELSE [ty |-> 1, v |-> PosOf(Parameters[n])]

(* Python 2's `<` on such keys: None < int < str, then by value.           *)
KeyLess(a, b) == a.ty < b.ty \/ (a.ty = b.ty /\ a.v < b.v)

(* sorted(names, key=...): a stable sort of a set, whose iteration order  *)
(* Python leaves unspecified, so any order with non-decreasing keys.      *)
SortedOrders(S) ==
    {o \in [1..Cardinality(S) -> S] :
        \A i, j \in 1..Cardinality(S) :
            i < j => o[i] # o[j] /\ ~KeyLess(SortKey(o[j]), SortKey(o[i]))}

(* `if required: print header; [print_param(n, ...) for n in sorted]`.     *)
Group(hdr, S, o) ==
    IF S = {} THEN <<>>
    ELSE <<Line(hdr, "-")>> \o [i \in 1..Len(o) |-> Line("param", o[i])]

(* print_param raises before printing anything when its schema is falsy   *)
(* (203-204), and after printing the name when the description or the     *)
(* enum cannot be formatted (213, 217); print_help's handler then prints   *)
(* ERROR after what was already printed (279-281).                         *)
Missing(l) == l.k = "param" /\ ~HasSchema(l.n)
Unprintable(l) == l.k = "param" /\ HasSchema(l.n) /\ ~Parameters[l.n].printable
IsBadParam(l) == Missing(l) \/ Unprintable(l)
Printed(full) ==
    IF \A i \in 1..Len(full) : ~IsBadParam(full[i]) THEN full
    ELSE LET i == CHOOSE i \in 1..Len(full) :
                     IsBadParam(full[i]) /\ \A j \in 1..(i - 1) : ~IsBadParam(full[j])
         IN  SubSeq(full, 1, IF Missing(full[i]) THEN i - 1 ELSE i) \o <<Line("error", "-")>>

-----------------------------------------------------------------------------
Init ==
    /\ pc = "start"
    /\ request \in Requests
    /\ out = <<>>
    /\ IF request = "found"
         THEN /\ hasDesc \in BOOLEAN
              /\ rp \in Schemas /\ ap \in Schemas
              /\ reqR \in SUBSET Names /\ reqA \in SUBSET Names
         ELSE /\ hasDesc = FALSE /\ rp = NoSchema /\ ap = NoSchema
              /\ reqR = {} /\ reqA = {}

(* run_and_print: print_help returns False and run() follows.              *)
NoHelp ==
    /\ pc = "start" /\ request = "no_help"
    /\ pc' = "run"
    /\ UNCHANGED <<request, hasDesc, rp, ap, reqR, reqA, out>>

(* --help without a reference: the parser's own usage text.                *)
PrintUsage ==
    /\ pc = "start" /\ request = "usage"
    /\ out' = <<Line("usage", "-")>>
    /\ pc' = "done"
    /\ UNCHANGED <<request, hasDesc, rp, ap, reqR, reqA>>

(* get_resource raises ResourceNotFoundError: `Action ... is not found`.   *)
LookupNotFound ==
    /\ pc = "start" /\ request = "not_found"
    /\ out' = <<Line("not_found", "-")>>
    /\ pc' = "done"
    /\ UNCHANGED <<request, hasDesc, rp, ap, reqR, reqA>>

(* get_by_name returns None: reading runner.runner_parameters raises.      *)
LookupNoRunner ==
    /\ pc = "start" /\ request = "no_runner"
    /\ out' = <<Line("error", "-")>>
    /\ pc' = "done"
    /\ UNCHANGED <<request, hasDesc, rp, ap, reqR, reqA>>

(* The whole help text: description, the required group, the optional    *)
(* group; textwrap.fill(None) raises before anything but the blank line.   *)
PrintHelp ==
    /\ pc = "start" /\ request = "found"
    /\ IF ~hasDesc
         THEN out' = <<Line("error", "-")>>
         ELSE \E oreq \in SortedOrders(Required), oopt \in SortedOrders(Optional) :
                 out' = Printed(<<Line("desc", "-")>>
                                \o Group("req_hdr", Required, oreq)
                                \o Group("opt_hdr", Optional, oopt))
    /\ pc' = "done"
    /\ UNCHANGED <<request, hasDesc, rp, ap, reqR, reqA>>

Next == NoHelp \/ PrintUsage \/ LookupNotFound \/ LookupNoRunner \/ PrintHelp

Spec == Init /\ [][Next]_vars

-----------------------------------------------------------------------------
(* The lines of the help text that list a parameter, and those that list  *)
(* a member of S.                                                          *)
ParamLines == {i \in 1..Len(out) : out[i].k = "param"}
Listing(S) == {i \in ParamLines : out[i].n \in S}

(* The order the help text promises: parameters with a position first,    *)
(* by ascending position, then the others by name.                         *)
SpecBefore(m, n) ==
    LET pm == Parameters[m]
        pn == Parameters[n]
    IN  \/ pm.pos # NoPos /\ pn.pos = NoPos
        \/ pm.pos # NoPos /\ pn.pos # NoPos /\ PosOf(pm) < PosOf(pn)
        \/ pm.pos = NoPos /\ pn.pos = NoPos /\ NameRank[m] < NameRank[n]

(* print_help never lists a parameter that the runner or the action marks *)
(* immutable: the runner's flag cannot be overridden by the action's.     *)
ImmutableNeverListed ==
    \A i \in 1..Len(out) :
        out[i].k = "param" => ~MetaOf(rp, out[i].n).immutable /\ ~MetaOf(ap, out[i].n).immutable

(* Within the required and within the optional group, _sort_parameters    *)
(* prints positioned parameters by ascending position before the          *)
(* unpositioned ones, which come by name.                                  *)
HelpOrdered ==
    \A S \in {Required, Optional} :
        \A i, j \in Listing(S) : i < j => ~SpecBefore(out[j].n, out[i].n)

(* print_param can print parameter n: it has a non-empty schema whose     *)
(* description and enum format.                                            *)
Printable(n) == HasSchema(n) /\ Parameters[n].printable

(* Once the help of an action with a description is printed, it shows an  *)
(* ERROR line exactly when some required or optional parameter cannot be  *)
(* printed; when none is such, it lists each of them exactly once,        *)
(* required ones first.                                                    *)
HelpListsAll ==
    (pc = "done" /\ request = "found" /\ hasDesc) =>
        /\ (\E i \in 1..Len(out) : out[i].k = "error") <=> (\E n \in Required \cup Optional : ~Printable(n))
        /\ (\A n \in Required \cup Optional : Printable(n)) =>
              /\ \A i, j \in ParamLines : out[i].n = out[j].n => i = j
              /\ {out[i].n : i \in ParamLines} = Required \cup Optional
              /\ \A i \in ParamLines, j \in Listing(Required) : i < j => i \in Listing(Required)

(* The merge partitions the merged key set exactly: every required name   *)
(* is a parameter of the runner or of the action (spec 4.1).               *)
PartitionExact ==
    Required \cup Optional \cup Immutable = DOMAIN Parameters
====
