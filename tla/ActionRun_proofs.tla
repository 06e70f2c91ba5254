--------------------------- MODULE ActionRun_proofs ---------------------------
(***************************************************************************)
(* Proofs about ActionRun for every value of its constants.                *)
(***************************************************************************)
EXTENDS ActionRun, SequenceTheorems, WellFoundedInduction, TLAPS

(* Every source string a value can carry is in Srcs.                       *)
LEMMA SrcsCover ==
    /\ RawValues \subseteq Srcs
    /\ Paths \subseteq Srcs
    /\ \A p \in Paths : BaseName[p] \in Srcs
    /\ {"POST", "joined", ""} \subseteq Srcs
BY DEF Srcs

(* Val builds a value from a Python type and a source string.             *)
LEMMA ValType ==
    ASSUME NEW ty \in PyTypes, NEW s \in Srcs
    PROVE  Val(ty, s) \in Values
<1>1. 0 \in 0..MaxArgs
  BY ConstAssumption
<1>. QED
  BY <1>1 DEF Val, Values

(* A transformer returns a value of Values or raises one of ExcClasses.    *)
LEMMA TransformType ==
    ASSUME NEW ty, NEW v \in RawValues
    PROVE  Transform(ty, v) \in Outcomes
<1>1. v \in Srcs
  BY SrcsCover
<1>2. /\ LiteralOf(v) \in PyTypes => Val(LiteralOf(v), v) \in Values
      /\ JsonOf(v) \in PyTypes => Val(JsonOf(v), v) \in Values
      /\ \A t \in {"list", "int", "float", "str"} : Val(t, v) \in Values
  BY <1>1, ValType DEF PyTypes
<1>3. \A c \in ExcClasses, m \in BOOLEAN : Raise(c, m) \in Outcomes
  BY DEF Raise, Outcomes, Absent
<1>4. \A w \in Values : Ok(w) \in Outcomes
  BY DEF Ok, Outcomes
<1>5. Mentions(v) \in BOOLEAN
  BY DEF Mentions
<1>. QED
  BY <1>2, <1>3, <1>4, <1>5 DEF Transform, ExcClasses

(* normalize() returns a value of Values or raises.                        *)
LEMMA NormalizeType ==
    ASSUME NEW n, NEW v \in RawValues
    PROVE  Normalize(n, v) \in Outcomes
<1>1. Val("str", v) \in Values
  BY SrcsCover, ValType DEF PyTypes
<1>. QED
  BY <1>1, TransformType DEF Normalize, Ok, Outcomes

(* read_file() returns the file's bytes or raises.                         *)
LEMMA ReadFileType ==
    ASSUME ConstAssumption, NEW p \in Paths
    PROVE  ReadFile(p) \in Outcomes
<1>1. Val("bytes", p) \in Values
  BY SrcsCover, ValType DEF PyTypes
<1>2. Mentions(p) \in BOOLEAN
  BY DEF Mentions
<1>. QED
  BY <1>1, <1>2 DEF ReadFile, Ok, Raise, Outcomes, ExcClasses, Absent

(* The file post-pass keeps every key mapped to a value or to Absent.      *)
LEMMA PostPassType ==
    ASSUME NEW p \in [AllKeys -> Values \cup {Absent}]
    PROVE  PostPass(p) \in [AllKeys -> Values \cup {Absent}]
<1>1. Val("str", "POST") \in Values
  BY SrcsCover, ValType DEF PyTypes
<1>2. "_file_name" \in AllKeys
  BY DEF AllKeys, ReservedKeys
<1>. QED
  BY <1>1, <1>2 DEF PostPass

(* The argument lists Init draws from are sequences of tokens of length at *)
(* most MaxArgs.                                                           *)
LEMMA ArgListsAreSeqs ==
    ASSUME NEW a \in ArgLists
    PROVE  a \in Seq(Tokens) /\ Len(a) <= MaxArgs
<1>1. PICK n \in 0..MaxArgs : a \in [1..n -> Tokens]
  BY DEF ArgLists
<1>2. n \in Nat
  BY ConstAssumption
<1>3. a \in Seq(Tokens)
  BY <1>1, <1>2, SeqDef
<1>4. DOMAIN a = 1..Len(a) /\ Len(a) \in Nat
  BY <1>3, LenProperties
<1>5. Len(a) = n
  BY <1>1, <1>2, <1>4
<1>. QED
  BY <1>3, <1>5, <1>1, ConstAssumption

(* A token of the list with `=` is a `key=value` or an `@key=path` token.  *)
LEMMA AssignmentToken ==
    ASSUME NEW t \in Tokens, t.eq = TRUE
    PROVE  \/ ~t.file /\ t.key \in UserKeys /\ t.val \in RawValues
           \/ t.file /\ t.val \in Paths
<1>1. t # Bare
  <2>1. Bare.eq = FALSE
    BY DEF Bare
  <2>. QED
    BY <2>1
<1>2. CASE t \in KVTokens
  BY <1>2 DEF KVTokens
<1>3. CASE t \in FileTokens
  BY <1>3 DEF FileTokens
<1>. QED
  BY <1>1, <1>2, <1>3 DEF Tokens

-----------------------------------------------------------------------------
(* The initial states satisfy the inductive invariant.                     *)
LEMMA InitIInv == Init => IInv
<1> SUFFICES ASSUME Init PROVE IInv
  OBVIOUS
<1>1. args \in Seq(Tokens) /\ Len(args) <= MaxArgs
  BY ArgListsAreSeqs DEF Init
<1>2. NoParams \in [AllKeys -> Values \cup {Absent}]
  BY DEF NoParams
<1>3. 0 \in 0..MaxArgs /\ 1 \in 1..(MaxArgs + 1)
  BY ConstAssumption
<1>. QED
  BY <1>1, <1>2, <1>3 DEF Init, IInv, TypeOK, NoExec, Results, ErrKinds

(* Resolve fails or enters the loop at the first token.                    *)
LEMMA ResolveIInv == IInv /\ Resolve => IInv'
<1> SUFFICES ASSUME IInv, Resolve PROVE IInv'
  OBVIOUS
<1>1. 0 \in 0..MaxArgs
  BY ConstAssumption
<1>2. args # <<>> => 1 \in 1..Len(args)
  BY DEF IInv, TypeOK
<1>. QED
  BY <1>1, <1>2 DEF Resolve, Fail, IInv, TypeOK, ErrKinds

(* One loop iteration over a `key=value` or `@key=path` token.             *)
LEMMA ParseAssignmentIInv == IInv /\ ParseAssignment => IInv'
<1> SUFFICES ASSUME IInv, ParseAssignment PROVE IInv'
  OBVIOUS
<1> DEFINE tok == args[idx]
           out == IF tok.file THEN ReadFile(tok.val) ELSE Normalize(tok.key, tok.val)
<1>1. idx \in 1..Len(args) /\ Len(args) <= MaxArgs /\ args \in Seq(Tokens)
  BY DEF ParseAssignment, IInv, TypeOK
<1>2. tok \in Tokens /\ tok.eq = TRUE
  BY <1>1 DEF ParseAssignment
<1>3. out \in Outcomes
  BY <1>2, AssignmentToken, ReadFileType, NormalizeType, ConstAssumption
<1>4. tok.file => Val("str", BaseName[tok.val]) \in Values
  BY <1>2, AssignmentToken, SrcsCover, ValType, ConstAssumption DEF PyTypes
<1>5. CASE out.ok
  <2>0. /\ params' = IF tok.file
                       THEN [params EXCEPT !["_file_name"] = Val("str", BaseName[tok.val]),
                                           !["file_content"] = out.val]
                       ELSE [params EXCEPT ![tok.key] = out.val]
        /\ idx' = idx + 1
        /\ pc' = IF idx = Len(args) THEN "post" ELSE "parse"
        /\ UNCHANGED <<err, hasRef, args, async, exec, svc>>
    BY <1>5, Zenon DEF ParseAssignment
  <2>1. out.val \in Values
    BY <1>3, <1>5 DEF Outcomes
  <2>2. params' \in [AllKeys -> Values \cup {Absent}]
    BY <2>0, <2>1, <1>4 DEF IInv, TypeOK
  <2>3. idx' \in 1..(MaxArgs + 1) /\ (pc' = "parse" => idx' \in 1..Len(args))
    BY <2>0, <1>1, ConstAssumption
  <2>. QED
    BY <2>0, <2>2, <2>3 DEF IInv, TypeOK
<1>6. CASE ~out.ok
  <2>1. (IF out.hint THEN "bool_hint" ELSE out.exc) \in ErrKinds
    BY <1>3, <1>6 DEF Outcomes, ErrKinds
  <2>2. idx \in 0..MaxArgs
    BY <1>1, ConstAssumption
  <2>3. /\ pc' = "failed"
        /\ err' = [kind |-> IF out.hint THEN "bool_hint" ELSE out.exc, at |-> idx]
        /\ UNCHANGED <<params, idx, hasRef, args, async, exec, svc>>
    BY <1>6, Zenon DEF ParseAssignment, Fail
  <2>. QED
    BY <2>1, <2>2, <2>3 DEF IInv, TypeOK
<1>. QED
  BY <1>5, <1>6

(* The bare token: `cmd` records where the joined tail starts.             *)
LEMMA ParseBareIInv == IInv /\ ParseBare => IInv'
<1> SUFFICES ASSUME IInv, ParseBare PROVE IInv'
  OBVIOUS
<1>1. idx \in 0..MaxArgs
  BY ConstAssumption DEF IInv, TypeOK, ParseBare
<1>2. [t |-> "str", src |-> "joined", at |-> idx] \in Values
  BY <1>1, SrcsCover DEF Values, PyTypes
<1>. QED
  BY <1>2 DEF ParseBare, IInv, TypeOK, AllKeys, ReservedKeys

(* The post-pass and the create call.                                      *)
LEMMA SubmitIInv == IInv /\ Submit => IInv'
<1> SUFFICES ASSUME IInv, Submit PROVE IInv'
  OBVIOUS
<1>1. PostPass(params) \in [AllKeys -> Values \cup {Absent}]
  BY PostPassType DEF IInv, TypeOK
<1>2. 0 \in 0..MaxArgs
  BY ConstAssumption
<1>. QED
  BY <1>1, <1>2 DEF Submit, Fail, IInv, TypeOK, ErrKinds, Pending, Results

(* A turn of the wait loop copies the service's record, which exists.      *)
LEMMA PollRefetchIInv == IInv /\ PollRefetch => IInv'
BY DEF PollRefetch, Refetch, IInv, TypeOK

(* A service error inside the wait loop.                                   *)
LEMMA PollErrorIInv == IInv /\ PollError => IInv'
<1>1. 0 \in 0..MaxArgs
  BY ConstAssumption
<1>. QED
  BY <1>1 DEF PollError, Fail, IInv, TypeOK, ErrKinds

(* Leaving the wait loop with the result decoded.                          *)
LEMMA FinishIInv == IInv /\ Finish => IInv'
BY DEF Finish, Decode, IInv, TypeOK, Results

(* The service advances its execution.                                     *)
LEMMA ProgressIInv == IInv /\ Progress => IInv'
BY DEF Progress, IsPending, IInv, TypeOK, Pending, Terminal, Results

(* IInv is preserved by every step of the system, stuttering included.    *)
LEMMA NextIInv == IInv /\ [Next]_vars => IInv'
<1> SUFFICES ASSUME IInv, [Next]_vars PROVE IInv'
  OBVIOUS
<1>1. CASE UNCHANGED vars
  BY <1>1 DEF vars, IInv, TypeOK
<1>. QED
  BY <1>1, ResolveIInv, ParseAssignmentIInv, ParseBareIInv, SubmitIInv,
     PollRefetchIInv, PollErrorIInv, FinishIInv, ProgressIInv
  DEF Next, Client

(* Type correctness of ActionRunCommand.run and the service it talks to:   *)
(* every reachable state satisfies TypeOK, for every value of the          *)
(* constants that satisfies ConstAssumption.                               *)
THEOREM TypeCorrect == Spec => []TypeOK
<1>1. Init => IInv
  BY InitIInv
<1>2. IInv /\ [Next]_vars => IInv'
  BY NextIInv
<1>3. IInv => TypeOK
  BY DEF IInv
<1>. QED
  BY <1>1, <1>2, <1>3, PTL DEF Spec
-----------------------------------------------------------------------------
(* The wait loop of run(): the conjuncts WaitInv adds to IInv concern only *)
(* pc, async, exec and svc, so every action is checked against them.      *)

(* Steps that neither enter nor leave the wait loop nor touch exec or svc. *)
LEMMA ParseStepsWait ==
    ASSUME WaitInv, Resolve \/ ParseAssignment \/ ParseBare \/ PollError
    PROVE  WaitInv'
<1>1. IInv'
  BY NextIInv DEF Next, Client, WaitInv
<1>2. pc' \in {"start", "parse", "post", "failed"} /\ UNCHANGED <<exec, svc>>
  BY DEF Resolve, ParseAssignment, ParseBare, PollError, Fail
<1>. QED
  BY <1>1, <1>2 DEF WaitInv, SyncReturnsFinal

(* create() starts a scheduled execution; a synchronous run starts waiting. *)
LEMMA SubmitWait == WaitInv /\ Submit => WaitInv'
<1> SUFFICES ASSUME WaitInv, Submit PROVE WaitInv'
  OBVIOUS
<1>1. IInv'
  BY NextIInv DEF Next, Client, WaitInv
<1>2. \/ pc' = "failed"
      \/ pc' = "done" /\ async' = TRUE
      \/ pc' = "poll" /\ exec'.status = "scheduled"
  BY DEF Submit, Fail
<1>. QED
  BY <1>1, <1>2 DEF WaitInv, SyncReturnsFinal, Terminal

(* A turn of the loop copies the record, so a terminal copy is current.    *)
LEMMA PollRefetchWait == WaitInv /\ PollRefetch => WaitInv'
<1> SUFFICES ASSUME WaitInv, PollRefetch PROVE WaitInv'
  OBVIOUS
<1>1. IInv'
  BY NextIInv DEF Next, Client, WaitInv
<1>2. exec' = Refetch' /\ pc' = "poll" /\ exec'.status = svc.status
  BY DEF PollRefetch, Refetch
<1>3. svc.status # "none"
  BY DEF WaitInv, IInv, TypeOK, Pending, Terminal
<1>. QED
  BY <1>1, <1>2, <1>3 DEF WaitInv, SyncReturnsFinal

(* Leaving the loop: the copy is terminal, hence the service's record.     *)
LEMMA FinishWait == WaitInv /\ Finish => WaitInv'
<1> SUFFICES ASSUME WaitInv, Finish PROVE WaitInv'
  OBVIOUS
<1>1. IInv'
  BY NextIInv DEF Next, Client, WaitInv
<1>2. exec.status \in Terminal
  BY DEF Finish, IsPending, WaitInv, IInv, TypeOK, Pending, Terminal
<1>3. exec = Refetch
  BY <1>2 DEF Finish, WaitInv
<1>4. /\ exec'.status = svc'.status
      /\ exec'.result = Decode(svc'.result)
      /\ exec'.status \in Terminal
  BY <1>2, <1>3 DEF Finish, Refetch, WaitInv, IInv, TypeOK
<1>. QED
  BY <1>1, <1>4 DEF Finish, WaitInv, SyncReturnsFinal

(* The service never changes a terminal execution, which is all the       *)
(* client may hold as final.                                               *)
LEMMA ProgressWait == WaitInv /\ Progress => WaitInv'
<1> SUFFICES ASSUME WaitInv, Progress PROVE WaitInv'
  OBVIOUS
<1>1. IInv'
  BY NextIInv DEF Next, WaitInv
<1>2. svc.status \in Pending
  BY DEF Progress, IsPending, Pending
<1>3. ~(pc = "poll" /\ exec.status \in Terminal)
  BY <1>2 DEF WaitInv, Refetch, Pending, Terminal
<1>4. ~(pc = "done" /\ ~async)
  BY <1>2 DEF WaitInv, SyncReturnsFinal, Pending, Terminal
<1>. QED
  BY <1>1, <1>3, <1>4 DEF Progress, WaitInv, SyncReturnsFinal

(* A synchronous run() returns the execution in the terminal state the     *)
(* service holds, with its result decoded: the wait loop of                *)
(* ActionRunCommand.run never returns a stale or unfinished copy.          *)
THEOREM SyncResultFinal == Spec => []SyncReturnsFinal
<1>1. Init => WaitInv
  BY InitIInv DEF Init, WaitInv, SyncReturnsFinal
<1>2. WaitInv /\ [Next]_vars => WaitInv'
  <2> SUFFICES ASSUME WaitInv, [Next]_vars PROVE WaitInv'
    OBVIOUS
  <2>1. CASE UNCHANGED vars
    BY <2>1, NextIInv DEF vars, WaitInv, SyncReturnsFinal, Refetch
  <2>. QED
    BY <2>1, ParseStepsWait, SubmitWait, PollRefetchWait, FinishWait,
       ProgressWait DEF Next, Client
<1>3. WaitInv => SyncReturnsFinal
  BY DEF WaitInv
<1>. QED
  BY <1>1, <1>2, <1>3, PTL DEF Spec
-----------------------------------------------------------------------------
(* Parameter resolution.  The token loop builds execution.parameters one   *)
(* token at a time; the spec's ScannedParams describes the whole list at   *)
(* once through FirstBare and LastWriter.  The loop invariant below says   *)
(* that after n tokens the parameters hold, for each key, the value of the *)
(* last of the n tokens that writes it.                                    *)
IsLast(n, i, k) == Writes(i, k) /\ \A j \in 1..n : Writes(j, k) => j <= i
ParamsAfter(n, p) ==
    \A k \in AllKeys :
        \/ (\A i \in 1..n : ~Writes(i, k)) /\ p[k] = Absent
        \/ \E i \in 1..n : IsLast(n, i, k) /\ p[k] = Written(i, k)
ScannedOk(n) == \A i \in 1..n : args[i].eq /\ TokenOutcome(i).ok

(* The staging keys are not both names a user may type.                    *)
StagingKeysApart == "file_content" \notin UserKeys \/ "_file_name" \notin UserKeys

(* IInv strengthened for ParamsAsSpecified: the loop invariant inside the  *)
(* loop, and on leaving it the parameters are the scanned ones.            *)
PInv ==
    /\ IInv
    /\ pc = "start" => params = NoParams
    /\ pc = "parse" => ScannedOk(idx - 1) /\ ParamsAfter(idx - 1, params)
    /\ pc = "post" => Failing = {} /\ params = ScannedParams
    /\ ParamsAsSpecified

(* A nonempty set of naturals has a least element.                         *)
LEMMA LeastNat ==
    ASSUME NEW B \in SUBSET Nat, B # {}
    PROVE  \E x \in B : \A y \in B : ~(y < x)
<1>1. \E x \in B : \A y \in B : ~(<<y, x>> \in OpToRel(<, Nat))
  BY NatLessThanWellFounded, WFMin
<1>. QED BY <1>1 DEF OpToRel

(* A nonempty set of indices below m has a greatest element.               *)
LEMMA GreatestIn ==
    ASSUME NEW m \in Nat, NEW S \in SUBSET (1..m), S # {}
    PROVE  \E x \in S : \A y \in S : y <= x
<1> DEFINE B == {m - y : y \in S}
<1>1. \A y \in S : m - y \in Nat
  OBVIOUS
<1>2. B \in SUBSET Nat /\ B # {}
  BY <1>1
<1>3. PICK b \in B : \A c \in B : ~(c < b)
  BY <1>2, LeastNat
<1>4. PICK x \in S : b = m - x
  BY <1>3
<1>5. \A y \in S : ~(m - y < m - x)
  BY <1>3, <1>4
<1>. QED
  BY <1>5

(* Every token has a Boolean `eq` field.                                   *)
LEMMA TokenEq ==
    ASSUME NEW t \in Tokens
    PROVE  t.eq \in BOOLEAN
<1>1. CASE t \in KVTokens
  BY <1>1 DEF KVTokens
<1>2. CASE t \in FileTokens
  BY <1>2 DEF FileTokens
<1>3. CASE t = Bare
  BY <1>3 DEF Bare
<1>. QED
  BY <1>1, <1>2, <1>3 DEF Tokens

(* FirstBare is the index of the first token without `=`, or one past the  *)
(* end of the list.                                                        *)
LEMMA FirstBareSpec ==
    ASSUME args \in Seq(Tokens)
    PROVE  /\ FirstBare \in 1..(Len(args) + 1)
           /\ \A j \in 1..(FirstBare - 1) : args[j].eq
           /\ FirstBare <= Len(args) => ~args[FirstBare].eq
<1>0. \A i \in 1..Len(args) : args[i].eq \in BOOLEAN
  BY TokenEq
<1>1. CASE ~\E i \in 1..Len(args) : ~args[i].eq
  <2>1. FirstBare = Len(args) + 1
    BY <1>1 DEF FirstBare
  <2>. QED
    BY <1>0, <1>1, <2>1
<1>2. CASE \E i \in 1..Len(args) : ~args[i].eq
  <2> DEFINE B == {i \in 1..Len(args) : ~args[i].eq}
  <2>0. B \in SUBSET Nat /\ B # {}
    BY <1>2
  <2>1. PICK b \in B : \A y \in B : ~(y < b)
    BY <2>0, LeastNat
  <2>2. b \in 1..Len(args) /\ ~args[b].eq
    BY <2>1
  <2>5. \A j \in 1..(b - 1) : args[j].eq
    <3> SUFFICES ASSUME NEW j \in 1..(b - 1) PROVE args[j].eq
      OBVIOUS
    <3>1. j \in 1..Len(args) /\ j \notin B
      BY <2>1, <2>2
    <3>. QED
      BY <3>1, <1>0
  <2>3. \E i \in 1..Len(args) : ~args[i].eq /\ \A j \in 1..(i - 1) : args[j].eq
    BY <2>2, <2>5
  <2>4. LET c == FirstBare IN
          c \in 1..Len(args) /\ ~args[c].eq /\ \A j \in 1..(c - 1) : args[j].eq
    BY <1>2, <2>3 DEF FirstBare
  <2>. QED
    BY <2>4
<1>. QED
  BY <1>1, <1>2

(* FirstBare is determined by the three facts of FirstBareSpec.            *)
LEMMA FirstBareAt ==
    ASSUME args \in Seq(Tokens), NEW b \in 1..(Len(args) + 1),
           \A j \in 1..(b - 1) : args[j].eq,
           b <= Len(args) => ~args[b].eq
    PROVE  FirstBare = b
BY FirstBareSpec

(* The scanned tokens are tokens of the list with `=`.                     *)
LEMMA ScannedTokens ==
    ASSUME args \in Seq(Tokens)
    PROVE  /\ Scanned \subseteq 1..Len(args)
           /\ \A i \in Scanned : args[i].eq
BY FirstBareSpec DEF Scanned

(* LastWriter(k) is the last scanned token that writes k, when one does.   *)
LEMMA LastWriterSpec ==
    ASSUME args \in Seq(Tokens), NEW k, \E i \in Scanned : Writes(i, k)
    PROVE  /\ LastWriter(k) \in Scanned
           /\ Writes(LastWriter(k), k)
           /\ \A j \in Scanned : Writes(j, k) => j <= LastWriter(k)
<1>1. FirstBare - 1 \in Nat /\ Scanned = 1..(FirstBare - 1)
  BY FirstBareSpec DEF Scanned
<1>2. \E x \in {i \in Scanned : Writes(i, k)} : \A y \in {i \in Scanned : Writes(i, k)} : y <= x
  BY <1>1, GreatestIn
<1>. QED
  BY <1>2 DEF LastWriter

(* A token with `=` has an outcome: a value, or a raised exception.        *)
LEMMA TokenOutcomeType ==
    ASSUME args \in Seq(Tokens), NEW i \in 1..Len(args), args[i].eq
    PROVE  TokenOutcome(i) \in Outcomes
<1>1. args[i] \in Tokens /\ args[i].eq = TRUE
  OBVIOUS
<1>. QED
  BY <1>1, AssignmentToken, ReadFileType, NormalizeType, ConstAssumption DEF TokenOutcome

(* A successful outcome carries a value, never the absent marker.          *)
LEMMA OkVal ==
    ASSUME NEW o \in Outcomes, o.ok
    PROVE  o.val \in Values /\ o.val # Absent
<1>1. o.val \in Values
  BY DEF Outcomes
<1>2. Absent \notin Values
  BY DEF Absent, Values, PyTypes
<1>. QED
  BY <1>1, <1>2

(* One iteration of the loop, on the n-th token: a parameter map holding   *)
(* the last writer's value after n-1 tokens, updated with that token's     *)
(* writes, holds the last writer's value after n tokens.                   *)
LEMMA AfterStep ==
    ASSUME NEW n \in Nat \ {0}, NEW p, NEW q, ParamsAfter(n - 1, p),
           \A k \in AllKeys : q[k] = IF Writes(n, k) THEN Written(n, k) ELSE p[k]
    PROVE  ParamsAfter(n, q)
<1> SUFFICES ASSUME NEW k \in AllKeys
             PROVE  \/ (\A i \in 1..n : ~Writes(i, k)) /\ q[k] = Absent
                    \/ \E i \in 1..n : IsLast(n, i, k) /\ q[k] = Written(i, k)
  BY DEF ParamsAfter
<1>1. CASE Writes(n, k)
  <2>1. IsLast(n, n, k)
    BY <1>1 DEF IsLast
  <2>. QED
    BY <1>1, <2>1
<1>2. CASE ~Writes(n, k)
  <2>1. q[k] = p[k]
    BY <1>2
  <2>2. CASE (\A i \in 1..(n - 1) : ~Writes(i, k)) /\ p[k] = Absent
    BY <1>2, <2>1, <2>2
  <2>3. CASE \E i \in 1..(n - 1) : IsLast(n - 1, i, k) /\ p[k] = Written(i, k)
    <3>1. PICK i \in 1..(n - 1) : IsLast(n - 1, i, k) /\ p[k] = Written(i, k)
      BY <2>3
    <3>2. IsLast(n, i, k)
      BY <3>1, <1>2 DEF IsLast
    <3>. QED
      BY <2>1, <3>1, <3>2
  <2>. QED
    BY <2>2, <2>3 DEF ParamsAfter
<1>. QED
  BY <1>1, <1>2

(* The assignment of ParseAssignment writes exactly the keys Writes names, *)
(* with the values Written gives.                                          *)
LEMMA UpdateIsWrite ==
    ASSUME args \in Seq(Tokens), NEW i \in 1..Len(args), args[i].eq,
           NEW p \in [AllKeys -> Values \cup {Absent}]
    PROVE  LET tok == args[i]
               out == IF tok.file THEN ReadFile(tok.val) ELSE Normalize(tok.key, tok.val)
               q == IF tok.file
                      THEN [p EXCEPT !["_file_name"] = Val("str", BaseName[tok.val]),
                                     !["file_content"] = out.val]
                      ELSE [p EXCEPT ![tok.key] = out.val]
           IN  \A k \in AllKeys : q[k] = IF Writes(i, k) THEN Written(i, k) ELSE p[k]
<1>1. {"_file_name", "file_content"} \subseteq AllKeys
  BY DEF AllKeys, ReservedKeys
<1>2. args[i] \in Tokens /\ args[i].eq = TRUE
  OBVIOUS
<1>3. CASE args[i].file
  BY <1>1, <1>3 DEF Writes, Written, TokenOutcome
<1>4. CASE ~args[i].file
  <2>1. args[i].key \in AllKeys
    BY <1>2, <1>4, AssignmentToken DEF AllKeys
  <2>. QED
    BY <1>4, <2>1 DEF Writes, Written, TokenOutcome
<1>. QED
  BY <1>3, <1>4

(* When the first n tokens are the scanned ones, the loop's parameters     *)
(* after them are ScannedParams on every key but a `cmd` set by a bare     *)
(* token.                                                                  *)
LEMMA AfterIsScanned ==
    ASSUME args \in Seq(Tokens), NEW n \in Nat, FirstBare = n + 1,
           NEW p, ParamsAfter(n, p),
           NEW k \in AllKeys, ~(k = "cmd" /\ FirstBare <= Len(args))
    PROVE  p[k] = ScannedParams[k]
<1>1. Scanned = 1..n
  BY DEF Scanned
<1>2. CASE \E i \in Scanned : Writes(i, k)
  <2>1. LastWriter(k) \in 1..n /\ IsLast(n, LastWriter(k), k)
    BY <1>1, <1>2, LastWriterSpec DEF IsLast
  <2>2. PICK i \in 1..n : IsLast(n, i, k) /\ p[k] = Written(i, k)
    BY <1>1, <1>2 DEF ParamsAfter
  <2>3. i = LastWriter(k)
    BY <2>1, <2>2 DEF IsLast
  <2>4. ScannedParams[k] = Written(LastWriter(k), k)
    BY <1>2 DEF ScannedParams
  <2>. QED
    BY <2>2, <2>3, <2>4
<1>3. CASE ~\E i \in Scanned : Writes(i, k)
  <2>1. p[k] = Absent
    BY <1>1, <1>3 DEF ParamsAfter, IsLast
  <2>2. ScannedParams[k] = Absent
    BY <1>3 DEF ScannedParams
  <2>. QED
    BY <2>1, <2>2
<1>. QED
  BY <1>2, <1>3

(* A staged file leaves its content under file_content.                    *)
LEMMA StagedContent ==
    ASSUME args \in Seq(Tokens), Failing = {}, Staged
    PROVE  ScannedParams["file_content"] # Absent
<1>1. PICK f \in Scanned : args[f].file
  BY DEF Staged
<1>2. \E i \in Scanned : Writes(i, "file_content")
  BY <1>1 DEF Writes
<1> DEFINE w == LastWriter("file_content")
<1>3. w \in Scanned
  BY <1>2, LastWriterSpec
<1>4. w \in 1..Len(args) /\ args[w].eq /\ TokenOutcome(w).ok
  BY <1>3, ScannedTokens DEF Failing
<1>5. TokenOutcome(w).val # Absent
  BY <1>4, TokenOutcomeType, OkVal
<1>6. ScannedParams["file_content"] = Written(w, "file_content")
  BY <1>2 DEF ScannedParams, AllKeys, ReservedKeys
<1>. QED
  BY <1>5, <1>6 DEF Written

(* Without a staged file only a `file_content=...` token writes            *)
(* file_content, and then, the staging keys being apart, nothing writes    *)
(* _file_name: the post-pass would raise.                                  *)
LEMMA UnstagedContent ==
    ASSUME StagingKeysApart, args \in Seq(Tokens), ~Staged,
           ScannedParams["file_content"] # Absent
    PROVE  PostPassFails(ScannedParams)
<1>1. PICK i \in Scanned : Writes(i, "file_content")
  BY DEF ScannedParams, AllKeys, ReservedKeys
<1>2. \A j \in Scanned : ~args[j].file
  BY DEF Staged
<1>3. \A j \in Scanned : args[j] \in Tokens /\ args[j].eq = TRUE
  BY ScannedTokens
<1>4. \A j \in Scanned : args[j].key \in UserKeys
  BY <1>2, <1>3, AssignmentToken
<1>5. "file_content" \in UserKeys
  BY <1>1, <1>2, <1>4 DEF Writes
<1>6. "_file_name" \notin UserKeys
  BY <1>5 DEF StagingKeysApart
<1>7. ~\E j \in Scanned : Writes(j, "_file_name")
  BY <1>2, <1>4, <1>6 DEF Writes
<1>8. ScannedParams["_file_name"] = Absent
  BY <1>7 DEF ScannedParams, AllKeys, ReservedKeys
<1>. QED
  BY <1>8 DEF PostPassFails

(* The code's post-pass, when it does not raise, turns the scanned         *)
(* parameters into the ones the spec expects.                              *)
LEMMA PostPassExpected ==
    ASSUME StagingKeysApart, args \in Seq(Tokens), Failing = {},
           ~PostPassFails(ScannedParams)
    PROVE  PostPass(ScannedParams) = ExpectedParams
<1> DEFINE L == ScannedParams
<1>1. CASE Staged
  <2>1. L["file_content"] # Absent
    BY <1>1, StagedContent
  <2>2. PostPass(L) = [k \in AllKeys |->
            CASE k = "_file_name" -> Absent
              [] k = "method" /\ L[k] = Absent -> Val("str", "POST")
              [] k = "file_name" /\ L[k] = Absent -> L["_file_name"]
              [] OTHER -> L[k]]
    BY <2>1 DEF PostPass
  <2>3. ExpectedParams = [k \in AllKeys |->
            IF k = "_file_name" THEN Absent
            ELSE IF L[k] # Absent THEN L[k]
            ELSE IF k = "method" THEN Val("str", "POST")
            ELSE IF k = "file_name" THEN L["_file_name"]
            ELSE Absent]
    BY <1>1 DEF ExpectedParams
  <2>. QED
    BY <2>2, <2>3
<1>2. CASE ~Staged
  <2>1. L["file_content"] = Absent
    BY <1>2, UnstagedContent
  <2>2. PostPass(L) = L
    BY <2>1 DEF PostPass
  <2>. QED
    BY <1>2, <2>2 DEF ExpectedParams
<1>. QED
  BY <1>1, <1>2

(* What the spec expects depends on the token list alone.                  *)
LEMMA ExpectedKept ==
    ASSUME args' = args
    PROVE  /\ Failing' = Failing
           /\ ExpectedParams' = ExpectedParams
           /\ ScannedParams' = ScannedParams
           /\ \A i : TokenOutcome(i)' = TokenOutcome(i)
           /\ \A n : ScannedOk(n)' = ScannedOk(n)
           /\ \A n, p : ParamsAfter(n, p)' = ParamsAfter(n, p)
<1>1. \A i : TokenOutcome(i)' = TokenOutcome(i)
  BY DEF TokenOutcome
<1>2. \A i, k : Writes(i, k)' = Writes(i, k) /\ Written(i, k)' = Written(i, k)
  BY <1>1 DEF Writes, Written
<1>3. FirstBare' = FirstBare /\ Scanned' = Scanned
  BY DEF FirstBare, Scanned
<1>4. Failing' = Failing /\ Staged' = Staged
  BY <1>1, <1>3 DEF Failing, Staged
<1>5. \A k : LastWriter(k)' = LastWriter(k)
  BY <1>2, <1>3 DEF LastWriter
<1>6. ScannedParams' = ScannedParams
  BY <1>2, <1>3, <1>5 DEF ScannedParams
<1>7. ExpectedParams' = ExpectedParams
  BY <1>4, <1>6 DEF ExpectedParams
<1>8. \A n : ScannedOk(n)' = ScannedOk(n)
  BY <1>1 DEF ScannedOk
<1>9. \A n, p : ParamsAfter(n, p)' = ParamsAfter(n, p)
  BY <1>2 DEF ParamsAfter, IsLast
<1>. QED
  BY <1>1, <1>4, <1>6, <1>7, <1>8, <1>9

(* A step that keeps the token list and the service's record, and that     *)
(* raises no error tied to a token (or keeps the one raised), keeps        *)
(* ParamsAsSpecified.                                                      *)
LEMMA SpecKept ==
    ASSUME ParamsAsSpecified, args' = args, svc' = svc,
           \/ pc' # "failed"
           \/ err'.at = 0
           \/ pc = "failed" /\ err' = err
    PROVE  ParamsAsSpecified'
BY ExpectedKept DEF ParamsAsSpecified

(* The initial states satisfy PInv: no token has been read.                *)
LEMMA InitPInv == Init => PInv
<1> SUFFICES ASSUME Init PROVE PInv
  OBVIOUS
<1>1. IInv
  BY InitIInv
<1>. QED
  BY <1>1 DEF Init, PInv, ParamsAsSpecified

(* Resolve fails, or enters the loop with no token read, or finds no token *)
(* at all, and then the (empty) scanned parameters are NoParams.           *)
LEMMA ResolvePInv == PInv /\ Resolve => PInv'
<1> SUFFICES ASSUME PInv, Resolve PROVE PInv'
  OBVIOUS
<1>0. IInv' /\ args \in Seq(Tokens) /\ params = NoParams /\ idx = 1
  BY ResolveIInv DEF PInv, IInv, TypeOK, Resolve
<1>1. ParamsAsSpecified'
  BY SpecKept DEF PInv, Resolve, Fail
<1>2. CASE pc' = "failed"
  BY <1>0, <1>1, <1>2 DEF PInv
<1>3. CASE pc' = "parse"
  <2>1. idx' = 1 /\ params' = NoParams /\ args' = args
    BY <1>0 DEF Resolve
  <2>2. (ScannedOk(idx - 1) /\ ParamsAfter(idx - 1, params))'
    BY <2>1 DEF ScannedOk, ParamsAfter, NoParams
  <2>. QED
    BY <1>0, <1>1, <1>3, <2>2 DEF PInv
<1>4. CASE pc' = "post"
  <2>1. args = <<>>
    BY <1>4 DEF Resolve, Fail
  <2>2. FirstBare = 1
    BY <1>0, <2>1, FirstBareAt
  <2>3. Scanned = {}
    BY <2>2 DEF Scanned
  <2>4. Failing = {}
    BY <2>3 DEF Failing
  <2>5. ScannedParams = NoParams
    BY <2>1, <2>2, <2>3 DEF ScannedParams, NoParams
  <2>6. params' = params /\ args' = args
    BY DEF Resolve
  <2>7. (Failing = {} /\ params = ScannedParams)'
    BY <1>0, <2>4, <2>5, <2>6, ExpectedKept
  <2>. QED
    BY <1>0, <1>1, <1>4, <2>7 DEF PInv
<1>. QED
  BY <1>2, <1>3, <1>4 DEF Resolve, Fail

(* One iteration of the loop on a `key=value` or `@key=path` token: it     *)
(* extends the loop invariant by one token, and on the last token leaves   *)
(* the scanned parameters; a failing token is the first failing one.       *)
LEMMA ParseAssignmentPInv == PInv /\ ParseAssignment => PInv'
<1> SUFFICES ASSUME PInv, ParseAssignment PROVE PInv'
  OBVIOUS
<1> DEFINE tok == args[idx]
           out == IF tok.file THEN ReadFile(tok.val) ELSE Normalize(tok.key, tok.val)
<1>0. IInv'
  BY ParseAssignmentIInv DEF PInv
<1>1. /\ idx \in 1..Len(args) /\ args \in Seq(Tokens) /\ tok.eq
      /\ ScannedOk(idx - 1) /\ ParamsAfter(idx - 1, params)
      /\ params \in [AllKeys -> Values \cup {Absent}]
  BY DEF ParseAssignment, PInv, IInv, TypeOK
<1>2. out = TokenOutcome(idx)
  BY DEF TokenOutcome
<1>3. args' = args /\ svc' = svc
  BY DEF ParseAssignment
<1>4. CASE out.ok
  <2>0. /\ params' = IF tok.file
                       THEN [params EXCEPT !["_file_name"] = Val("str", BaseName[tok.val]),
                                           !["file_content"] = out.val]
                       ELSE [params EXCEPT ![tok.key] = out.val]
        /\ idx' = idx + 1
        /\ pc' = IF idx = Len(args) THEN "post" ELSE "parse"
    BY <1>4, Zenon DEF ParseAssignment
  <2>1. ScannedOk(idx)
    BY <1>1, <1>2, <1>4 DEF ScannedOk
  <2>2. \A k \in AllKeys : params'[k] = IF Writes(idx, k) THEN Written(idx, k) ELSE params[k]
    BY <1>1, <2>0, UpdateIsWrite
  <2>3. ParamsAfter(idx, params')
    BY <1>1, <2>2, AfterStep
  <2>4. ParamsAsSpecified'
    BY <2>0, <1>3, SpecKept DEF PInv
  <2>5. CASE idx = Len(args)
    <3>1. FirstBare = Len(args) + 1
      BY <1>1, <2>1, <2>5, FirstBareAt DEF ScannedOk
    <3>2. Failing = {}
      BY <2>1, <2>5, <3>1 DEF Failing, Scanned, ScannedOk
    <3>3. params' \in [AllKeys -> Values \cup {Absent}]
      BY <1>0 DEF IInv, TypeOK
    <3>4. \A k \in AllKeys : params'[k] = ScannedParams[k]
      BY <1>1, <2>3, <2>5, <3>1, AfterIsScanned
    <3>5. params' = ScannedParams
      BY <3>3, <3>4 DEF ScannedParams
    <3>6. (Failing = {} /\ params = ScannedParams)'
      BY <1>3, <3>2, <3>5, ExpectedKept
    <3>. QED
      BY <1>0, <2>0, <2>4, <2>5, <3>6 DEF PInv
  <2>6. CASE idx # Len(args)
    <3>1. (ScannedOk(idx - 1) /\ ParamsAfter(idx - 1, params))'
      BY <1>1, <1>3, <2>0, <2>1, <2>3, ExpectedKept
    <3>. QED
      BY <1>0, <2>0, <2>4, <2>6, <3>1 DEF PInv
  <2>. QED
    BY <2>5, <2>6
<1>5. CASE ~out.ok
  <2>0. /\ pc' = "failed"
        /\ err' = [kind |-> IF out.hint THEN "bool_hint" ELSE out.exc, at |-> idx]
    BY <1>5, Zenon DEF ParseAssignment, Fail
  <2>1. /\ FirstBare \in 1..(Len(args) + 1)
        /\ \A j \in 1..(FirstBare - 1) : args[j].eq
        /\ FirstBare <= Len(args) => ~args[FirstBare].eq
    BY <1>1, FirstBareSpec
  <2>2. idx \in Failing
    <3>1. idx < FirstBare
      BY <1>1, <2>1 DEF ScannedOk
    <3>. QED
      BY <1>1, <1>2, <1>5, <2>1, <3>1 DEF Failing, Scanned
  <2>3. \A j \in Failing : idx <= j
    <3> SUFFICES ASSUME NEW j \in Failing PROVE idx <= j
      OBVIOUS
    <3>1. j \in 1..Len(args) /\ ~TokenOutcome(j).ok
      BY <1>1, ScannedTokens DEF Failing
    <3>. QED
      BY <1>1, <3>1 DEF ScannedOk
  <2>4. err'.kind = ErrorOf(TokenOutcome(err'.at))
    BY <1>2, <2>0 DEF ErrorOf
  <2>5. ParamsAsSpecified'
    BY <1>3, <2>0, <2>2, <2>3, <2>4, ExpectedKept DEF PInv, ParamsAsSpecified
  <2>. QED
    BY <1>0, <2>0, <2>5 DEF PInv
<1>. QED
  BY <1>4, <1>5

(* The bare token ends the scan: it is FirstBare, and `cmd` records it.    *)
LEMMA ParseBarePInv == PInv /\ ParseBare => PInv'
<1> SUFFICES ASSUME PInv, ParseBare PROVE PInv'
  OBVIOUS
<1>0. IInv'
  BY ParseBareIInv DEF PInv
<1>1. /\ idx \in 1..Len(args) /\ args \in Seq(Tokens) /\ ~args[idx].eq
      /\ ScannedOk(idx - 1) /\ ParamsAfter(idx - 1, params)
      /\ params \in [AllKeys -> Values \cup {Absent}]
  BY DEF ParseBare, PInv, IInv, TypeOK
<1>2. /\ params' = [params EXCEPT !["cmd"] = [t |-> "str", src |-> "joined", at |-> idx]]
      /\ pc' = "post" /\ args' = args /\ svc' = svc
  BY DEF ParseBare
<1>3. FirstBare = idx
  BY <1>1, FirstBareAt DEF ScannedOk
<1>4. Failing = {}
  BY <1>1, <1>3 DEF Failing, Scanned, ScannedOk
<1>5. \A k \in AllKeys : params'[k] = ScannedParams[k]
  <2> SUFFICES ASSUME NEW k \in AllKeys PROVE params'[k] = ScannedParams[k]
    OBVIOUS
  <2>1. "cmd" \in AllKeys
    BY DEF AllKeys, ReservedKeys
  <2>2. CASE k = "cmd"
    BY <1>1, <1>2, <1>3, <2>1, <2>2 DEF ScannedParams
  <2>3. CASE k # "cmd"
    <3>1. params'[k] = params[k]
      BY <1>2, <2>3
    <3>2. params[k] = ScannedParams[k]
      BY <1>1, <1>3, <2>3, AfterIsScanned
    <3>. QED
      BY <3>1, <3>2
  <2>. QED
    BY <2>2, <2>3
<1>6. params' = ScannedParams
  <2>1. params' \in [AllKeys -> Values \cup {Absent}]
    BY <1>0 DEF IInv, TypeOK
  <2>. QED
    BY <1>5, <2>1 DEF ScannedParams
<1>7. (Failing = {} /\ params = ScannedParams)'
  BY <1>2, <1>4, <1>6, ExpectedKept
<1>8. ParamsAsSpecified'
  BY <1>2, SpecKept DEF PInv
<1>. QED
  BY <1>0, <1>2, <1>7, <1>8 DEF PInv

(* The post-pass and create(): the execution is created with the expected  *)
(* parameters, or run() raises an error tied to no token.                  *)
LEMMA SubmitPInv == StagingKeysApart /\ PInv /\ Submit => PInv'
<1> SUFFICES ASSUME StagingKeysApart, PInv, Submit PROVE PInv'
  OBVIOUS
<1>0. IInv'
  BY SubmitIInv DEF PInv
<1>1. args \in Seq(Tokens) /\ Failing = {} /\ params = ScannedParams /\ args' = args
  BY DEF Submit, PInv, IInv, TypeOK
<1>2. CASE pc' = "failed"
  <2>1. err'.at = 0 /\ svc' = svc
    BY <1>2 DEF Submit, Fail
  <2>. QED
    BY <1>0, <1>1, <1>2, <2>1, SpecKept DEF PInv
<1>3. CASE pc' # "failed"
  <2>1. /\ ~PostPassFails(params)
        /\ svc' = [status |-> "scheduled", result |-> "none", params |-> PostPass(params)]
        /\ pc' \in {"done", "poll"}
    BY <1>3 DEF Submit, Fail
  <2>2. svc'.params = ExpectedParams
    BY <1>1, <2>1, PostPassExpected
  <2>3. ParamsAsSpecified'
    BY <1>1, <1>3, <2>1, <2>2, ExpectedKept DEF ParamsAsSpecified
  <2>. QED
    BY <1>0, <2>1, <2>3 DEF PInv
<1>. QED
  BY <1>2, <1>3

(* The wait loop and the service leave the parameters alone; the service   *)
(* advances only an execution it created.                                  *)
LEMMA WaitStepsPInv ==
    ASSUME PInv, PollRefetch \/ PollError \/ Finish \/ Progress
    PROVE  PInv'
<1>0. IInv'
  BY PollRefetchIInv, PollErrorIInv, FinishIInv, ProgressIInv DEF PInv
<1>1. UNCHANGED <<args, idx, params>>
  BY DEF PollRefetch, PollError, Finish, Progress
<1>2. CASE PollRefetch \/ PollError \/ Finish
  <2>1. pc = "poll" /\ pc' \in {"poll", "failed", "done"} /\ svc' = svc
    BY <1>2 DEF PollRefetch, PollError, Finish, Fail
  <2>2. pc' # "failed" \/ err'.at = 0
    BY <1>2 DEF PollRefetch, PollError, Finish, Fail
  <2>3. ParamsAsSpecified'
    BY <1>1, <2>1, <2>2, SpecKept DEF PInv
  <2>. QED
    BY <1>0, <2>1, <2>3 DEF PInv
<1>3. CASE Progress
  <2>1. UNCHANGED <<pc, err>> /\ svc.status \in Pending
    BY <1>3 DEF Progress, IsPending, Pending
  <2>2. svc'.params = svc.params /\ svc'.status # "absent"
    <3>1. svc \in [status : {"absent"} \cup Pending \cup Terminal, result : Results,
                   params : [AllKeys -> Values \cup {Absent}]]
      BY DEF PInv, IInv, TypeOK
    <3>2. CASE svc' = [svc EXCEPT !.status = "running"]
      BY <3>1, <3>2
    <3>3. CASE \E st \in Terminal, r \in {"json", "raw"} :
                 svc' = [svc EXCEPT !.status = st, !.result = r]
      BY <3>1, <3>3 DEF Terminal
    <3>. QED
      BY <1>3, <3>2, <3>3 DEF Progress
  <2>3. ParamsAsSpecified'
    BY <1>1, <2>1, <2>2, ExpectedKept DEF PInv, ParamsAsSpecified, Pending
  <2>4. (pc = "start" => params = NoParams)'
        /\ (pc = "parse" => ScannedOk(idx - 1) /\ ParamsAfter(idx - 1, params))'
        /\ (pc = "post" => Failing = {} /\ params = ScannedParams)'
    BY <1>1, <2>1, ExpectedKept DEF PInv
  <2>. QED
    BY <1>0, <2>3, <2>4 DEF PInv
<1>. QED
  BY <1>2, <1>3

(* PInv is preserved by every step, when the staging keys are apart.       *)
LEMMA NextPInv == StagingKeysApart /\ PInv /\ [Next]_vars => PInv'
<1> SUFFICES ASSUME StagingKeysApart, PInv, [Next]_vars PROVE PInv'
  OBVIOUS
<1>1. CASE UNCHANGED vars
  <2>1. IInv'
    BY <1>1, NextIInv DEF PInv
  <2>. QED
    BY <1>1, <2>1, ExpectedKept DEF vars, PInv, ParamsAsSpecified
<1>. QED
  BY <1>1, ResolvePInv, ParseAssignmentPInv, ParseBarePInv, SubmitPInv, WaitStepsPInv
  DEF Next, Client

(* Parameter resolution (action.py:134-179) is what spec 4.3 describes:    *)
(* an execution is created only when no scanned token fails, and with the  *)
(* parameters of the last-writer semantics and the file post-pass; a run   *)
(* that fails on a token fails on the first failing one, with its error.   *)
(* This holds for every value of the constants in which a user cannot type *)
(* both staging keys; when they can, the `stagekeys` run shows it fails.   *)
THEOREM ParamsResolved ==
    ASSUME StagingKeysApart
    PROVE  Spec => []ParamsAsSpecified
<1>1. Init => PInv
  BY InitPInv
<1>2. PInv /\ [Next]_vars => PInv'
  BY NextPInv
<1>3. PInv => ParamsAsSpecified
  BY DEF PInv
<1>. QED
  BY <1>1, <1>2, <1>3, PTL DEF Spec
====
