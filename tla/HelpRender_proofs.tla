------------------------- MODULE HelpRender_proofs -------------------------
(***************************************************************************)
(* Proofs about the help path of `st2 run <ref> --help` (HelpRender).      *)
(*                                                                         *)
(* ImmutableNeverListed holds for every set of names, ranks and positions. *)
(* The argument: every parameter line print_help can print names a member  *)
(* of Required or Optional, since the groups print orders of those sets    *)
(* and the truncation at the first bad parameter only drops lines; and     *)
(* both sets leave out every name the runner or the action marks           *)
(* immutable.  rp and ap never change after Init, so TypeOK together with  *)
(* the property is inductive: each step rewrites out from scratch.         *)
(***************************************************************************)
EXTENDS HelpRender, SequenceTheorems, FiniteSetTheorems, TLAPS

(* Every parameter line of s names a member of S.                          *)
ParamsIn(s, S) == \A i \in 1..Len(s) : s[i].k = "param" => s[i].n \in S

IInv == TypeOK /\ ImmutableNeverListed

(* The parameter lines of s that name members of T come in the order of    *)
(* _sort_parameters' keys.                                                 *)
SortedIn(s, T) ==
    \A i, j \in 1..Len(s) :
        (/\ i < j
         /\ s[i].k = "param" /\ s[j].k = "param"
         /\ s[i].n \in T /\ s[j].n \in T)
            => ~KeyLess(SortKey(s[j].n), SortKey(s[i].n))

(* No line of s is a parameter print_param would raise on.                 *)
NoBadParam(s) == \A i \in 1..Len(s) : ~IsBadParam(s[i])

(* No line of s lists a parameter without a schema.                        *)
NoMissing(s) == \A i \in 1..Len(s) : ~Missing(s[i])

(* The parameter lines of s, the names they list, and three facts about    *)
(* them: each name listed once, no ERROR line, members of R listed first.  *)
ParamIdx(s) == {i \in 1..Len(s) : s[i].k = "param"}
ListedNames(s) == {s[i].n : i \in ParamIdx(s)}
OnceEach(s) == \A i, j \in ParamIdx(s) : s[i].n = s[j].n => i = j
NoError(s) == \A i \in 1..Len(s) : s[i].k # "error"
ReqFirst(s, R) == \A i, j \in ParamIdx(s) : i < j /\ s[j].n \in R => s[i].n \in R

(* The text PrintHelp hands to Printed, for given orders of the groups.    *)
HelpText(oreq, oopt) ==
    <<Line("desc", "-")>> \o Group("req_hdr", Required, oreq)
                          \o Group("opt_hdr", Optional, oopt)

(* The invariant behind HelpListsAll: once the help of a found action with *)
(* a description is printed, it came from a whole help text, and it is     *)
(* that text when print_param raises on none of its lines, else it holds   *)
(* an ERROR line.                                                          *)
HasError(s) == \E i \in 1..Len(s) : s[i].k = "error"
LInv ==
    /\ TypeOK
    /\ (pc = "done" /\ request = "found" /\ hasDesc) =>
          \E oreq \in SortedOrders(Required), oopt \in SortedOrders(Optional) :
              /\ NoBadParam(HelpText(oreq, oopt)) => out = HelpText(oreq, oopt)
              /\ ~NoBadParam(HelpText(oreq, oopt)) => HasError(out)

(* The invariant behind HelpOrdered: what is printed is sorted within each *)
(* group and every listed parameter has a schema, so its key is its        *)
(* position or its name.                                                   *)
OInv ==
    /\ TypeOK
    /\ SortedIn(out, Required) /\ SortedIn(out, Optional)
    /\ NoMissing(out)

-----------------------------------------------------------------------------
(* A schema maps each name it has to a Metas record; a missing name reads  *)
(* as the empty dict.                                                      *)
LEMMA MetaOfType ==
    ASSUME NEW s \in Schemas, NEW n
    PROVE  MetaOf(s, n) \in Metas /\ DOMAIN s \subseteq Names
<1>1. PICK D \in SUBSET Names : s \in [D -> Metas]
  BY DEF Schemas
<1>. QED BY <1>1 DEF MetaOf, Metas, EmptyMeta

(* A name of Required or Optional is immutable neither in the runner's     *)
(* schema nor in the action's: is_immutable reads both.                    *)
LEMMA ListableNotImmutable ==
    ASSUME TypeOK, NEW n \in Required \cup Optional
    PROVE  ~MetaOf(rp, n).immutable /\ ~MetaOf(ap, n).immutable
<1>0. \A m \in Metas : m.immutable \in BOOLEAN
  <2>. SUFFICES ASSUME NEW m \in Metas PROVE m.immutable \in BOOLEAN
    OBVIOUS
  <2>1. CASE m = EmptyMeta
    BY <2>1 DEF EmptyMeta
  <2>2. CASE m \in [present : {TRUE}, immutable : BOOLEAN, pos : PosSets]
    BY <2>2
  <2>. QED BY <2>1, <2>2 DEF Metas
<1>1. MetaOf(rp, n).immutable \in BOOLEAN /\ MetaOf(ap, n).immutable \in BOOLEAN
  BY <1>0, MetaOfType DEF TypeOK
<1>2. n \notin Immutable
  BY DEF Required, Optional
<1>3. CASE n \in DOMAIN Parameters
  BY <1>1, <1>2, <1>3 DEF Immutable, IsImmutable
<1>4. CASE n \notin DOMAIN Parameters
  <2>1. n \notin DOMAIN rp /\ n \notin DOMAIN ap
    BY <1>4 DEF Parameters
  <2>. QED BY <2>1 DEF MetaOf, EmptyMeta
<1>. QED BY <1>3, <1>4

(* Both groups print finite sets of names.                                 *)
LEMMA GroupsFinite ==
    ASSUME TypeOK
    PROVE  /\ Required \subseteq Names /\ IsFiniteSet(Required)
           /\ Optional \subseteq Names /\ IsFiniteSet(Optional)
<1>1. DOMAIN rp \subseteq Names /\ DOMAIN ap \subseteq Names
  BY MetaOfType DEF TypeOK
<1>2. Required \subseteq Names /\ Optional \subseteq Names
  BY <1>1 DEF TypeOK, Required, Optional, Parameters
<1>. QED BY <1>2, HelpAssumption, FS_Subset
(* Concatenating two sequences of lines keeps each one's parameters.       *)
LEMMA ConcatParams ==
    ASSUME NEW s \in Seq(Lines), NEW t \in Seq(Lines), NEW S, NEW T,
           ParamsIn(s, S), ParamsIn(t, T)
    PROVE  s \o t \in Seq(Lines) /\ ParamsIn(s \o t, S \cup T)
<1>1. /\ s \o t \in Seq(Lines)
      /\ Len(s \o t) = Len(s) + Len(t)
      /\ \A i \in 1..Len(s) + Len(t) :
            (s \o t)[i] = IF i <= Len(s) THEN s[i] ELSE t[i - Len(s)]
  BY ConcatProperties
<1>. QED BY <1>1 DEF ParamsIn

(* A printed group is a sequence of lines whose parameter lines name       *)
(* members of the group's set.                                             *)
LEMMA GroupParams ==
    ASSUME NEW S \in SUBSET Names, IsFiniteSet(S),
           NEW hdr \in LineKinds \ {"param"}, NEW o \in SortedOrders(S)
    PROVE  Group(hdr, S, o) \in Seq(Lines) /\ ParamsIn(Group(hdr, S, o), S)
<1>1. Cardinality(S) \in Nat
  BY FS_CardinalityType
<1>2. o \in Seq(S) /\ Len(o) = Cardinality(S)
  BY <1>1 DEF SortedOrders
<1>. DEFINE ps == [i \in 1..Len(o) |-> Line("param", o[i])]
<1>3. ps \in Seq(Lines) /\ ParamsIn(ps, S)
  <2>1. \A i \in 1..Len(o) : o[i] \in S
    BY <1>2
  <2>2. ps \in [1..Len(o) -> Lines]
    BY <2>1 DEF Line, Lines, LineKinds
  <2>3. Len(o) \in Nat
    BY <1>2
  <2>. QED BY <2>1, <2>2, <2>3 DEF ParamsIn, Line
<1>4. <<Line(hdr, "-")>> \in Seq(Lines) /\ ParamsIn(<<Line(hdr, "-")>>, S)
  BY DEF Line, Lines, ParamsIn
<1>5. CASE S # {}
  <2>1. Group(hdr, S, o) = <<Line(hdr, "-")>> \o ps
    BY <1>5 DEF Group
  <2>2. /\ <<Line(hdr, "-")>> \o ps \in Seq(Lines)
        /\ ParamsIn(<<Line(hdr, "-")>> \o ps, S \cup S)
    BY <1>3, <1>4, ConcatParams
  <2>. QED BY <2>1, <2>2
<1>6. CASE S = {}
  BY <1>6 DEF Group, ParamsIn
<1>. QED BY <1>5, <1>6

(* A non-empty set of naturals has a least member: `<` is well founded on  *)
(* Nat.                                                                    *)
LEMMA LeastNat ==
    ASSUME NEW B \in SUBSET Nat, B # {}
    PROVE  \E x \in B : \A y \in B : ~(y < x)
<1>1. \E x \in B : \A y \in B : ~(<<y, x>> \in OpToRel(<, Nat))
  BY NatLessThanWellFounded, WFMin
<1>. QED BY <1>1 DEF OpToRel

(* The first k lines of a text.                                           *)
LEMMA PrefixLines ==
    ASSUME NEW full \in Seq(Lines), NEW k \in 0..Len(full)
    PROVE  /\ SubSeq(full, 1, k) \in Seq(Lines)
           /\ Len(SubSeq(full, 1, k)) = k
           /\ \A i \in 1..k : SubSeq(full, 1, k)[i] = full[i]
<1>1. \A i \in 1..k : full[i] \in Lines
  OBVIOUS
<1>2. /\ SubSeq(full, 1, k) \in Seq(Lines)
      /\ Len(SubSeq(full, 1, k)) = IF 1 <= k THEN k - 1 + 1 ELSE 0
      /\ \A i \in 1..k - 1 + 1 : SubSeq(full, 1, k)[i] = full[1 + i - 1]
  BY <1>1, SubSeqProperties
<1>. QED BY <1>2

(* What Printed makes of a text: the whole text when print_param raises on *)
(* none of its lines; else the lines printed before the first one it       *)
(* raises on (that line's name too when the schema is there but cannot be  *)
(* formatted), and an ERROR line.                                          *)
LEMMA PrintedShape ==
    ASSUME NEW full \in Seq(Lines)
    PROVE  \/ /\ Printed(full) = full
              /\ NoBadParam(full)
           \/ /\ ~NoBadParam(full)
              /\ \E k \in 0..Len(full) :
                    /\ Printed(full) = SubSeq(full, 1, k) \o <<Line("error", "-")>>
                    /\ \A i \in 1..k : ~Missing(full[i])
<1>1. CASE NoBadParam(full)
  BY <1>1 DEF Printed, NoBadParam
<1>2. CASE ~NoBadParam(full)
  <2>. DEFINE First(i) == IsBadParam(full[i]) /\ \A j \in 1..(i - 1) : ~IsBadParam(full[j])
              B == {i \in 1..Len(full) : IsBadParam(full[i])}
              i0 == CHOOSE i \in 1..Len(full) : First(i)
              k0 == IF Missing(full[i0]) THEN i0 - 1 ELSE i0
  <2>1. \E i \in 1..Len(full) : First(i)
    <3>1. B \subseteq Nat /\ B # {}
      BY <1>2 DEF NoBadParam
    <3>2. PICK x \in B : \A y \in B : ~(y < x)
      BY <3>1, LeastNat
    <3>. QED BY <3>2
  <2>2. i0 \in 1..Len(full) /\ First(i0)
    BY <2>1
  <2>3. Printed(full) = SubSeq(full, 1, k0) \o <<Line("error", "-")>>
    BY <1>2 DEF Printed, NoBadParam
  <2>4. \A i \in 1..(i0 - 1) : ~Missing(full[i])
    BY <2>2 DEF IsBadParam
  <2>5. k0 \in 0..Len(full) /\ \A i \in 1..k0 : ~Missing(full[i])
    <3>1. CASE Missing(full[i0])
      BY <2>2, <2>4, <3>1
    <3>2. CASE ~Missing(full[i0])
      BY <2>2, <2>4, <3>2
    <3>. QED BY <3>1, <3>2
  <2>. HIDE DEF i0, k0
  <2>. QED BY <1>2, <2>3, <2>5
<1>. QED BY <1>1, <1>2

(* What is printed before a given line keeps the text's parameters.        *)
LEMMA PrefixParams ==
    ASSUME NEW full \in Seq(Lines), NEW S, ParamsIn(full, S),
           NEW k \in 0..Len(full)
    PROVE  SubSeq(full, 1, k) \in Seq(Lines) /\ ParamsIn(SubSeq(full, 1, k), S)
BY PrefixLines DEF ParamsIn

(* The ERROR line lists no parameter.                                      *)
LEMMA ErrorLine ==
    /\ <<Line("error", "-")>> \in Seq(Lines)
    /\ \A S : ParamsIn(<<Line("error", "-")>>, S)
BY DEF Line, Lines, LineKinds, ParamsIn

(* print_param raises at the first parameter without a schema; what was    *)
(* printed before it, and the ERROR line, keep the full text's parameters. *)
LEMMA PrintedParams ==
    ASSUME NEW full \in Seq(Lines), NEW S, ParamsIn(full, S)
    PROVE  Printed(full) \in Seq(Lines) /\ ParamsIn(Printed(full), S)
<1>1. CASE Printed(full) = full
  BY <1>1
<1>2. CASE \E k \in 0..Len(full) : Printed(full) = SubSeq(full, 1, k) \o <<Line("error", "-")>>
  <2>1. PICK k \in 0..Len(full) : Printed(full) = SubSeq(full, 1, k) \o <<Line("error", "-")>>
    BY <1>2
  <2>2. SubSeq(full, 1, k) \in Seq(Lines) /\ ParamsIn(SubSeq(full, 1, k), S)
    BY PrefixParams
  <2>3. /\ SubSeq(full, 1, k) \o <<Line("error", "-")>> \in Seq(Lines)
        /\ ParamsIn(SubSeq(full, 1, k) \o <<Line("error", "-")>>, S \cup S)
    BY <2>2, ErrorLine, ConcatParams
  <2>. QED BY <2>1, <2>3
<1>. QED BY <1>1, <1>2, PrintedShape

(* A text whose parameter lines all name listable parameters lists no      *)
(* immutable one.                                                          *)
LEMMA ListableText ==
    ASSUME TypeOK, NEW s, ParamsIn(s, Required \cup Optional)
    PROVE  \A i \in 1..Len(s) :
              s[i].k = "param" => ~MetaOf(rp, s[i].n).immutable /\ ~MetaOf(ap, s[i].n).immutable
BY ListableNotImmutable DEF ParamsIn

(* The text PrintHelp builds from a description and two sorted groups.    *)
LEMMA HelpTextLines ==
    ASSUME TypeOK,
           NEW oreq \in SortedOrders(Required), NEW oopt \in SortedOrders(Optional)
    PROVE  /\ HelpText(oreq, oopt) \in Seq(Lines)
           /\ ParamsIn(HelpText(oreq, oopt), Required \cup Optional)
<1>. DEFINE d == <<Line("desc", "-")>>
            g1 == Group("req_hdr", Required, oreq)
            g2 == Group("opt_hdr", Optional, oopt)
<1>1. /\ g1 \in Seq(Lines) /\ ParamsIn(g1, Required)
      /\ g2 \in Seq(Lines) /\ ParamsIn(g2, Optional)
  BY GroupsFinite, GroupParams DEF LineKinds
<1>2. d \in Seq(Lines) /\ ParamsIn(d, {})
  BY DEF Line, Lines, LineKinds, ParamsIn
<1>3. d \o g1 \in Seq(Lines) /\ ParamsIn(d \o g1, {} \cup Required)
  BY <1>1, <1>2, ConcatParams
<1>4. d \o g1 \o g2 \in Seq(Lines) /\ ParamsIn(d \o g1 \o g2, ({} \cup Required) \cup Optional)
  BY <1>1, <1>3, ConcatParams
<1>5. ({} \cup Required) \cup Optional = Required \cup Optional
  OBVIOUS
<1>. QED BY <1>4, <1>5 DEF HelpText

(* What PrintHelp prints from it.                                          *)
LEMMA HelpTextParams ==
    ASSUME TypeOK,
           NEW oreq \in SortedOrders(Required), NEW oopt \in SortedOrders(Optional)
    PROVE  LET full == <<Line("desc", "-")>> \o Group("req_hdr", Required, oreq)
                                             \o Group("opt_hdr", Optional, oopt)
           IN  /\ Printed(full) \in Seq(Lines)
               /\ ParamsIn(Printed(full), Required \cup Optional)
<1>1. HelpText(oreq, oopt) \in Seq(Lines)
      /\ ParamsIn(HelpText(oreq, oopt), Required \cup Optional)
  BY HelpTextLines
<1>. QED BY <1>1, PrintedParams DEF HelpText

(* A one-line message (usage, not found, ERROR) lists no parameter.        *)
LEMMA OneLine ==
    ASSUME NEW k \in LineKinds \ {"param"}
    PROVE  /\ <<Line(k, "-")>> \in Seq(Lines)
           /\ \A i \in 1..Len(<<Line(k, "-")>>) : <<Line(k, "-")>>[i].k # "param"
BY DEF Line, Lines

-----------------------------------------------------------------------------
LEMMA InitIInv == Init => IInv
<1>. SUFFICES ASSUME Init PROVE IInv
  OBVIOUS
<1>1. NoSchema \in Schemas
  BY DEF NoSchema, Schemas
<1>2. TypeOK
  <2>1. CASE request = "found"
    BY <2>1 DEF Init, TypeOK, Requests
  <2>2. CASE request # "found"
    <3>1. hasDesc = FALSE /\ rp = NoSchema /\ ap = NoSchema /\ reqR = {} /\ reqA = {}
      BY <2>2 DEF Init
    <3>2. pc = "start" /\ request \in Requests /\ out = <<>>
      BY DEF Init
    <3>3. <<>> \in Seq(Lines)
      OBVIOUS
    <3>. QED BY <1>1, <3>1, <3>2, <3>3 DEF TypeOK
  <2>. QED BY <2>1, <2>2
<1>. QED BY <1>2 DEF Init, IInv, ImmutableNeverListed

LEMMA NextIInv == IInv /\ [Next]_vars => IInv'
<1>. SUFFICES ASSUME IInv, [Next]_vars PROVE IInv'
  OBVIOUS
<1>. USE DEF IInv
<1>1. CASE PrintHelp /\ hasDesc
  <2>1. PICK oreq \in SortedOrders(Required), oopt \in SortedOrders(Optional) :
           out' = Printed(<<Line("desc", "-")>> \o Group("req_hdr", Required, oreq)
                                               \o Group("opt_hdr", Optional, oopt))
    BY <1>1 DEF PrintHelp
  <2>2. out' \in Seq(Lines) /\ ParamsIn(out', Required \cup Optional)
    BY <2>1, HelpTextParams
  <2>3. TypeOK'
    BY <1>1, <2>2 DEF PrintHelp, TypeOK
  <2>4. UNCHANGED <<rp, ap>>
    BY <1>1 DEF PrintHelp
  <2>. QED BY <2>2, <2>3, <2>4, ListableText DEF ImmutableNeverListed
<1>2. CASE PrintHelp /\ ~hasDesc
  <2>1. out' = <<Line("error", "-")>> /\ pc' = "done"
        /\ UNCHANGED <<request, hasDesc, rp, ap, reqR, reqA>>
    BY <1>2 DEF PrintHelp
  <2>. QED BY <2>1, OneLine DEF TypeOK, ImmutableNeverListed, LineKinds
<1>3. CASE NoHelp \/ UNCHANGED vars
  BY <1>3 DEF NoHelp, vars, TypeOK, ImmutableNeverListed
<1>4. CASE PrintUsage \/ LookupNotFound \/ LookupNoRunner
  <2>1. /\ \E k \in LineKinds \ {"param"} : out' = <<Line(k, "-")>>
        /\ pc' = "done"
        /\ UNCHANGED <<request, hasDesc, rp, ap, reqR, reqA>>
    BY <1>4 DEF PrintUsage, LookupNotFound, LookupNoRunner, LineKinds
  <2>. QED BY <2>1, OneLine DEF TypeOK, ImmutableNeverListed
<1>. QED BY <1>1, <1>2, <1>3, <1>4 DEF Next

(* print_help, on every schema the runner and the action can declare,     *)
(* never prints a parameter that either one marks immutable.               *)
THEOREM ImmutableParamsHidden == Spec => []ImmutableNeverListed
<1>1. Init => IInv
  BY InitIInv
<1>2. IInv /\ [Next]_vars => IInv'
  BY NextIInv
<1>3. IInv => ImmutableNeverListed
  BY DEF IInv
<1>. QED BY <1>1, <1>2, <1>3, PTL DEF Spec

-----------------------------------------------------------------------------
(* For parameters with a schema, the order the help text promises is the   *)
(* order of _get_parameter_sort_value's keys.                              *)
LEMMA KeyOrder ==
    ASSUME TypeOK, NEW m \in Names, NEW n \in Names,
           HasSchema(m), HasSchema(n), SpecBefore(m, n)
    PROVE  KeyLess(SortKey(m), SortKey(n))
<1>1. \A x \in Names : HasSchema(x) =>
          /\ Parameters[x] \in Metas
          /\ Parameters[x].pos # NoPos => PosOf(Parameters[x]) \in Nat
  <2>. SUFFICES ASSUME NEW x \in Names, HasSchema(x)
                PROVE  /\ Parameters[x] \in Metas
                       /\ Parameters[x].pos # NoPos => PosOf(Parameters[x]) \in Nat
    OBVIOUS
  <2>1. Parameters[x] = MetaOf(ap, x) \/ Parameters[x] = MetaOf(rp, x)
    BY DEF HasSchema, Parameters, MetaOf
  <2>2. Parameters[x] \in Metas
    BY <2>1, MetaOfType DEF TypeOK
  <2>3. Parameters[x].pos \in PosSets
    <3>1. CASE Parameters[x] = EmptyMeta
      BY <3>1 DEF EmptyMeta, PosSets
    <3>2. CASE Parameters[x] \in [present : {TRUE}, immutable : BOOLEAN, pos : PosSets]
      BY <3>2
    <3>. QED BY <2>2, <3>1, <3>2 DEF Metas
  <2>4. Parameters[x].pos # NoPos => PosOf(Parameters[x]) \in Positions
    BY <2>3 DEF PosSets, PosOf
  <2>. QED BY <2>2, <2>4, HelpAssumption
<1>2. NameRank[m] \in Nat /\ NameRank[n] \in Nat
  BY HelpAssumption
<1>. QED BY <1>1, <1>2 DEF SpecBefore, SortKey, KeyLess

(* Concatenating two sorted texts keeps the order of T's parameters when   *)
(* only one of them lists members of T.                                    *)
LEMMA ConcatSorted ==
    ASSUME NEW s \in Seq(Lines), NEW t \in Seq(Lines), NEW T, NEW A, NEW B,
           SortedIn(s, T), SortedIn(t, T), ParamsIn(s, A), ParamsIn(t, B),
           A \cap T = {} \/ B \cap T = {}
    PROVE  SortedIn(s \o t, T)
<1>1. /\ Len(s \o t) = Len(s) + Len(t)
      /\ \A i \in 1..Len(s) + Len(t) :
            (s \o t)[i] = IF i <= Len(s) THEN s[i] ELSE t[i - Len(s)]
  BY ConcatProperties
<1>. SUFFICES ASSUME NEW i \in 1..Len(s \o t), NEW j \in 1..Len(s \o t), i < j,
                     (s \o t)[i].k = "param", (s \o t)[j].k = "param",
                     (s \o t)[i].n \in T, (s \o t)[j].n \in T
              PROVE  ~KeyLess(SortKey((s \o t)[j].n), SortKey((s \o t)[i].n))
  BY DEF SortedIn
<1>2. CASE j <= Len(s)
  BY <1>1, <1>2 DEF SortedIn
<1>3. CASE i > Len(s)
  <2>1. i - Len(s) \in 1..Len(t) /\ j - Len(s) \in 1..Len(t) /\ i - Len(s) < j - Len(s)
    BY <1>1, <1>3
  <2>. QED BY <1>1, <1>3, <2>1 DEF SortedIn
<1>4. CASE i <= Len(s) /\ j > Len(s)
  <2>1. s[i].k = "param" /\ s[i].n \in T /\ t[j - Len(s)].k = "param" /\ t[j - Len(s)].n \in T
    BY <1>1, <1>4
  <2>2. s[i].n \in A /\ t[j - Len(s)].n \in B
    BY <1>1, <1>4, <2>1 DEF ParamsIn
  <2>. QED BY <2>1, <2>2
<1>. QED BY <1>2, <1>3, <1>4

(* Concatenation keeps texts free of parameters without a schema.          *)
LEMMA ConcatNoMissing ==
    ASSUME NEW s \in Seq(Lines), NEW t \in Seq(Lines), NoMissing(s), NoMissing(t)
    PROVE  NoMissing(s \o t)
<1>1. /\ Len(s \o t) = Len(s) + Len(t)
      /\ \A i \in 1..Len(s) + Len(t) :
            (s \o t)[i] = IF i <= Len(s) THEN s[i] ELSE t[i - Len(s)]
  BY ConcatProperties
<1>. QED BY <1>1 DEF NoMissing

(* A group printed from a sorted order is sorted.                          *)
LEMMA GroupSorted ==
    ASSUME NEW S \in SUBSET Names, IsFiniteSet(S), NEW T,
           NEW hdr \in LineKinds \ {"param"}, NEW o \in SortedOrders(S)
    PROVE  SortedIn(Group(hdr, S, o), T)
<1>1. Cardinality(S) \in Nat
  BY FS_CardinalityType
<1>2. o \in Seq(S) /\ Len(o) = Cardinality(S)
  BY <1>1 DEF SortedOrders
<1>3. \A i, j \in 1..Len(o) : i < j => ~KeyLess(SortKey(o[j]), SortKey(o[i]))
  BY <1>2 DEF SortedOrders
<1>. DEFINE ps == [i \in 1..Len(o) |-> Line("param", o[i])]
<1>4. ps \in Seq(Lines) /\ ParamsIn(ps, S) /\ SortedIn(ps, T)
  <2>1. ps \in Seq(Lines) /\ ParamsIn(ps, S)
    <3>1. \A i \in 1..Len(o) : o[i] \in S
      BY <1>2
    <3>2. ps \in [1..Len(o) -> Lines]
      BY <3>1 DEF Line, Lines, LineKinds
    <3>3. Len(o) \in Nat
      BY <1>2
    <3>. QED BY <3>1, <3>2, <3>3 DEF ParamsIn, Line
  <2>2. SortedIn(ps, T)
    BY <1>2, <1>3 DEF SortedIn, Line
  <2>. QED BY <2>1, <2>2
<1>5. /\ <<Line(hdr, "-")>> \in Seq(Lines)
      /\ ParamsIn(<<Line(hdr, "-")>>, {})
      /\ SortedIn(<<Line(hdr, "-")>>, T)
  BY DEF Line, Lines, LineKinds, ParamsIn, SortedIn
<1>6. CASE S # {}
  <2>1. Group(hdr, S, o) = <<Line(hdr, "-")>> \o ps
    BY <1>6 DEF Group
  <2>. QED BY <1>4, <1>5, <2>1, ConcatSorted
<1>7. CASE S = {}
  BY <1>7 DEF Group, SortedIn
<1>. QED BY <1>6, <1>7

(* Every text of lines lists names of Names only.                          *)
LEMMA LinesParams ==
    ASSUME NEW s \in Seq(Lines)
    PROVE  ParamsIn(s, Names \cup {"-"})
<1>1. \A i \in 1..Len(s) : s[i] \in Lines
  OBVIOUS
<1>. QED BY <1>1 DEF Lines, ParamsIn

(* The ERROR line is sorted and lists no parameter.                        *)
LEMMA ErrorLineSorted ==
    ASSUME NEW T
    PROVE  SortedIn(<<Line("error", "-")>>, T) /\ NoMissing(<<Line("error", "-")>>)
BY DEF Line, SortedIn, NoMissing, Missing

(* Truncating at the first bad parameter keeps a text sorted, and leaves   *)
(* no parameter without a schema in it.                                   *)
LEMMA PrintedSorted ==
    ASSUME NEW full \in Seq(Lines), NEW T, SortedIn(full, T)
    PROVE  SortedIn(Printed(full), T) /\ NoMissing(Printed(full))
<1>1. CASE Printed(full) = full /\ NoBadParam(full)
  BY <1>1 DEF NoBadParam, NoMissing, IsBadParam
<1>2. CASE \E k \in 0..Len(full) :
              /\ Printed(full) = SubSeq(full, 1, k) \o <<Line("error", "-")>>
              /\ \A i \in 1..k : ~Missing(full[i])
  <2>1. PICK k \in 0..Len(full) :
              /\ Printed(full) = SubSeq(full, 1, k) \o <<Line("error", "-")>>
              /\ \A i \in 1..k : ~Missing(full[i])
    BY <1>2
  <2>. DEFINE pre == SubSeq(full, 1, k)
  <2>2. /\ pre \in Seq(Lines)
        /\ SortedIn(pre, T)
        /\ NoMissing(pre)
    <3>1. pre \in Seq(Lines) /\ Len(pre) = k /\ \A i \in 1..k : pre[i] = full[i]
      BY PrefixLines
    <3>. QED BY <2>1, <3>1 DEF SortedIn, NoMissing
  <2>3. SortedIn(pre \o <<Line("error", "-")>>, T)
    <3>1. ParamsIn(pre, Names \cup {"-"}) /\ ParamsIn(<<Line("error", "-")>>, {})
      BY <2>2, LinesParams, ErrorLine
    <3>2. SortedIn(<<Line("error", "-")>>, T) /\ <<Line("error", "-")>> \in Seq(Lines)
      BY ErrorLine, ErrorLineSorted
    <3>. QED BY <2>2, <3>1, <3>2, ConcatSorted
  <2>4. NoMissing(pre \o <<Line("error", "-")>>)
    BY <2>2, ErrorLine, ErrorLineSorted, ConcatNoMissing
  <2>. QED BY <2>1, <2>3, <2>4
<1>. QED BY <1>1, <1>2, PrintedShape

(* The text PrintHelp prints is sorted within the required and within    *)
(* the optional group, and lists no parameter without a schema.            *)
LEMMA HelpTextSorted ==
    ASSUME TypeOK,
           NEW oreq \in SortedOrders(Required), NEW oopt \in SortedOrders(Optional)
    PROVE  LET full == <<Line("desc", "-")>> \o Group("req_hdr", Required, oreq)
                                             \o Group("opt_hdr", Optional, oopt)
           IN  /\ SortedIn(Printed(full), Required)
               /\ SortedIn(Printed(full), Optional)
               /\ NoMissing(Printed(full))
<1>. DEFINE d == <<Line("desc", "-")>>
            g1 == Group("req_hdr", Required, oreq)
            g2 == Group("opt_hdr", Optional, oopt)
<1>1. /\ g1 \in Seq(Lines) /\ ParamsIn(g1, Required)
      /\ g2 \in Seq(Lines) /\ ParamsIn(g2, Optional)
  BY GroupsFinite, GroupParams DEF LineKinds
<1>2. \A T : SortedIn(g1, T) /\ SortedIn(g2, T)
  BY GroupsFinite, GroupSorted DEF LineKinds
<1>3. d \in Seq(Lines) /\ ParamsIn(d, {}) /\ \A T : SortedIn(d, T)
  BY DEF Line, Lines, LineKinds, ParamsIn, SortedIn
<1>4. d \o g1 \in Seq(Lines) /\ ParamsIn(d \o g1, {} \cup Required)
  BY <1>1, <1>3, ConcatParams
<1>5. \A T : SortedIn(d \o g1, T)
  <2>. SUFFICES ASSUME NEW T PROVE SortedIn(d \o g1, T)
    OBVIOUS
  <2>1. SortedIn(d, T) /\ SortedIn(g1, T) /\ {} \cap T = {}
    BY <1>2, <1>3
  <2>. QED BY <1>1, <1>3, <2>1, ConcatSorted
<1>6. Required \cap Optional = {}
  BY DEF Optional
<1>7. SortedIn(d \o g1 \o g2, Required)
  <2>1. SortedIn(d \o g1, Required) /\ SortedIn(g2, Required) /\ Optional \cap Required = {}
    BY <1>2, <1>5, <1>6
  <2>. QED BY <1>1, <1>4, <2>1, ConcatSorted
<1>9. SortedIn(d \o g1 \o g2, Optional)
  <2>1. SortedIn(d \o g1, Optional) /\ SortedIn(g2, Optional)
        /\ ({} \cup Required) \cap Optional = {}
    BY <1>2, <1>5, <1>6
  <2>. QED BY <1>1, <1>4, <2>1, ConcatSorted
<1>8. d \o g1 \o g2 \in Seq(Lines)
  BY <1>1, <1>4
<1>. QED BY <1>7, <1>8, <1>9, PrintedSorted

(* A one-line message is sorted and lists no parameter.                    *)
LEMMA OneLineSorted ==
    ASSUME NEW k \in LineKinds \ {"param"}, NEW T
    PROVE  SortedIn(<<Line(k, "-")>>, T) /\ NoMissing(<<Line(k, "-")>>)
BY DEF Line, SortedIn, NoMissing, Missing

(* The state print_help reads (the schemas and the required lists) is     *)
(* fixed once the lookups return, so the groups and the keys are too.      *)
LEMMA SameGroups ==
    ASSUME UNCHANGED <<rp, ap, reqR, reqA>>
    PROVE  /\ Required' = Required /\ Optional' = Optional
           /\ \A n : SortKey(n)' = SortKey(n) /\ HasSchema(n)' = HasSchema(n)
           /\ \A S : SortedOrders(S)' = SortedOrders(S)
           /\ \A a, b : HelpText(a, b)' = HelpText(a, b)
<1>1. /\ Required' = Required /\ Optional' = Optional
      /\ \A n : SortKey(n)' = SortKey(n) /\ HasSchema(n)' = HasSchema(n)
  BY DEF Required, Optional, Immutable, IsImmutable, MetaOf, Parameters,
         SortKey, HasSchema, PosOf
<1>2. \A S : SortedOrders(S)' = SortedOrders(S)
  BY <1>1 DEF SortedOrders
<1>3. \A a, b : HelpText(a, b)' = HelpText(a, b)
  BY <1>1 DEF HelpText, Group
<1>. QED BY <1>1, <1>2, <1>3

(* The text PrintHelp prints satisfies OInv's conditions on out.          *)
LEMMA OutOInv ==
    ASSUME NEW o \in Seq(Lines),
           SortedIn(o, Required), SortedIn(o, Optional), NoMissing(o),
           out' = o, UNCHANGED <<rp, ap, reqR, reqA>>
    PROVE  SortedIn(out, Required)' /\ SortedIn(out, Optional)' /\ NoMissing(out)'
<1>1. /\ Required' = Required /\ Optional' = Optional
      /\ \A n : SortKey(n)' = SortKey(n) /\ HasSchema(n)' = HasSchema(n)
  BY SameGroups
<1>2. SortedIn(out, Required)' = SortedIn(o, Required)
      /\ SortedIn(out, Optional)' = SortedIn(o, Optional)
  BY <1>1 DEF SortedIn
<1>3. NoMissing(out)' = NoMissing(o)
  BY <1>1 DEF NoMissing, Missing
<1>. QED BY <1>2, <1>3

LEMMA NextTypeOK == TypeOK /\ [Next]_vars => TypeOK'
<1>. SUFFICES ASSUME TypeOK, [Next]_vars PROVE TypeOK'
  OBVIOUS
<1>1. CASE PrintHelp /\ hasDesc
  <2>1. PICK oreq \in SortedOrders(Required), oopt \in SortedOrders(Optional) :
           out' = Printed(<<Line("desc", "-")>> \o Group("req_hdr", Required, oreq)
                                               \o Group("opt_hdr", Optional, oopt))
    BY <1>1 DEF PrintHelp
  <2>. QED BY <1>1, <2>1, HelpTextParams DEF PrintHelp, TypeOK
<1>2. CASE PrintHelp /\ ~hasDesc
  BY <1>2, ErrorLine DEF PrintHelp, TypeOK
<1>3. CASE PrintUsage \/ LookupNotFound \/ LookupNoRunner
  <2>1. /\ \E k \in LineKinds \ {"param"} : out' = <<Line(k, "-")>>
        /\ pc' = "done"
        /\ UNCHANGED <<request, hasDesc, rp, ap, reqR, reqA>>
    BY <1>3 DEF PrintUsage, LookupNotFound, LookupNoRunner, LineKinds
  <2>. QED BY <2>1, OneLine DEF TypeOK
<1>4. CASE NoHelp \/ UNCHANGED vars
  BY <1>4 DEF NoHelp, vars, TypeOK
<1>. QED BY <1>1, <1>2, <1>3, <1>4 DEF Next

LEMMA InitOInv == Init => OInv
<1>. SUFFICES ASSUME Init PROVE OInv
  OBVIOUS
<1>1. TypeOK
  BY InitIInv DEF IInv
<1>. QED BY <1>1 DEF Init, OInv, SortedIn, NoMissing

LEMMA NextOInv == OInv /\ [Next]_vars => OInv'
<1>. SUFFICES ASSUME OInv, [Next]_vars PROVE OInv'
  OBVIOUS
<1>0. TypeOK'
  BY NextTypeOK DEF OInv
<1>1. CASE PrintHelp /\ hasDesc
  <2>1. PICK oreq \in SortedOrders(Required), oopt \in SortedOrders(Optional) :
           out' = Printed(<<Line("desc", "-")>> \o Group("req_hdr", Required, oreq)
                                               \o Group("opt_hdr", Optional, oopt))
    BY <1>1 DEF PrintHelp
  <2>2. /\ out' \in Seq(Lines)
        /\ SortedIn(out', Required) /\ SortedIn(out', Optional) /\ NoMissing(out')
    BY <2>1, HelpTextSorted, HelpTextParams DEF OInv
  <2>. QED BY <1>0, <1>1, <2>2, OutOInv DEF PrintHelp, OInv
<1>2. CASE PrintHelp /\ ~hasDesc
  <2>1. out' = <<Line("error", "-")>> /\ UNCHANGED <<rp, ap, reqR, reqA>>
    BY <1>2 DEF PrintHelp
  <2>. QED BY <1>0, <2>1, ErrorLine, ErrorLineSorted, OutOInv DEF OInv
<1>3. CASE PrintUsage \/ LookupNotFound \/ LookupNoRunner
  <2>1. /\ \E k \in LineKinds \ {"param"} : out' = <<Line(k, "-")>>
        /\ UNCHANGED <<rp, ap, reqR, reqA>>
    BY <1>3 DEF PrintUsage, LookupNotFound, LookupNoRunner, LineKinds
  <2>2. PICK k \in LineKinds \ {"param"} : out' = <<Line(k, "-")>>
    BY <2>1
  <2>. QED BY <1>0, <2>1, <2>2, OneLine, OneLineSorted, OutOInv DEF OInv
<1>4. CASE NoHelp \/ UNCHANGED vars
  <2>1. out' = out /\ UNCHANGED <<rp, ap, reqR, reqA>>
    BY <1>4 DEF NoHelp, vars
  <2>. QED BY <1>0, <2>1, OutOInv DEF OInv, TypeOK
<1>. QED BY <1>1, <1>2, <1>3, <1>4 DEF Next

(* OInv gives the promised order: a listed parameter with a schema sorts   *)
(* by position, then by name, and Printed lists no other.                  *)
LEMMA OInvOrdered == OInv => HelpOrdered
<1>. SUFFICES ASSUME OInv, NEW S \in {Required, Optional},
                     NEW i \in Listing(S), NEW j \in Listing(S), i < j,
                     SpecBefore(out[j].n, out[i].n)
              PROVE  FALSE
  BY DEF HelpOrdered
<1>1. TypeOK
  BY DEF OInv
<1>2. S \subseteq Names
  BY <1>1, GroupsFinite
<1>3. /\ i \in 1..Len(out) /\ j \in 1..Len(out)
      /\ out[i].k = "param" /\ out[j].k = "param"
      /\ out[i].n \in S /\ out[j].n \in S
  BY DEF Listing, ParamLines
<1>4. HasSchema(out[i].n) /\ HasSchema(out[j].n)
  BY <1>3 DEF OInv, NoMissing, Missing
<1>5. KeyLess(SortKey(out[j].n), SortKey(out[i].n))
  BY <1>1, <1>2, <1>3, <1>4, KeyOrder
<1>6. SortedIn(out, S)
  BY DEF OInv
<1>. QED BY <1>3, <1>5, <1>6 DEF SortedIn

(* The help text lists the required parameters, and separately the        *)
(* optional ones, in the order the help promises (positions first, by     *)
(* position, then by name), for every schema and every name order.        *)
THEOREM HelpIsOrdered == Spec => []HelpOrdered
<1>1. Init => OInv
  BY InitOInv
<1>2. OInv /\ [Next]_vars => OInv'
  BY NextOInv
<1>3. OInv => HelpOrdered
  BY OInvOrdered
<1>. QED BY <1>1, <1>2, <1>3, PTL DEF Spec

-----------------------------------------------------------------------------
(* A sorted order of a finite set lists each member exactly once: it has   *)
(* Cardinality(S) distinct entries, so it is onto.                         *)
LEMMA OrderOnto ==
    ASSUME NEW S, IsFiniteSet(S), NEW o \in SortedOrders(S)
    PROVE  /\ Cardinality(S) \in Nat
           /\ o \in [1..Cardinality(S) -> S]
           /\ \A i, j \in 1..Cardinality(S) : o[i] = o[j] => i = j
           /\ \A x \in S : \E m \in 1..Cardinality(S) : o[m] = x
<1>. DEFINE n == Cardinality(S)
<1>1. n \in Nat
  BY FS_CardinalityType
<1>2. o \in [1..n -> S] /\ \A i, j \in 1..n : i < j => o[i] # o[j]
  BY DEF SortedOrders
<1>3. \A i, j \in 1..n : o[i] = o[j] => i = j
  BY <1>1, <1>2
<1>4. o \in Injection(1..n, S)
  BY <1>2, <1>3 DEF Injection, IsInjective
<1>5. IsFiniteSet(1..n) /\ Cardinality(1..n) = n
  BY <1>1, FS_Interval
<1>6. o \in Surjection(1..n, S)
  BY <1>4, <1>5, FS_Injection
<1>. QED BY <1>1, <1>2, <1>3, <1>6 DEF Surjection

(* A printed group lists each member of its set exactly once and no ERROR. *)
LEMMA GroupLists ==
    ASSUME NEW S \in SUBSET Names, IsFiniteSet(S),
           NEW hdr \in LineKinds \ {"param", "error"}, NEW o \in SortedOrders(S)
    PROVE  /\ OnceEach(Group(hdr, S, o))
           /\ ListedNames(Group(hdr, S, o)) = S
           /\ NoError(Group(hdr, S, o))
<1>. DEFINE c == Cardinality(S)
            ps == [i \in 1..Len(o) |-> Line("param", o[i])]
            g == Group(hdr, S, o)
<1>1. /\ c \in Nat
      /\ o \in [1..c -> S]
      /\ \A i, j \in 1..c : o[i] = o[j] => i = j
      /\ \A x \in S : \E m \in 1..c : o[m] = x
  BY OrderOnto
<1>2. o \in Seq(S) /\ Len(o) = c
  BY <1>1
<1>3. CASE S = {}
  <2>1. g = <<>>
    BY <1>3 DEF Group
  <2>. QED BY <1>3, <2>1 DEF OnceEach, ListedNames, ParamIdx, NoError
<1>4. CASE S # {}
  <2>1. g = <<Line(hdr, "-")>> \o ps
    BY <1>4 DEF Group
  <2>2. ps \in Seq(Lines)
    <3>1. ps \in [1..c -> Lines]
      BY <1>1, <1>2 DEF Line, Lines, LineKinds
    <3>. QED BY <1>1, <3>1
  <2>3. <<Line(hdr, "-")>> \in Seq(Lines)
    BY DEF Line, Lines
  <2>4. /\ Len(g) = 1 + c
        /\ \A i \in 1..(1 + c) : g[i] = IF i <= 1 THEN Line(hdr, "-") ELSE ps[i - 1]
    BY <1>2, <2>1, <2>2, <2>3, ConcatProperties
  <2>5. /\ g[1].k = hdr
        /\ \A i \in 2..(1 + c) : g[i].k = "param" /\ g[i].n = o[i - 1]
    <3>0. 1 \in 1..(1 + c) /\ 1 <= 1
      BY <1>1
    <3>1. g[1] = Line(hdr, "-")
      BY <3>0, <2>4, Zenon
    <3>2. \A i \in 2..(1 + c) : g[i] = ps[i - 1] /\ i - 1 \in 1..Len(o)
      BY <1>1, <1>2, <2>4
    <3>3. \A i \in 1..Len(o) : ps[i] = Line("param", o[i])
      OBVIOUS
    <3>4. \A i \in 2..(1 + c) : g[i] = Line("param", o[i - 1])
      BY <3>2, <3>3
    <3>5. g[1].k = hdr
      BY <3>1 DEF Line
    <3>6. \A i \in 2..(1 + c) : g[i].k = "param" /\ g[i].n = o[i - 1]
      <4>. SUFFICES ASSUME NEW i \in 2..(1 + c) PROVE g[i].k = "param" /\ g[i].n = o[i - 1]
        OBVIOUS
      <4>1. g[i] = [k |-> "param", n |-> o[i - 1]]
        BY <3>4 DEF Line
      <4>. QED BY <4>1
    <3>. QED BY <3>5, <3>6
  <2>6. ParamIdx(g) = 2..(1 + c)
    BY <1>1, <2>4, <2>5 DEF ParamIdx
  <2>7. OnceEach(g)
    BY <1>1, <2>5, <2>6 DEF OnceEach
  <2>8. ListedNames(g) = S
    <3>1. ListedNames(g) \subseteq S
      BY <1>1, <2>5, <2>6 DEF ListedNames
    <3>2. S \subseteq ListedNames(g)
      <4>. SUFFICES ASSUME NEW x \in S PROVE x \in ListedNames(g)
        OBVIOUS
      <4>1. PICK m \in 1..c : o[m] = x
        BY <1>1
      <4>2. m + 1 \in ParamIdx(g) /\ g[m + 1].n = x
        BY <1>1, <2>5, <2>6, <4>1
      <4>. QED BY <4>2 DEF ListedNames
    <3>. QED BY <3>1, <3>2
  <2>9. NoError(g)
    BY <1>1, <2>4, <2>5 DEF NoError
  <2>. QED BY <2>7, <2>8, <2>9
<1>. QED BY <1>3, <1>4

(* The index arithmetic of a concatenation, once for all the lemmas below. *)
LEMMA ConcatIdx ==
    ASSUME NEW s \in Seq(Lines), NEW t \in Seq(Lines)
    PROVE  /\ s \o t \in Seq(Lines)
           /\ Len(s \o t) = Len(s) + Len(t)
           /\ \A i \in 1..Len(s) : (s \o t)[i] = s[i]
           /\ \A i \in 1..Len(t) : (s \o t)[Len(s) + i] = t[i]
           /\ ParamIdx(s \o t) = ParamIdx(s) \cup {Len(s) + i : i \in ParamIdx(t)}
<1>1. /\ s \o t \in Seq(Lines)
      /\ Len(s \o t) = Len(s) + Len(t)
      /\ \A i \in 1..Len(s) + Len(t) :
            (s \o t)[i] = IF i <= Len(s) THEN s[i] ELSE t[i - Len(s)]
  BY ConcatProperties
<1>2. \A i \in 1..Len(s) : (s \o t)[i] = s[i]
  BY <1>1
<1>3. \A i \in 1..Len(t) : (s \o t)[Len(s) + i] = t[i]
  BY <1>1
<1>4. ParamIdx(s \o t) = ParamIdx(s) \cup {Len(s) + i : i \in ParamIdx(t)}
  <2>1. ParamIdx(s \o t) \subseteq ParamIdx(s) \cup {Len(s) + i : i \in ParamIdx(t)}
    <3>. SUFFICES ASSUME NEW j \in ParamIdx(s \o t)
                  PROVE  j \in ParamIdx(s) \cup {Len(s) + i : i \in ParamIdx(t)}
      OBVIOUS
    <3>1. CASE j <= Len(s)
      BY <1>1, <1>2, <3>1 DEF ParamIdx
    <3>2. CASE j > Len(s)
      <4>1. j - Len(s) \in ParamIdx(t) /\ j = Len(s) + (j - Len(s))
        BY <1>1, <1>3, <3>2 DEF ParamIdx
      <4>. QED BY <4>1
    <3>. QED BY <3>1, <3>2 DEF ParamIdx
  <2>2. ParamIdx(s) \cup {Len(s) + i : i \in ParamIdx(t)} \subseteq ParamIdx(s \o t)
    BY <1>1, <1>2, <1>3 DEF ParamIdx
  <2>. QED BY <2>1, <2>2
<1>. QED BY <1>1, <1>2, <1>3, <1>4

(* Concatenating texts that list disjoint sets keeps each name listed      *)
(* once, lists the union, and adds no ERROR.                               *)
LEMMA ConcatLists ==
    ASSUME NEW s \in Seq(Lines), NEW t \in Seq(Lines), NEW A, NEW B,
           ParamsIn(s, A), ParamsIn(t, B), A \cap B = {},
           OnceEach(s), OnceEach(t), NoError(s), NoError(t)
    PROVE  /\ OnceEach(s \o t)
           /\ ListedNames(s \o t) = ListedNames(s) \cup ListedNames(t)
           /\ NoError(s \o t)
<1>1. /\ Len(s \o t) = Len(s) + Len(t)
      /\ \A i \in 1..Len(s) : (s \o t)[i] = s[i]
      /\ \A i \in 1..Len(t) : (s \o t)[Len(s) + i] = t[i]
      /\ ParamIdx(s \o t) = ParamIdx(s) \cup {Len(s) + i : i \in ParamIdx(t)}
  BY ConcatIdx
<1>2. ParamIdx(s) \subseteq 1..Len(s) /\ ParamIdx(t) \subseteq 1..Len(t)
  BY DEF ParamIdx
<1>3. OnceEach(s \o t)
  <2>. SUFFICES ASSUME NEW i \in ParamIdx(s \o t), NEW j \in ParamIdx(s \o t),
                       (s \o t)[i].n = (s \o t)[j].n
                PROVE  i = j
    BY DEF OnceEach
  <2>1. CASE i \in ParamIdx(s) /\ j \in ParamIdx(s)
    BY <1>1, <1>2, <2>1 DEF OnceEach
  <2>2. CASE i \in ParamIdx(s) /\ j \notin ParamIdx(s)
    <3>1. PICK j2 \in ParamIdx(t) : j = Len(s) + j2
      BY <1>1, <2>2
    <3>2. (s \o t)[i].n = s[i].n /\ s[i].n \in A /\ (s \o t)[j].n = t[j2].n /\ t[j2].n \in B
      BY <1>1, <1>2, <2>2, <3>1 DEF ParamsIn, ParamIdx
    <3>. QED BY <3>2
  <2>3. CASE i \notin ParamIdx(s) /\ j \in ParamIdx(s)
    <3>1. PICK i2 \in ParamIdx(t) : i = Len(s) + i2
      BY <1>1, <2>3
    <3>2. (s \o t)[j].n = s[j].n /\ s[j].n \in A /\ (s \o t)[i].n = t[i2].n /\ t[i2].n \in B
      BY <1>1, <1>2, <2>3, <3>1 DEF ParamsIn, ParamIdx
    <3>. QED BY <3>2
  <2>4. CASE i \notin ParamIdx(s) /\ j \notin ParamIdx(s)
    <3>1. PICK i2 \in ParamIdx(t) : i = Len(s) + i2
      BY <1>1, <2>4
    <3>2. PICK j2 \in ParamIdx(t) : j = Len(s) + j2
      BY <1>1, <2>4
    <3>. QED BY <1>1, <1>2, <3>1, <3>2 DEF OnceEach
  <2>. QED BY <2>1, <2>2, <2>3, <2>4
<1>4. ListedNames(s \o t) = ListedNames(s) \cup ListedNames(t)
  <2>1. ASSUME NEW x \in ListedNames(s \o t) PROVE x \in ListedNames(s) \cup ListedNames(t)
    <3>1. PICK j \in ParamIdx(s \o t) : x = (s \o t)[j].n
      BY DEF ListedNames
    <3>2. CASE j \in ParamIdx(s)
      BY <1>1, <1>2, <3>1, <3>2 DEF ListedNames
    <3>3. CASE j \notin ParamIdx(s)
      <4>1. PICK j2 \in ParamIdx(t) : j = Len(s) + j2
        BY <1>1, <3>1, <3>3
      <4>2. x = t[j2].n
        BY <1>1, <1>2, <3>1, <4>1
      <4>. QED BY <4>1, <4>2 DEF ListedNames
    <3>. QED BY <3>2, <3>3
  <2>2. ASSUME NEW x \in ListedNames(s) PROVE x \in ListedNames(s \o t)
    <3>1. PICK j \in ParamIdx(s) : x = s[j].n
      BY DEF ListedNames
    <3>. QED BY <1>1, <1>2, <3>1 DEF ListedNames
  <2>3. ASSUME NEW x \in ListedNames(t) PROVE x \in ListedNames(s \o t)
    <3>1. PICK j \in ParamIdx(t) : x = t[j].n
      BY DEF ListedNames
    <3>2. Len(s) + j \in ParamIdx(s \o t) /\ (s \o t)[Len(s) + j].n = x
      BY <1>1, <1>2, <3>1
    <3>. QED BY <3>2 DEF ListedNames
  <2>. QED BY <2>1, <2>2, <2>3
<1>5. NoError(s \o t)
  <2>. SUFFICES ASSUME NEW i \in 1..Len(s \o t) PROVE (s \o t)[i].k # "error"
    BY DEF NoError
  <2>1. CASE i <= Len(s)
    BY <1>1, <2>1 DEF NoError
  <2>2. CASE i > Len(s)
    <3>1. i - Len(s) \in 1..Len(t) /\ i = Len(s) + (i - Len(s))
      BY <1>1, <2>2
    <3>. QED BY <1>1, <3>1 DEF NoError
  <2>. QED BY <2>1, <2>2
<1>. QED BY <1>3, <1>4, <1>5

(* When the second text lists no member of R, every member of R is listed  *)
(* before any other parameter.                                             *)
LEMMA ConcatReqFirst ==
    ASSUME NEW s \in Seq(Lines), NEW t \in Seq(Lines), NEW R, NEW B,
           ParamsIn(s, R), ParamsIn(t, B), B \cap R = {}
    PROVE  ReqFirst(s \o t, R)
<1>1. /\ Len(s \o t) = Len(s) + Len(t)
      /\ \A i \in 1..Len(s) : (s \o t)[i] = s[i]
      /\ \A i \in 1..Len(t) : (s \o t)[Len(s) + i] = t[i]
      /\ ParamIdx(s \o t) = ParamIdx(s) \cup {Len(s) + i : i \in ParamIdx(t)}
  BY ConcatIdx
<1>2. ParamIdx(s) \subseteq 1..Len(s) /\ ParamIdx(t) \subseteq 1..Len(t)
  BY DEF ParamIdx
<1>. SUFFICES ASSUME NEW i \in ParamIdx(s \o t), NEW j \in ParamIdx(s \o t),
                     i < j, (s \o t)[j].n \in R
              PROVE  (s \o t)[i].n \in R
  BY DEF ReqFirst
<1>3. j \in ParamIdx(s)
  <2>1. SUFFICES ASSUME j \notin ParamIdx(s) PROVE FALSE
    OBVIOUS
  <2>2. PICK j2 \in ParamIdx(t) : j = Len(s) + j2
    BY <1>1, <2>1
  <2>3. (s \o t)[j].n = t[j2].n /\ t[j2].n \in B
    BY <1>1, <1>2, <2>2 DEF ParamsIn, ParamIdx
  <2>. QED BY <2>3
<1>4. i \in ParamIdx(s)
  BY <1>1, <1>2, <1>3
<1>. QED BY <1>1, <1>2, <1>4 DEF ParamsIn, ParamIdx

(* The help text of a found action with a description lists every         *)
(* required and optional parameter once, the required ones first, and no  *)
(* ERROR line.                                                             *)
LEMMA HelpTextLists ==
    ASSUME TypeOK,
           NEW oreq \in SortedOrders(Required), NEW oopt \in SortedOrders(Optional)
    PROVE  /\ OnceEach(HelpText(oreq, oopt))
           /\ ListedNames(HelpText(oreq, oopt)) = Required \cup Optional
           /\ NoError(HelpText(oreq, oopt))
           /\ ReqFirst(HelpText(oreq, oopt), Required)
<1>. DEFINE d == <<Line("desc", "-")>>
            g1 == Group("req_hdr", Required, oreq)
            g2 == Group("opt_hdr", Optional, oopt)
<1>1. /\ g1 \in Seq(Lines) /\ ParamsIn(g1, Required)
      /\ g2 \in Seq(Lines) /\ ParamsIn(g2, Optional)
  BY GroupsFinite, GroupParams DEF LineKinds
<1>2. /\ OnceEach(g1) /\ ListedNames(g1) = Required /\ NoError(g1)
      /\ OnceEach(g2) /\ ListedNames(g2) = Optional /\ NoError(g2)
  BY GroupsFinite, GroupLists DEF LineKinds
<1>3. /\ d \in Seq(Lines) /\ ParamsIn(d, {})
      /\ OnceEach(d) /\ ListedNames(d) = {} /\ NoError(d)
  <2>1. ParamIdx(d) = {}
    BY DEF ParamIdx, Line
  <2>. QED BY <2>1 DEF Line, Lines, LineKinds, ParamsIn, OnceEach, ListedNames, NoError
<1>4. Required \cap Optional = {}
  BY DEF Optional
<1>5. /\ d \o g1 \in Seq(Lines) /\ ParamsIn(d \o g1, Required)
      /\ OnceEach(d \o g1) /\ ListedNames(d \o g1) = Required /\ NoError(d \o g1)
  <2>1. d \o g1 \in Seq(Lines) /\ ParamsIn(d \o g1, {} \cup Required)
    BY <1>1, <1>3, ConcatParams
  <2>2. {} \cap Required = {}
    OBVIOUS
  <2>3. /\ OnceEach(d \o g1)
        /\ ListedNames(d \o g1) = ListedNames(d) \cup ListedNames(g1)
        /\ NoError(d \o g1)
    BY <1>1, <1>2, <1>3, <2>2, ConcatLists
  <2>. QED BY <1>2, <1>3, <2>1, <2>3
<1>6. /\ OnceEach(d \o g1 \o g2)
      /\ ListedNames(d \o g1 \o g2) = ListedNames(d \o g1) \cup ListedNames(g2)
      /\ NoError(d \o g1 \o g2)
  BY <1>1, <1>2, <1>4, <1>5, ConcatLists
<1>7. ReqFirst(d \o g1 \o g2, Required)
  <2>1. Optional \cap Required = {}
    BY <1>4
  <2>. QED BY <1>1, <1>5, <2>1, ConcatReqFirst
<1>. QED BY <1>2, <1>5, <1>6, <1>7 DEF HelpText

(* print_param raises on no line of the help text exactly when every      *)
(* required and optional parameter can be printed: the text lists each of  *)
(* them, and only them.                                                    *)
LEMMA HelpTextBad ==
    ASSUME TypeOK,
           NEW oreq \in SortedOrders(Required), NEW oopt \in SortedOrders(Optional)
    PROVE  NoBadParam(HelpText(oreq, oopt)) <=> \A n \in Required \cup Optional : Printable(n)
<1>. DEFINE full == HelpText(oreq, oopt)
<1>1. full \in Seq(Lines) /\ ParamsIn(full, Required \cup Optional)
  BY HelpTextLines
<1>2. ListedNames(full) = Required \cup Optional
  BY HelpTextLists
<1>3. ASSUME \A n \in Required \cup Optional : Printable(n)
      PROVE  NoBadParam(full)
  BY <1>1, <1>3 DEF NoBadParam, IsBadParam, Missing, Unprintable, Printable, ParamsIn
<1>4. ASSUME NoBadParam(full), NEW n \in Required \cup Optional
      PROVE  Printable(n)
  <2>1. PICK i \in ParamIdx(full) : full[i].n = n
    BY <1>2 DEF ListedNames
  <2>2. i \in 1..Len(full) /\ full[i].k = "param"
    BY DEF ParamIdx
  <2>3. ~Missing(full[i]) /\ ~Unprintable(full[i])
    BY <1>4, <2>2 DEF NoBadParam, IsBadParam
  <2>. QED BY <2>1, <2>2, <2>3 DEF Missing, Unprintable, Printable
<1>. QED BY <1>3, <1>4

(* A text cut short and followed by the ERROR line holds an ERROR line.    *)
LEMMA ErrorAppended ==
    ASSUME NEW full \in Seq(Lines), NEW k \in 0..Len(full)
    PROVE  HasError(SubSeq(full, 1, k) \o <<Line("error", "-")>>)
<1>. DEFINE pre == SubSeq(full, 1, k)
            e == <<Line("error", "-")>>
<1>1. pre \in Seq(Lines) /\ Len(pre) = k
  BY PrefixLines
<1>2. e \in Seq(Lines) /\ Len(e) = 1
  BY ErrorLine
<1>3. /\ Len(pre \o e) = k + 1
      /\ (pre \o e)[k + 1] = e[1]
  BY <1>1, <1>2, ConcatProperties
<1>. QED BY <1>3 DEF HasError, Line

(* Which lines print_param raises on depends only on the schemas, which   *)
(* are fixed once the lookups return.                                      *)
LEMMA SameBad ==
    ASSUME UNCHANGED <<rp, ap, reqR, reqA>>
    PROVE  \A s : NoBadParam(s)' = NoBadParam(s)
BY DEF NoBadParam, IsBadParam, Missing, Unprintable, HasSchema, Parameters

-----------------------------------------------------------------------------
LEMMA InitLInv == Init => LInv
BY InitIInv DEF IInv, Init, LInv

LEMMA NextLInv == LInv /\ [Next]_vars => LInv'
<1>. SUFFICES ASSUME LInv, [Next]_vars PROVE LInv'
  OBVIOUS
<1>0. TypeOK'
  BY NextTypeOK DEF LInv
<1>1. CASE PrintHelp /\ hasDesc
  <2>1. PICK oreq \in SortedOrders(Required), oopt \in SortedOrders(Optional) :
           out' = Printed(HelpText(oreq, oopt))
    BY <1>1 DEF PrintHelp, HelpText
  <2>2. UNCHANGED <<rp, ap, reqR, reqA>>
    BY <1>1 DEF PrintHelp
  <2>3. /\ \A S : SortedOrders(S)' = SortedOrders(S)
        /\ Required' = Required /\ Optional' = Optional
        /\ \A a, b : HelpText(a, b)' = HelpText(a, b)
        /\ \A t : NoBadParam(t)' = NoBadParam(t)
    BY <2>2, SameGroups, SameBad
  <2>. DEFINE full == HelpText(oreq, oopt)
  <2>4. full \in Seq(Lines)
    BY HelpTextLines DEF LInv
  <2>5. NoBadParam(full) => out' = full
    BY <2>1, <2>4, PrintedShape
  <2>6. ~NoBadParam(full) => HasError(out')
    <3>. SUFFICES ASSUME ~NoBadParam(full) PROVE HasError(out')
      OBVIOUS
    <3>1. PICK k \in 0..Len(full) : Printed(full) = SubSeq(full, 1, k) \o <<Line("error", "-")>>
      BY <2>4, PrintedShape
    <3>. QED BY <2>1, <2>4, <3>1, ErrorAppended
  <2>7. oreq \in SortedOrders(Required)' /\ oopt \in SortedOrders(Optional)'
    BY <2>3
  <2>8. HelpText(oreq, oopt)' = full /\ NoBadParam(HelpText(oreq, oopt))' = NoBadParam(full)
    BY <2>3
  <2>9. /\ NoBadParam(HelpText(oreq, oopt))' => out' = HelpText(oreq, oopt)'
        /\ ~NoBadParam(HelpText(oreq, oopt))' => HasError(out')
    BY <2>5, <2>6, <2>8
  <2>10. \E a \in SortedOrders(Required)', b \in SortedOrders(Optional)' :
            /\ NoBadParam(HelpText(a, b))' => out' = HelpText(a, b)'
            /\ ~NoBadParam(HelpText(a, b))' => HasError(out')
    BY <2>7, <2>9
  <2>. QED BY <1>0, <2>10 DEF LInv
<1>2. CASE PrintHelp /\ ~hasDesc
  BY <1>0, <1>2 DEF PrintHelp, LInv
<1>3. CASE NoHelp \/ PrintUsage \/ LookupNotFound \/ LookupNoRunner
  BY <1>0, <1>3 DEF NoHelp, PrintUsage, LookupNotFound, LookupNoRunner, LInv
<1>4. CASE UNCHANGED vars
  <2>1. UNCHANGED <<pc, request, hasDesc, out, rp, ap, reqR, reqA>>
    BY <1>4 DEF vars
  <2>2. /\ \A S : SortedOrders(S)' = SortedOrders(S)
        /\ Required' = Required /\ Optional' = Optional
        /\ \A a, b : HelpText(a, b)' = HelpText(a, b)
        /\ \A t : NoBadParam(t)' = NoBadParam(t)
    BY <2>1, SameGroups, SameBad
  <2>. QED BY <1>0, <2>1, <2>2 DEF LInv, HasError
<1>. QED BY <1>1, <1>2, <1>3, <1>4 DEF Next

(* LInv gives what HelpListsAll asks: the help text holds an ERROR line    *)
(* exactly when print_param raises on one of its lines, which is when some *)
(* listable parameter cannot be printed; else it is the whole help text.   *)
LEMMA LInvListsAll == LInv => HelpListsAll
<1>. SUFFICES ASSUME LInv, pc = "done", request = "found", hasDesc
              PROVE  /\ HasError(out) <=> \E n \in Required \cup Optional : ~Printable(n)
                     /\ (\A n \in Required \cup Optional : Printable(n)) =>
                           /\ \A i, j \in ParamLines : out[i].n = out[j].n => i = j
                           /\ {out[i].n : i \in ParamLines} = Required \cup Optional
                           /\ \A i \in ParamLines, j \in Listing(Required) :
                                 i < j => i \in Listing(Required)
  BY DEF HelpListsAll, HasError
<1>1. TypeOK
  BY DEF LInv
<1>2. PICK oreq \in SortedOrders(Required), oopt \in SortedOrders(Optional) :
         /\ NoBadParam(HelpText(oreq, oopt)) => out = HelpText(oreq, oopt)
         /\ ~NoBadParam(HelpText(oreq, oopt)) => HasError(out)
  BY DEF LInv
<1>3. /\ OnceEach(HelpText(oreq, oopt))
      /\ ListedNames(HelpText(oreq, oopt)) = Required \cup Optional
      /\ NoError(HelpText(oreq, oopt))
      /\ ReqFirst(HelpText(oreq, oopt), Required)
  BY <1>1, HelpTextLists
<1>4. NoBadParam(HelpText(oreq, oopt)) <=> \A n \in Required \cup Optional : Printable(n)
  BY <1>1, HelpTextBad
<1>5. (\A n \in Required \cup Optional : Printable(n)) => out = HelpText(oreq, oopt)
  BY <1>2, <1>4
<1>6. HasError(out) <=> \E n \in Required \cup Optional : ~Printable(n)
  <2>1. CASE \A n \in Required \cup Optional : Printable(n)
    BY <1>3, <1>5, <2>1 DEF HasError, NoError
  <2>2. CASE \E n \in Required \cup Optional : ~Printable(n)
    BY <1>2, <1>4, <2>2
  <2>. QED BY <2>1, <2>2
<1>7. ASSUME \A n \in Required \cup Optional : Printable(n)
      PROVE  /\ \A i, j \in ParamLines : out[i].n = out[j].n => i = j
             /\ {out[i].n : i \in ParamLines} = Required \cup Optional
             /\ \A i \in ParamLines, j \in Listing(Required) :
                   i < j => i \in Listing(Required)
  <2>1. /\ OnceEach(out) /\ ListedNames(out) = Required \cup Optional
        /\ ReqFirst(out, Required)
    BY <1>3, <1>5, <1>7
  <2>2. ParamLines = ParamIdx(out)
        /\ Listing(Required) = {i \in ParamIdx(out) : out[i].n \in Required}
    BY DEF ParamLines, ParamIdx, Listing
  <2>. QED BY <2>1, <2>2 DEF OnceEach, ListedNames, ReqFirst
<1>. QED BY <1>6, <1>7

(* For a found action with a description, the help shows an ERROR line    *)
(* exactly when some required or optional parameter cannot be printed     *)
(* (no schema, or a description or enum print_param cannot format); when  *)
(* none is such, it lists each of them exactly once, the required group    *)
(* first: for every schema, every required list and every name order.     *)
THEOREM HelpListsEveryParam == Spec => []HelpListsAll
<1>1. Init => LInv
  BY InitLInv
<1>2. LInv /\ [Next]_vars => LInv'
  BY NextLInv
<1>3. LInv => HelpListsAll
  BY LInvListsAll
<1>. QED BY <1>1, <1>2, <1>3, PTL DEF Spec

====
