-------------------------------- MODULE Match --------------------------------
(***************************************************************************)
(* The match expression through the compiler: the type checker accepts or  *)
(* rejects it (check_match, check_pattern), one of the two back ends turns  *)
(* its arms into a chain of tests (compile_match for native code,          *)
(* emit_match_expr and emit_stmt_match for WebAssembly), and the compiled   *)
(* match runs on a value of the subject's type.                            *)
(*                                                                         *)
(* A back end knows a variant by its position in the enum that declares it  *)
(* and finds that enum by searching all the enums of the program, in the    *)
(* order a hash map gives them.  Bodies, what a pattern binds and the types *)
(* of the bodies are left out; the guards are of type bool.                 *)
(***************************************************************************)
EXTENDS Integers, Sequences, FiniteSets

CONSTANTS
  Enum,      \* names of enums
  Name,      \* names of variants and of bindings
  Lit,       \* what the int and str patterns, and values, are compared on
  Programs   \* the programs compiled

\* wildcard _, ident x, the literals, ok(x) err(x) some(x) none, destructure V(x, ..).
\* arg is the literal's value (false is 0), or how many bindings V(..) has.
PatternKind ==
  {"wildcard", "ident", "int", "str", "bool", "ok", "err", "some", "none", "destructure"}
Pattern ==
  {q \in [kind : PatternKind, name : Name, arg : Nat] : q.kind = "bool" => q.arg \in {0, 1}}

Arm == [pattern : Pattern, guarded : BOOLEAN]

SubjectKind == {"enum", "int", "str", "bool", "result", "optional"}

\* names and arity are parallel: the variants of an enum and their payloads.
Decl == [names : Seq(Name), arity : Seq(Nat)]

Program ==
  [decls : [Enum -> Decl], subject : [kind : SubjectKind, of : Enum], arms : Seq(Arm)]

\* In an enum the names differ and each variant has its list of payload types.
WellDeclared(d) ==
  /\ Len(d.arity) = Len(d.names)
  /\ \A i, j \in DOMAIN d.names : d.names[i] = d.names[j] => i = j

ASSUME LitAssumption == Lit \subseteq Nat /\ {0, 1} \subseteq Lit
ASSUME ProgramAssumption ==
  Programs \subseteq {p \in Program : \A e \in Enum : WellDeclared(p.decls[e])}

VARIABLES
  program,   \* what is compiled
  phase,     \* "source", "rejected", "accepted", "compiled", "running", "done"
  chain,     \* the tests of the compiled match
  position,  \* where no arm matches, a statement of WebAssembly goes on
  value,     \* the subject's value in this run
  holds,     \* what the guard of each arm evaluates to in this run
  at,        \* the arm tried next
  outcome    \* how the match ended

vars == <<program, phase, chain, position, value, holds, at, outcome>>

\* Slot 0 of a heap cell is its tag; a bare value is compared itself.
Cell == [boxed : BOOLEAN, n : Nat]
NoCell == [boxed |-> FALSE, n |-> 0]
Ended(kind, i) == [kind |-> kind, arm |-> i]

Init ==
  /\ program \in Programs
  /\ phase = "source"
  /\ chain = <<>>
  /\ position = "expression"
  /\ value = NoCell
  /\ holds = <<>>
  /\ at = 1
  /\ outcome = Ended("none", 0)

-----------------------------------------------------------------------------
(* Declarations *)

Declares(p, e, n) == \E i \in DOMAIN p.decls[e].names : p.decls[e].names[i] = n

\* The index of variant n in e, from 0.
Tag(p, e, n) == (CHOOSE i \in DOMAIN p.decls[e].names : p.decls[e].names[i] = n) - 1

Arity(p, e, n) == p.decls[e].arity[Tag(p, e, n) + 1]

\* enum_max_slots has the enums one of whose variants carries data: their values
\* are cells, those of the others are bare indices.
HasSlots(p, e) == \E i \in DOMAIN p.decls[e].arity : p.decls[e].arity[i] > 0

OnEnum(p) == p.subject.kind = "enum"

-----------------------------------------------------------------------------
(* The type checker *)

\* check_pattern: the pattern may be matched against the subject's type.
Fits(p, pat) ==
  LET s == p.subject IN
  \/ pat.kind = "wildcard"
  \/ pat.kind = "ident" /\ (OnEnum(p) => Declares(p, s.of, pat.name))
  \/ pat.kind \in {"int", "str", "bool"} /\ s.kind = pat.kind
  \/ pat.kind \in {"ok", "err"} /\ s.kind = "result"
  \/ pat.kind \in {"some", "none"} /\ s.kind = "optional"
  \/ /\ pat.kind = "destructure" /\ OnEnum(p)
     /\ Declares(p, s.of, pat.name) /\ Arity(p, s.of, pat.name) = pat.arg

\* Mutant, not part of the specification: an ident counts as a binding on an enum too.
IsWildcardIdent(p, pat) == pat.kind \in {"wildcard", "ident"}

\* has_wildcard, whether or not the arm has a guard.
IsWildcard(p, pat) == pat.kind = "wildcard" \/ (pat.kind = "ident" /\ ~OnEnum(p))

\* covered_variants has an entry of this arm equal to v.
Covers(p, pat, v) ==
  \/ pat.kind = "ident" /\ OnEnum(p) /\ pat.name = v
  \/ pat.kind = "destructure" /\ pat.name = v
  \/ pat.kind = "bool" /\ v = IF pat.arg = 1 THEN "true" ELSE "false"
  \/ pat.kind \in {"ok", "err", "some", "none"} /\ pat.kind = v

\* What has to be covered; nothing covers the "_" of the other types.
Required(p) ==
  CASE OnEnum(p) -> {n \in Name : Declares(p, p.subject.of, n)}
    [] p.subject.kind = "bool" -> {"true", "false"}
    [] p.subject.kind = "result" -> {"ok", "err"}
    [] p.subject.kind = "optional" -> {"some", "none"}
    [] p.subject.kind \in {"int", "str"} -> {"_"}

Exhaustive(p) ==
  \/ \E i \in DOMAIN p.arms : IsWildcard(p, p.arms[i].pattern)
  \/ \A v \in Required(p) : \E i \in DOMAIN p.arms : Covers(p, p.arms[i].pattern, v)

Accepted(p) ==
  /\ p.arms # <<>>
  /\ \A i \in DOMAIN p.arms : Fits(p, p.arms[i].pattern)
  /\ Exhaustive(p)

Check ==
  /\ phase = "source"
  /\ phase' = IF Accepted(program) THEN "accepted" ELSE "rejected"
  /\ UNCHANGED <<program, chain, position, value, holds, at, outcome>>

-----------------------------------------------------------------------------
(* The back ends *)

Known(p, n) == \E e \in Enum : Declares(p, e, n)

\* first[n]: the enum declaring n that comes first in the hash map enum_variants,
\* whose order differs from one build to the next.
Orders(p) ==
  {first \in [{n \in Name : Known(p, n)} -> Enum] :
     \E rank \in [Enum -> 1 .. Cardinality(Enum)] :
       /\ \A d, e \in Enum : rank[d] = rank[e] => d = e
       /\ \A n \in Name : Known(p, n) =>
            /\ Declares(p, first[n], n)
            /\ \A e \in Enum : Declares(p, e, n) => rank[first[n]] <= rank[e]}

Always == [kind |-> "always", n |-> 0]
Bare(n) == [kind |-> "bare", n |-> n]
Boxed(n) == [kind |-> "box", n |-> n]
Test == [kind : {"always", "bare", "box"}, n : Nat]

\* The patterns both back ends lower alike.  boxed: an ident compares a tag.
TestOf(p, first, pat, boxed) ==
  CASE pat.kind = "wildcard" -> Always
    [] pat.kind = "ident" /\ ~Known(p, pat.name) -> Always
    [] pat.kind = "ident" /\ Known(p, pat.name) /\ boxed -> Boxed(Tag(p, first[pat.name], pat.name))
    [] pat.kind = "ident" /\ Known(p, pat.name) /\ ~boxed -> Bare(Tag(p, first[pat.name], pat.name))
    [] pat.kind = "destructure" -> Boxed(Tag(p, first[pat.name], pat.name))
    [] pat.kind \in {"int", "str", "bool"} -> Bare(pat.arg)
    [] pat.kind \in {"ok", "none"} -> Boxed(0)
    [] pat.kind \in {"err", "some"} -> Boxed(1)

\* Native code looks at the subject's type to know whether there is a tag to load.
NativeTest(p, first, pat) ==
  TestOf(p, first, pat, OnEnum(p) /\ HasSlots(p, p.subject.of))

\* WebAssembly looks at the enum it found.
WasmTest(p, first, pat) == TestOf(p, first, pat, HasSlots(p, first[pat.name]))

\* Mutant, not part of the specification: a guarded arm ends the chain.
StopsAtGuarded(p, first, i) == NativeTest(p, first, p.arms[i].pattern) = Always

\* Native code is emitted up to the first arm that needs neither test nor guard.
Stops(p, first, i) ==
  ~p.arms[i].guarded /\ NativeTest(p, first, p.arms[i].pattern) = Always

\* Mutant, not part of the specification: the loop is left before that arm is emitted.
EmittedBefore(p, first, k) ==
  /\ k = Len(p.arms) \/ Stops(p, first, k + 1)
  /\ \A i \in 1 .. k : ~Stops(p, first, i)

EmittedUpTo(p, first, k) ==
  /\ k # 0 /\ (k = Len(p.arms) \/ Stops(p, first, k))
  /\ \A i \in 1 .. k - 1 : ~Stops(p, first, i)

CompileNative(first, k) ==
  /\ phase = "accepted"
  /\ EmittedUpTo(program, first, k)
  /\ chain' = [i \in 1 .. k |-> NativeTest(program, first, program.arms[i].pattern)]
  /\ position' = "expression"
  /\ phase' = "compiled"
  /\ UNCHANGED <<program, value, holds, at, outcome>>

CompileWasm(first, where) ==
  /\ phase = "accepted"
  /\ chain' = [i \in 1 .. Len(program.arms) |->
                 WasmTest(program, first, program.arms[i].pattern)]
  /\ position' = where
  /\ phase' = "compiled"
  /\ UNCHANGED <<program, value, holds, at, outcome>>

-----------------------------------------------------------------------------
(* The compiled match runs *)

Values(p) ==
  CASE OnEnum(p) -> [boxed : {HasSlots(p, p.subject.of)},
                     n : {i - 1 : i \in DOMAIN p.decls[p.subject.of].names}]
    [] p.subject.kind \in {"int", "str"} -> [boxed : {FALSE}, n : Lit]
    [] p.subject.kind = "bool" -> [boxed : {FALSE}, n : {0, 1}]
    [] p.subject.kind \in {"result", "optional"} -> [boxed : {TRUE}, n : {0, 1}]

Guards(p) ==
  {g \in [DOMAIN p.arms -> BOOLEAN] : \A i \in DOMAIN p.arms : g[i] \/ p.arms[i].guarded}

Start(v, g) ==
  /\ phase = "compiled"
  /\ phase' = "running"
  /\ value' = v
  /\ holds' = g
  /\ UNCHANGED <<program, chain, position, at, outcome>>

\* A cell's address is no variant index and no literal.
Hit(test, v) ==
  \/ test.kind = "always"
  \/ test.kind = "bare" /\ ~v.boxed /\ test.n = v.n
  \/ test.kind = "box" /\ v.boxed /\ test.n = v.n

\* The tag of a bare value is read from whatever address the value is.
Wild(test, v) == test.kind = "box" /\ ~v.boxed

Trying == phase = "running" /\ at <= Len(chain)

End(kind, i) ==
  /\ phase' = "done"
  /\ outcome' = Ended(kind, i)
  /\ UNCHANGED <<program, chain, position, value, holds, at>>

TakeArm ==
  /\ Trying /\ ~Wild(chain[at], value)
  /\ Hit(chain[at], value) /\ holds[at]
  /\ End("arm", at)

NextArm ==
  /\ Trying /\ ~Wild(chain[at], value)
  /\ ~(Hit(chain[at], value) /\ holds[at])
  /\ at' = at + 1
  /\ UNCHANGED <<program, phase, chain, position, value, holds, outcome>>

WildRead ==
  /\ Trying /\ Wild(chain[at], value)
  /\ End("wild", at)

\* rt_panic("non-exhaustive match"); a match statement of WebAssembly has no such call.
FallThrough ==
  /\ phase = "running" /\ at > Len(chain)
  /\ End(IF position = "statement" THEN "skipped" ELSE "panic", 0)

Next ==
  \/ Check
  \/ \E first \in Orders(program), k \in 0 .. Len(program.arms) : CompileNative(first, k)
  \/ \E first \in Orders(program), where \in {"expression", "statement"} : CompileWasm(first, where)
  \/ \E v \in Values(program), g \in Guards(program) : Start(v, g)
  \/ TakeArm \/ NextArm \/ WildRead \/ FallThrough

Spec == Init /\ [][Next]_vars
-----------------------------------------------------------------------------
(* Properties *)

TypeOK ==
  /\ program \in Program
  /\ phase \in {"source", "rejected", "accepted", "compiled", "running", "done"}
  /\ chain \in Seq(Test) /\ Len(chain) <= Len(program.arms)
  /\ position \in {"expression", "statement"}
  /\ value \in Cell
  /\ phase \in {"running", "done"} => holds \in [DOMAIN program.arms -> BOOLEAN]
  /\ at \in 1 .. Len(chain) + 1
  /\ outcome \in [kind : {"none", "arm", "panic", "skipped", "wild"}, arm : Nat]
  /\ phase \in {"compiled", "running", "done"} => chain # <<>>

\* What the pattern says of a value, by the names its own type declares.
Means(p, pat, v) ==
  LET s == p.subject IN
  \/ pat.kind = "wildcard" \/ (pat.kind = "ident" /\ ~OnEnum(p))
  \/ /\ pat.kind \in {"ident", "destructure"} /\ OnEnum(p)
     /\ p.decls[s.of].names[v.n + 1] = pat.name
  \/ pat.kind \in {"int", "str", "bool"} /\ v.n = pat.arg
  \/ pat.kind \in {"ok", "none"} /\ v.n = 0
  \/ pat.kind \in {"err", "some"} /\ v.n = 1

\* Some literal no arm is written with is left over.
LitsLeft(p) == \E n \in Lit : \A i \in DOMAIN p.arms : p.arms[i].pattern.arg # n

\* The type checker accepts exactly the matches whose patterns fit the subject and
\* between them mean each of its values (check_match's coverage of variants).
ExhaustiveExact ==
  phase # "source" /\ LitsLeft(program) /\ Values(program) # {} =>
    (phase # "rejected" <=>
       /\ \A i \in DOMAIN program.arms : Fits(program, program.arms[i].pattern)
       /\ \A v \in Values(program) :
            \E i \in DOMAIN program.arms : Means(program, program.arms[i].pattern, v))

\* No variant name is declared twice, no binding of an ident pattern has the name
\* of a variant, and V() is not written for a variant of an enum without data.
Plain(p) ==
  /\ \A d, e \in Enum, n \in Name : Declares(p, d, n) /\ Declares(p, e, n) => d = e
  /\ \A i \in DOMAIN p.arms :
       /\ p.arms[i].pattern.kind = "ident" /\ ~OnEnum(p) => ~Known(p, p.arms[i].pattern.name)
       /\ p.arms[i].pattern.kind = "destructure" => HasSlots(p, p.subject.of)

\* Arm i is chosen by the language: the first that means the value and whose guard holds.
Suits(p, v, g, i) == Means(p, p.arms[i].pattern, v) /\ g[i]
Chosen(p, v, g, i) ==
  i \in DOMAIN p.arms /\ Suits(p, v, g, i) /\ \A j \in 1 .. i - 1 : ~Suits(p, v, g, j)

\* Both back ends take the arm the source means.  They find a variant by searching all
\* enums, and stop at an arm that matches anything.  No arm is taken only when none
\* suits, and then because of a guard: some arm means the value.
ArmMeant ==
  phase = "done" /\ Plain(program) =>
    \/ outcome.kind = "arm" /\ Chosen(program, value, holds, outcome.arm)
    \/ /\ outcome.kind \in {"panic", "skipped"}
       /\ \A i \in DOMAIN program.arms : ~Suits(program, value, holds, i)
       /\ \E i \in DOMAIN program.arms : Means(program, program.arms[i].pattern, value)
=============================================================================
