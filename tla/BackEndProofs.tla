--------------------------- MODULE BackEndProofs ---------------------------
(***************************************************************************)
(* What the two code generators make of a source, for every set of         *)
(* programs of Match and of functions of Exits.                            *)
(*                                                                         *)
(* A match: the type checker accepts exactly the matches that fit and      *)
(* cover their subject's values, and a compiled match takes the arm the    *)
(* source means, whatever the order enums are searched in.                 *)
(*                                                                         *)
(* The ways out of a block: the code of a function makes the calls the     *)
(* source makes, but for the deferred expressions left where its back end  *)
(* runs none.  The proof is a simulation.  Each step of the source is      *)
(* matched by none or one of the code's; which code there is to run when   *)
(* the source has come to some frames is a function of the frames (RestOf, *)
(* Over, Beneath), and a loop in it is entered again with the code it was  *)
(* entered with.  The code runs alone between the conditions, and the      *)
(* source waits for it there: the code is on its way (Reach) to where the  *)
(* source has come (Goal), or to an instruction after which it does        *)
(* nothing more (Stuck), as in a program that is refused.                  *)
(***************************************************************************)
EXTENDS Match, Exits, FiniteSetTheorems, NaturalsInduction,
        WellFoundedInduction, TLAPS

-----------------------------------------------------------------------------
\* A program of the model is well formed.
LEMMA ProgramType ==
  ASSUME NEW p \in Programs
  PROVE  /\ p \in Program
         /\ p.decls \in [Enum -> Decl]
         /\ p.subject.kind \in SubjectKind /\ p.subject.of \in Enum
         /\ p.arms \in Seq(Arm)
         /\ \A e \in Enum : /\ WellDeclared(p.decls[e])
                            /\ p.decls[e].names \in Seq(Name)
                            /\ p.decls[e].arity \in Seq(Nat)
PROOF
  <1>1. p \in Program /\ \A e \in Enum : WellDeclared(p.decls[e])
    BY ProgramAssumption
  <1> QED
    BY <1>1 DEF Program, Decl

LEMMA ArmType ==
  ASSUME NEW p \in Programs, NEW i \in DOMAIN p.arms
  PROVE  /\ p.arms[i] \in Arm
         /\ p.arms[i].pattern.kind \in PatternKind
         /\ p.arms[i].pattern.name \in Name
         /\ p.arms[i].pattern.arg \in Nat
         /\ p.arms[i].guarded \in BOOLEAN
         /\ p.arms[i].pattern.kind = "bool" => p.arms[i].pattern.arg \in {0, 1}
PROOF
  <1>1. p.arms \in Seq(Arm)
    BY ProgramType
  <1>2. p.arms[i] \in Arm
    BY <1>1
  <1>3. p.arms[i].pattern \in Pattern /\ p.arms[i].guarded \in BOOLEAN
    BY <1>2 DEF Arm
  <1> QED
    BY <1>2, <1>3 DEF Pattern

\* A declared variant's tag is its index, from 0.
LEMMA TagIsIndex ==
  ASSUME NEW p \in Programs, NEW e \in Enum, NEW n \in Name, Declares(p, e, n)
  PROVE  /\ Tag(p, e, n) \in Nat
         /\ Tag(p, e, n) + 1 \in DOMAIN p.decls[e].names
         /\ p.decls[e].names[Tag(p, e, n) + 1] = n
         /\ \A k \in Nat : k + 1 \in DOMAIN p.decls[e].names =>
              (p.decls[e].names[k + 1] = n <=> k = Tag(p, e, n))
PROOF
  <1> DEFINE names == p.decls[e].names
             c == CHOOSE i \in DOMAIN names : names[i] = n
  <1>1. names \in Seq(Name) /\ WellDeclared(p.decls[e])
    BY ProgramType
  <1>2. \E i \in DOMAIN names : names[i] = n
    BY DEF Declares
  <1>3. c \in DOMAIN names /\ names[c] = n
    BY <1>2
  <1>4. Tag(p, e, n) = c - 1
    BY DEF Tag
  <1> HIDE DEF c
  <1>5. c \in Nat /\ c >= 1
    BY <1>1, <1>3
  <1>6. \A i, j \in DOMAIN names : names[i] = names[j] => i = j
    BY <1>1 DEF WellDeclared
  <1>7. ASSUME NEW k \in Nat, k + 1 \in DOMAIN names
        PROVE  names[k + 1] = n <=> k = Tag(p, e, n)
    BY <1>3, <1>4, <1>5, <1>6, <1>7
  <1>8. Tag(p, e, n) \in Nat /\ Tag(p, e, n) + 1 = c
    BY <1>4, <1>5
  <1> QED
    BY <1>3, <1>7, <1>8

-----------------------------------------------------------------------------
(* The type checker *)

\* When some arm is a wildcard it means every value.
LEMMA WildcardMeans ==
  ASSUME NEW p, NEW pat, IsWildcard(p, pat), NEW v
  PROVE  Means(p, pat, v)
PROOF
  BY DEF IsWildcard, Means

\* The acceptance test is exact for a match whose patterns fit.
LEMMA CoverageExact ==
  ASSUME NEW p \in Programs,
         \A i \in DOMAIN p.arms : Fits(p, p.arms[i].pattern)
  PROVE  LET All == \A v \in Values(p) :
                      \E i \in DOMAIN p.arms : Means(p, p.arms[i].pattern, v)
         IN  (Exhaustive(p) => All) /\ (LitsLeft(p) /\ All => Exhaustive(p))
PROOF
  <1> DEFINE Wild1 == \E i \in DOMAIN p.arms : IsWildcard(p, p.arms[i].pattern)
             All == \A v \in Values(p) : \E i \in DOMAIN p.arms : Means(p, p.arms[i].pattern, v)
             Names == p.decls[p.subject.of].names
  <1>1. CASE Wild1
    BY <1>1, WildcardMeans DEF Exhaustive
  <1>2. CASE ~Wild1 /\ OnEnum(p)
    <2>1. Required(p) = {n \in Name : Declares(p, p.subject.of, n)}
      BY <1>2 DEF Required, OnEnum
    <2>2. Values(p) = [boxed : {HasSlots(p, p.subject.of)}, n : {i - 1 : i \in DOMAIN Names}]
      BY <1>2 DEF Values, OnEnum
    <2>3. Names \in Seq(Name)
      BY ProgramType
    <2>4. ASSUME NEW i \in DOMAIN p.arms, NEW w \in Name, NEW v, Names[v.n + 1] = w
          PROVE  Covers(p, p.arms[i].pattern, w) <=> Means(p, p.arms[i].pattern, v)
      <3>1. Fits(p, p.arms[i].pattern) /\ ~IsWildcard(p, p.arms[i].pattern)
        BY <1>2
      <3>2. p.arms[i].pattern.kind \in {"ident", "destructure"}
        BY <1>2, <3>1 DEF Fits, OnEnum, IsWildcard
      <3> QED
        BY <1>2, <2>4, <3>2 DEF Covers, Means
    <2>5. ASSUME Exhaustive(p), NEW v \in Values(p)
          PROVE  \E i \in DOMAIN p.arms : Means(p, p.arms[i].pattern, v)
      <3>1. PICK k \in DOMAIN Names : v.n = k - 1
        BY <2>2
      <3>2. v.n + 1 = k /\ Names[k] \in Name
        BY <2>3, <3>1
      <3>3. Names[k] \in Required(p)
        BY <2>1, <3>2 DEF Declares
      <3>4. PICK i \in DOMAIN p.arms : Covers(p, p.arms[i].pattern, Names[k])
        BY <1>2, <2>5, <3>3 DEF Exhaustive
      <3> QED
        BY <2>4, <3>2, <3>4
    <2>6. ASSUME All, NEW w \in Required(p)
          PROVE  \E i \in DOMAIN p.arms : Covers(p, p.arms[i].pattern, w)
      <3>1. w \in Name /\ Declares(p, p.subject.of, w)
        BY <2>1, <2>6
      <3>2. PICK k \in DOMAIN Names : Names[k] = w
        BY <3>1 DEF Declares
      <3> DEFINE v == [boxed |-> HasSlots(p, p.subject.of), n |-> k - 1]
      <3>3. v \in Values(p)
        BY <2>2
      <3>4. v.n + 1 = k
        <4>1. k \in Nat
          BY <2>3, <3>2
        <4> QED
          BY <4>1
      <3>5. PICK i \in DOMAIN p.arms : Means(p, p.arms[i].pattern, v)
        BY <2>6, <3>3
      <3> QED
        BY <2>4, <3>1, <3>2, <3>4, <3>5
    <2> QED
      BY <1>2, <2>5, <2>6 DEF Exhaustive
  <1>3. CASE ~Wild1 /\ p.subject.kind \in {"int", "str"}
    <2>1. Required(p) = {"_"} /\ Values(p) = [boxed : {FALSE}, n : Lit]
      BY <1>3 DEF Required, Values, OnEnum
    <2>2. ASSUME NEW i \in DOMAIN p.arms
          PROVE  p.arms[i].pattern.kind = p.subject.kind
      <3>1. Fits(p, p.arms[i].pattern) /\ ~IsWildcard(p, p.arms[i].pattern)
        BY <1>3
      <3> QED
        BY <1>3, <3>1 DEF Fits, OnEnum, IsWildcard
    <2>3. ~Exhaustive(p)
      BY <1>3, <2>1, <2>2 DEF Exhaustive, Covers
    <2>4. ASSUME LitsLeft(p)
          PROVE  ~All
      <3>1. PICK n \in Lit : \A i \in DOMAIN p.arms : p.arms[i].pattern.arg # n
        BY <2>4 DEF LitsLeft
      <3> DEFINE v == [boxed |-> FALSE, n |-> n]
      <3>2. v \in Values(p) /\ v.n = n
        BY <2>1
      <3>3. ASSUME NEW i \in DOMAIN p.arms
            PROVE  ~Means(p, p.arms[i].pattern, v)
        BY <1>3, <2>2, <3>1, <3>2 DEF Means, OnEnum
      <3> QED
        BY <3>2, <3>3
    <2> QED
      BY <2>3, <2>4
  <1>4. CASE ~Wild1 /\ p.subject.kind = "bool"
    <2>1. Required(p) = {"true", "false"} /\ Values(p) = [boxed : {FALSE}, n : {0, 1}]
      BY <1>4 DEF Required, Values, OnEnum
    <2>2. ASSUME NEW i \in DOMAIN p.arms
          PROVE  p.arms[i].pattern.kind = "bool"
      <3>1. Fits(p, p.arms[i].pattern) /\ ~IsWildcard(p, p.arms[i].pattern)
        BY <1>4
      <3> QED
        BY <1>4, <3>1 DEF Fits, OnEnum, IsWildcard
    <2> DEFINE B(n) == [boxed |-> FALSE, n |-> n]
    <2>3. /\ B(0) \in Values(p) /\ B(1) \in Values(p) /\ B(0).n = 0 /\ B(1).n = 1
          /\ \A v \in Values(p) : v.n \in {0, 1}
      <3>1. B(0) \in Values(p) /\ B(1) \in Values(p)
        BY <2>1
      <3>2. B(0).n = 0 /\ B(1).n = 1
        OBVIOUS
      <3>3. \A v \in Values(p) : v.n \in {0, 1}
        BY <2>1
      <3> HIDE DEF B
      <3> QED
        BY <3>1, <3>2, <3>3
    <2>4. ASSUME NEW i \in DOMAIN p.arms, NEW v \in Values(p)
          PROVE  /\ v.n = 1 => (Means(p, p.arms[i].pattern, v) <=> Covers(p, p.arms[i].pattern, "true"))
                 /\ v.n = 0 => (Means(p, p.arms[i].pattern, v) <=> Covers(p, p.arms[i].pattern, "false"))
      <3>1. p.arms[i].pattern.arg \in {0, 1}
        BY <2>2, ArmType
      <3> QED
        BY <1>4, <2>2, <3>1 DEF Means, Covers, OnEnum
    <2> HIDE DEF B
    <2> QED
      BY <1>4, <2>1, <2>3, <2>4 DEF Exhaustive
  <1>5. CASE ~Wild1 /\ p.subject.kind = "result"
    <2>1. Required(p) = {"ok", "err"} /\ Values(p) = [boxed : {TRUE}, n : {0, 1}]
      BY <1>5 DEF Required, Values, OnEnum
    <2>2. ASSUME NEW i \in DOMAIN p.arms
          PROVE  p.arms[i].pattern.kind \in {"ok", "err"}
      <3>1. Fits(p, p.arms[i].pattern) /\ ~IsWildcard(p, p.arms[i].pattern)
        BY <1>5
      <3> QED
        BY <1>5, <3>1 DEF Fits, OnEnum, IsWildcard
    <2> DEFINE B(n) == [boxed |-> TRUE, n |-> n]
    <2>3. /\ B(0) \in Values(p) /\ B(1) \in Values(p) /\ B(0).n = 0 /\ B(1).n = 1
          /\ \A v \in Values(p) : v.n \in {0, 1}
      <3>1. B(0) \in Values(p) /\ B(1) \in Values(p)
        BY <2>1
      <3>2. B(0).n = 0 /\ B(1).n = 1
        OBVIOUS
      <3>3. \A v \in Values(p) : v.n \in {0, 1}
        BY <2>1
      <3> HIDE DEF B
      <3> QED
        BY <3>1, <3>2, <3>3
    <2>4. ASSUME NEW i \in DOMAIN p.arms, NEW v \in Values(p)
          PROVE  /\ v.n = 0 => (Means(p, p.arms[i].pattern, v) <=> Covers(p, p.arms[i].pattern, "ok"))
                 /\ v.n = 1 => (Means(p, p.arms[i].pattern, v) <=> Covers(p, p.arms[i].pattern, "err"))
      BY <1>5, <2>2 DEF Means, Covers, OnEnum
    <2> HIDE DEF B
    <2> QED
      BY <1>5, <2>1, <2>3, <2>4 DEF Exhaustive
  <1>6. CASE ~Wild1 /\ p.subject.kind = "optional"
    <2>1. Required(p) = {"some", "none"} /\ Values(p) = [boxed : {TRUE}, n : {0, 1}]
      BY <1>6 DEF Required, Values, OnEnum
    <2>2. ASSUME NEW i \in DOMAIN p.arms
          PROVE  p.arms[i].pattern.kind \in {"some", "none"}
      <3>1. Fits(p, p.arms[i].pattern) /\ ~IsWildcard(p, p.arms[i].pattern)
        BY <1>6
      <3> QED
        BY <1>6, <3>1 DEF Fits, OnEnum, IsWildcard
    <2> DEFINE B(n) == [boxed |-> TRUE, n |-> n]
    <2>3. /\ B(0) \in Values(p) /\ B(1) \in Values(p) /\ B(0).n = 0 /\ B(1).n = 1
          /\ \A v \in Values(p) : v.n \in {0, 1}
      <3>1. B(0) \in Values(p) /\ B(1) \in Values(p)
        BY <2>1
      <3>2. B(0).n = 0 /\ B(1).n = 1
        OBVIOUS
      <3>3. \A v \in Values(p) : v.n \in {0, 1}
        BY <2>1
      <3> HIDE DEF B
      <3> QED
        BY <3>1, <3>2, <3>3
    <2>4. ASSUME NEW i \in DOMAIN p.arms, NEW v \in Values(p)
          PROVE  /\ v.n = 0 => (Means(p, p.arms[i].pattern, v) <=> Covers(p, p.arms[i].pattern, "none"))
                 /\ v.n = 1 => (Means(p, p.arms[i].pattern, v) <=> Covers(p, p.arms[i].pattern, "some"))
      BY <1>6, <2>2 DEF Means, Covers, OnEnum
    <2> HIDE DEF B
    <2> QED
      BY <1>6, <2>1, <2>3, <2>4 DEF Exhaustive
  <1> QED
    BY <1>1, <1>2, <1>3, <1>4, <1>5, <1>6, ProgramType DEF SubjectKind, OnEnum

\* What check_match accepts: the patterns fit and mean every value.
LEMMA AcceptedExact ==
  ASSUME NEW p \in Programs, LitsLeft(p), Values(p) # {}
  PROVE  Accepted(p) <=>
           /\ \A i \in DOMAIN p.arms : Fits(p, p.arms[i].pattern)
           /\ \A v \in Values(p) : \E i \in DOMAIN p.arms : Means(p, p.arms[i].pattern, v)
PROOF
  <1>1. p.arms = <<>> => DOMAIN p.arms = {}
    OBVIOUS
  <1> QED
    BY <1>1, CoverageExact DEF Accepted

-----------------------------------------------------------------------------
(* The back ends *)

\* An emitted test is of the right type when the match was accepted.
LEMMA TestType ==
  ASSUME NEW p \in Programs, NEW i \in DOMAIN p.arms, Fits(p, p.arms[i].pattern),
         NEW first \in Orders(p), NEW boxed \in BOOLEAN
  PROVE  TestOf(p, first, p.arms[i].pattern, boxed) \in Test
PROOF
  <1> DEFINE pat == p.arms[i].pattern
             t == TestOf(p, first, pat, boxed)
  <1>1. pat.kind \in PatternKind /\ pat.name \in Name /\ pat.arg \in Nat
    BY ArmType
  <1>2. ASSUME Known(p, pat.name)
        PROVE  Tag(p, first[pat.name], pat.name) \in Nat
    <2>1. first[pat.name] \in Enum /\ Declares(p, first[pat.name], pat.name)
      BY <1>1, <1>2 DEF Orders
    <2> QED
      BY <1>1, <2>1, TagIsIndex
  <1>3. CASE pat.kind = "wildcard" \/ (pat.kind = "ident" /\ ~Known(p, pat.name))
    BY <1>3 DEF TestOf, Always, Test
  <1>4. CASE pat.kind = "ident" /\ Known(p, pat.name)
    BY <1>2, <1>4 DEF TestOf, Bare, Boxed, Test
  <1>5. CASE pat.kind = "destructure"
    <2>1. Known(p, pat.name)
      BY <1>5, ProgramType DEF Fits, Known
    <2> QED
      BY <1>2, <1>5, <2>1 DEF TestOf, Boxed, Test
  <1>6. CASE pat.kind \in {"int", "str", "bool"}
    BY <1>1, <1>6 DEF TestOf, Bare, Test
  <1>7. CASE pat.kind \in {"ok", "err", "some", "none"}
    BY <1>7 DEF TestOf, Boxed, Test
  <1> QED
    BY <1>1, <1>3, <1>4, <1>5, <1>6, <1>7 DEF PatternKind

\* In a plain program a test that fits reads a tag only where there is one, and
\* holds of exactly the values its pattern means.
LEMMA TestMeans ==
  ASSUME NEW p \in Programs, Plain(p), NEW i \in DOMAIN p.arms, Fits(p, p.arms[i].pattern),
         NEW first \in Orders(p), NEW boxed \in BOOLEAN,
         p.arms[i].pattern.kind = "ident" /\ OnEnum(p) => boxed = HasSlots(p, p.subject.of),
         NEW v \in Values(p)
  PROVE  LET t == TestOf(p, first, p.arms[i].pattern, boxed)
         IN  /\ ~Wild(t, v)
             /\ Hit(t, v) <=> Means(p, p.arms[i].pattern, v)
PROOF
  <1> DEFINE pat == p.arms[i].pattern
             t == TestOf(p, first, pat, boxed)
             e == p.subject.of
  <1>1. pat.kind \in PatternKind /\ pat.name \in Name /\ pat.arg \in Nat /\ e \in Enum
    BY ArmType, ProgramType
  <1>2. CASE pat.kind = "wildcard" \/ (pat.kind = "ident" /\ ~OnEnum(p))
    <2>1. t = Always
      BY <1>2 DEF TestOf, Plain
    <2> QED
      BY <1>2, <2>1 DEF Always, Wild, Hit, Means
  <1>3. CASE pat.kind \in {"ident", "destructure"} /\ OnEnum(p)
    <2>1. Declares(p, e, pat.name) /\ Known(p, pat.name)
      BY <1>1, <1>3 DEF Fits, Known
    <2>2. first[pat.name] = e
      BY <1>1, <2>1 DEF Orders, Plain
    <2>3. /\ v.boxed = HasSlots(p, e)
          /\ \E k \in DOMAIN p.decls[e].names : v.n = k - 1
      BY <1>3 DEF Values, OnEnum
    <2>4. v.n \in Nat /\ v.n + 1 \in DOMAIN p.decls[e].names
      BY <1>1, <2>3, ProgramType
    <2>5. p.decls[e].names[v.n + 1] = pat.name <=> v.n = Tag(p, e, pat.name)
      BY <1>1, <2>1, <2>4, TagIsIndex
    <2>6. t = IF HasSlots(p, e) THEN Boxed(Tag(p, e, pat.name)) ELSE Bare(Tag(p, e, pat.name))
      BY <1>3, <2>1, <2>2 DEF TestOf, Plain
    <2>7. Means(p, pat, v) <=> v.n = Tag(p, e, pat.name)
      BY <1>3, <2>5 DEF Means
    <2>8. v.boxed \in BOOLEAN
      BY <2>3 DEF HasSlots
    <2> QED
      BY <2>3, <2>6, <2>7, <2>8 DEF Boxed, Bare, Wild, Hit
  <1>4. CASE pat.kind \in {"int", "str", "bool"}
    <2>1. p.subject.kind = pat.kind
      BY <1>4 DEF Fits
    <2>2. v.boxed = FALSE
      BY <1>4, <2>1 DEF Values, OnEnum
    <2>3. t = Bare(pat.arg)
      BY <1>4 DEF TestOf
    <2> QED
      BY <1>4, <2>2, <2>3 DEF Bare, Wild, Hit, Means
  <1>5. CASE pat.kind \in {"ok", "err", "some", "none"}
    <2>1. p.subject.kind \in {"result", "optional"}
      BY <1>5 DEF Fits
    <2>2. v.boxed = TRUE
      BY <2>1 DEF Values, OnEnum
    <2>3. t = IF pat.kind \in {"ok", "none"} THEN Boxed(0) ELSE Boxed(1)
      BY <1>5 DEF TestOf
    <2> QED
      BY <1>5, <2>2, <2>3 DEF Boxed, Wild, Hit, Means
  <1>6. pat.kind = "destructure" => OnEnum(p)
    BY DEF Fits
  <1> QED
    BY <1>1, <1>2, <1>3, <1>4, <1>5, <1>6 DEF PatternKind

-----------------------------------------------------------------------------
(* The inductive invariant *)

Emitted == phase \in {"compiled", "running", "done"}

\* The verdict of the type checker stands.
Verdict ==
  /\ phase = "rejected" => ~Accepted(program)
  /\ phase \in {"accepted"} \/ Emitted => Accepted(program)

\* Each test of the chain holds of what the pattern of its arm means, and the chain
\* is as long as the match or ends with an arm taken by every value that reaches it.
Faithful(p, tests) ==
  /\ \A i \in DOMAIN tests, v \in Values(p) :
       ~Wild(tests[i], v) /\ (Hit(tests[i], v) <=> Means(p, p.arms[i].pattern, v))
  /\ \/ Len(tests) = Len(p.arms)
     \/ /\ ~p.arms[Len(tests)].guarded
        /\ \A v \in Values(p) : Means(p, p.arms[Len(tests)].pattern, v)

ChainFaithful == Emitted /\ Plain(program) => Faithful(program, chain)

\* No arm that was passed suits.
Passed ==
  phase \in {"running", "done"} =>
    /\ value \in Values(program)
    /\ holds \in Guards(program)
    /\ Plain(program) => \A j \in 1 .. at - 1 : ~Suits(program, value, holds, j)

IInv ==
  /\ TypeOK
  /\ program \in Programs
  /\ phase \notin {"running", "done"} => at = 1
  /\ Verdict
  /\ ChainFaithful
  /\ Passed
  /\ ArmMeant

LEMMA CellType ==
  ASSUME NEW B, NEW S, B \subseteq BOOLEAN, S \subseteq Nat, NEW v \in [boxed : B, n : S]
  PROVE  v \in Cell
PROOF
  BY DEF Cell

\* Values are cells.
LEMMA ValueType ==
  ASSUME NEW p \in Programs, NEW v \in Values(p)
  PROVE  v \in Cell
PROOF
  <1>1. p.subject.kind \in SubjectKind /\ p.decls[p.subject.of].names \in Seq(Name)
    BY ProgramType
  <1>2. CASE OnEnum(p)
    <2>1. v \in [boxed : {HasSlots(p, p.subject.of)},
                 n : {i - 1 : i \in DOMAIN p.decls[p.subject.of].names}]
      BY <1>2 DEF Values, OnEnum
    <2>2. HasSlots(p, p.subject.of) \in BOOLEAN
      BY DEF HasSlots
    <2>3. {i - 1 : i \in DOMAIN p.decls[p.subject.of].names} \subseteq Nat
      <3> DEFINE names == p.decls[p.subject.of].names
      <3>0. names \in Seq(Name)
        BY <1>1
      <3> HIDE DEF names
      <3>1. DOMAIN names = 1 .. Len(names) /\ Len(names) \in Nat
        BY <3>0
      <3>2. {i - 1 : i \in DOMAIN names} \subseteq Nat
        BY <3>1
      <3> QED
        BY <3>2 DEF names
    <2> QED
      BY <2>1, <2>2, <2>3 DEF Cell
  <1>3. CASE p.subject.kind \in {"int", "str"}
    BY <1>3, LitAssumption DEF Values, OnEnum, Cell
  <1>4. CASE p.subject.kind = "bool"
    <2>1. v \in [boxed : {FALSE}, n : {0, 1}]
      BY <1>4 DEF Values, OnEnum
    <2>2. {FALSE} \subseteq BOOLEAN /\ {0, 1} \subseteq Nat
      OBVIOUS
    <2> QED
      BY ONLY <2>1, <2>2, CellType
  <1>5. CASE p.subject.kind \in {"result", "optional"}
    <2>1. v \in [boxed : {TRUE}, n : {0, 1}]
      BY <1>5 DEF Values, OnEnum
    <2>2. {TRUE} \subseteq BOOLEAN /\ {0, 1} \subseteq Nat
      OBVIOUS
    <2> QED
      BY ONLY <2>1, <2>2, CellType
  <1> QED
    BY <1>1, <1>2, <1>3, <1>4, <1>5 DEF SubjectKind, OnEnum

LEMMA InitIInv == Init => IInv
PROOF
  <1> SUFFICES ASSUME Init PROVE IInv
    OBVIOUS
  <1>1. program \in Programs /\ program \in Program /\ program.arms \in Seq(Arm)
    BY ProgramType DEF Init
  <1>2. TypeOK
    BY <1>1 DEF Init, TypeOK, NoCell, Cell, Ended, Test
  <1> QED
    BY <1>1, <1>2 DEF Init, IInv, Verdict, Emitted, ChainFaithful, Passed, ArmMeant

\* Type checking.
LEMMA CheckIInv == IInv /\ Check => IInv'
PROOF
  <1> SUFFICES ASSUME IInv, Check PROVE IInv'
    OBVIOUS
  <1>1. TypeOK'
    BY DEF IInv, Check, TypeOK
  <1>2. Verdict'
    BY DEF IInv, Check, Verdict, Emitted
  <1> QED
    BY <1>1, <1>2 DEF IInv, Check, Emitted, ChainFaithful, Passed, ArmMeant

\* Native code: the chain may stop at an unguarded arm that always matches.
LEMMA CompileNativeIInv ==
  ASSUME IInv, NEW first \in Orders(program), NEW k \in 0 .. Len(program.arms),
         CompileNative(first, k)
  PROVE  IInv'
PROOF
  <1> DEFINE arms == program.arms
             test(i) == NativeTest(program, first, arms[i].pattern)
             boxed == OnEnum(program) /\ HasSlots(program, program.subject.of)
  <1>1. program \in Programs /\ arms \in Seq(Arm) /\ Accepted(program) /\ at = 1
    BY ProgramType DEF IInv, CompileNative, Verdict
  <1>2. /\ k \in 1 .. Len(arms) /\ chain' = [i \in 1 .. k |-> test(i)]
        /\ k = Len(arms) \/ Stops(program, first, k)
        /\ phase' = "compiled" /\ program' = program /\ at' = 1
    BY <1>1 DEF CompileNative, EmittedUpTo
  <1>3. Len(chain') = k /\ DOMAIN chain' = 1 .. k
    BY <1>2
  <1>4. \A i \in DOMAIN arms : Fits(program, arms[i].pattern)
    BY <1>1 DEF Accepted
  <1>5. boxed \in BOOLEAN
    BY DEF HasSlots, OnEnum
  <1>6. ASSUME NEW i \in 1 .. k
        PROVE  chain'[i] \in Test
    <2>1. i \in DOMAIN arms
      BY <1>1, <1>2
    <2>2. TestOf(program, first, arms[i].pattern, boxed) \in Test
      BY <1>1, <1>4, <1>5, <2>1, TestType
    <2> QED
      BY <1>2, <2>2 DEF NativeTest
  <1>7. TypeOK'
    <2> HIDE DEF test, boxed
    <2>1. chain' \in Seq(Test) /\ chain' # <<>> /\ Len(chain') <= Len(program'.arms)
      BY <1>1, <1>2, <1>3, <1>6
    <2>2. at' \in 1 .. Len(chain') + 1
      BY <1>2, <1>3
    <2>3. /\ position' \in {"expression", "statement"}
          /\ value' = value /\ holds' = holds /\ outcome' = outcome
      BY DEF CompileNative
    <2> QED
      BY <1>2, <2>1, <2>2, <2>3 DEF IInv, TypeOK
  <1>8. ASSUME Plain(program), NEW i \in 1 .. k, NEW v \in Values(program)
        PROVE  ~Wild(test(i), v) /\ (Hit(test(i), v) <=> Means(program, arms[i].pattern, v))
    <2>1. i \in DOMAIN arms
      BY <1>1, <1>2
    <2>2. arms[i].pattern.kind = "ident" /\ OnEnum(program) =>
            boxed = HasSlots(program, program.subject.of)
      BY DEF HasSlots
    <2> HIDE DEF boxed
    <2>3. LET t == TestOf(program, first, arms[i].pattern, boxed)
          IN  ~Wild(t, v) /\ (Hit(t, v) <=> Means(program, arms[i].pattern, v))
      BY <1>1, <1>4, <1>5, <1>8, <2>1, <2>2, TestMeans
    <2> QED
      BY <2>3 DEF NativeTest, boxed
  <1>9. ASSUME Plain(program)
        PROVE  Faithful(program, chain')
    <2>1. CASE k = Len(arms)
      BY <1>2, <1>3, <1>8, <1>9, <2>1 DEF Faithful
    <2>2. CASE Stops(program, first, k)
      <3>1. ~arms[k].guarded /\ test(k) = Always
        BY <2>2 DEF Stops
      <3>2. \A v \in Values(program) : Hit(test(k), v)
        BY <3>1 DEF Hit, Always
      <3>3. \A v \in Values(program) : Means(program, arms[k].pattern, v)
        BY <1>2, <1>8, <1>9, <3>2
      <3> QED
        BY <1>2, <1>3, <1>8, <1>9, <3>1, <3>3 DEF Faithful
    <2> QED
      BY <1>2, <2>1, <2>2
  <1> QED
    BY <1>1, <1>2, <1>7, <1>9 DEF IInv, Verdict, Emitted, ChainFaithful, Passed, ArmMeant

\* WebAssembly: every arm is in the chain.
LEMMA CompileWasmIInv ==
  ASSUME IInv, NEW first \in Orders(program), NEW where \in {"expression", "statement"},
         CompileWasm(first, where)
  PROVE  IInv'
PROOF
  <1> DEFINE arms == program.arms
             test(i) == WasmTest(program, first, arms[i].pattern)
             boxed(i) == HasSlots(program, first[arms[i].pattern.name])
  <1>1. program \in Programs /\ arms \in Seq(Arm) /\ Accepted(program) /\ at = 1
    BY ProgramType DEF IInv, CompileWasm, Verdict
  <1>2. /\ chain' = [i \in 1 .. Len(arms) |-> test(i)]
        /\ phase' = "compiled" /\ program' = program /\ at' = 1
    BY <1>1 DEF CompileWasm
  <1>3. Len(chain') = Len(arms) /\ DOMAIN chain' = 1 .. Len(arms) /\ Len(arms) \in Nat /\ Len(arms) # 0
    BY <1>1, <1>2 DEF Accepted
  <1>4. \A i \in DOMAIN arms : Fits(program, arms[i].pattern)
    BY <1>1 DEF Accepted
  <1>5. \A i \in DOMAIN arms : boxed(i) \in BOOLEAN
    BY DEF HasSlots
  <1>6. ASSUME NEW i \in 1 .. Len(arms)
        PROVE  chain'[i] \in Test
    <2>1. i \in DOMAIN arms
      BY <1>1
    <2>2. TestOf(program, first, arms[i].pattern, boxed(i)) \in Test
      BY <1>1, <1>4, <1>5, <2>1, TestType
    <2> QED
      BY <1>2, <2>2 DEF WasmTest
  <1>7. TypeOK'
    <2>1. /\ Len(chain') <= Len(program'.arms) /\ at' \in 1 .. Len(chain') + 1 /\ chain' # <<>>
      BY <1>1, <1>2, <1>3
    <2>2. position' \in {"expression", "statement"}
      BY DEF CompileWasm
    <2>3. chain' \in [1 .. Len(arms) -> Test]
      <3> HIDE DEF test
      <3> QED
        BY <1>2, <1>6
    <2>4. chain' \in Seq(Test)
      BY <1>3, <2>3
    <2> QED
      BY <1>2, <2>1, <2>2, <2>4 DEF IInv, TypeOK, CompileWasm
  <1>8. ASSUME Plain(program), NEW i \in 1 .. Len(arms), NEW v \in Values(program)
        PROVE  ~Wild(test(i), v) /\ (Hit(test(i), v) <=> Means(program, arms[i].pattern, v))
    <2>1. i \in DOMAIN arms
      BY <1>1
    <2>2. ASSUME arms[i].pattern.kind = "ident", OnEnum(program)
          PROVE  boxed(i) = HasSlots(program, program.subject.of)
      <3>1. /\ arms[i].pattern.name \in Name /\ program.subject.of \in Enum
            /\ Declares(program, program.subject.of, arms[i].pattern.name)
        BY <1>1, <1>4, <2>1, <2>2, ArmType, ProgramType DEF Fits
      <3>2. Known(program, arms[i].pattern.name)
        BY <3>1 DEF Known
      <3>3. first[arms[i].pattern.name] = program.subject.of
        BY <1>8, <3>1, <3>2 DEF Orders, Plain
      <3> QED
        BY <3>3
    <2>3. boxed(i) \in BOOLEAN
      BY <1>5, <2>1
    <2> HIDE DEF boxed
    <2>4. LET t == TestOf(program, first, arms[i].pattern, boxed(i))
          IN  ~Wild(t, v) /\ (Hit(t, v) <=> Means(program, arms[i].pattern, v))
      BY <1>1, <1>4, <1>8, <2>1, <2>2, <2>3, TestMeans
    <2> QED
      BY <2>4 DEF WasmTest, boxed
  <1>9. ASSUME Plain(program)
        PROVE  Faithful(program, chain')
    BY <1>2, <1>3, <1>8, <1>9 DEF Faithful
  <1> QED
    BY <1>1, <1>2, <1>7, <1>9 DEF IInv, Verdict, Emitted, ChainFaithful, Passed, ArmMeant

\* A run begins: no arm was passed yet.
LEMMA StartIInv ==
  ASSUME IInv, NEW v \in Values(program), NEW g \in Guards(program), Start(v, g)
  PROVE  IInv'
PROOF
  <1>1. v \in Cell /\ g \in [DOMAIN program.arms -> BOOLEAN]
    BY ValueType DEF IInv, Guards
  <1>2. at = 1 /\ at' = 1
    BY DEF IInv, Start
  <1>3. TypeOK'
    BY <1>1 DEF IInv, TypeOK, Start
  <1>4. ChainFaithful' /\ Verdict'
    BY DEF IInv, Start, ChainFaithful, Verdict, Emitted
  <1>5. Passed'
    BY <1>2 DEF Start, Passed
  <1> QED
    BY <1>2, <1>3, <1>4, <1>5 DEF IInv, Start, ArmMeant

\* An arm is taken: its pattern means the value, its guard holds, and no earlier one suits.
LEMMA TakeArmIInv == IInv /\ TakeArm => IInv'
PROOF
  <1> SUFFICES ASSUME IInv, TakeArm PROVE IInv'
    OBVIOUS
  <1>1. /\ at \in Nat /\ at >= 1 /\ at <= Len(chain) /\ Len(chain) <= Len(program.arms)
        /\ chain \in Seq(Test)
        /\ program \in Programs /\ program.arms \in Seq(Arm) /\ phase = "running"
    BY ProgramType DEF IInv, TypeOK, TakeArm, Trying
  <1>2. TypeOK'
    BY <1>1 DEF IInv, TypeOK, TakeArm, End, Ended
  <1>3. ChainFaithful' /\ Verdict' /\ Passed'
    BY <1>1 DEF IInv, TakeArm, End, ChainFaithful, Verdict, Passed, Emitted, Faithful
  <1>4. ASSUME Plain(program)
        PROVE  Chosen(program, value, holds, at)
    <2>1. at \in DOMAIN program.arms /\ at \in DOMAIN chain
      BY <1>1
    <2> QED
      BY <1>1, <1>4, <2>1 DEF IInv, TakeArm, ChainFaithful, Faithful, Emitted, Passed, Chosen, Suits
  <1>5. ArmMeant'
    BY <1>4 DEF TakeArm, End, Ended, ArmMeant
  <1> QED
    BY <1>1, <1>2, <1>3, <1>5 DEF IInv, TakeArm, End

\* The next arm is tried: the one passed does not suit.
LEMMA NextArmIInv == IInv /\ NextArm => IInv'
PROOF
  <1> SUFFICES ASSUME IInv, NextArm PROVE IInv'
    OBVIOUS
  <1>1. /\ at \in Nat /\ at >= 1 /\ at <= Len(chain) /\ Len(chain) <= Len(program.arms)
        /\ chain \in Seq(Test)
        /\ program \in Programs /\ phase = "running" /\ at' = at + 1
    BY DEF IInv, TypeOK, NextArm, Trying
  <1>2. TypeOK'
    BY <1>1 DEF IInv, TypeOK, NextArm
  <1>3. ChainFaithful' /\ Verdict'
    BY <1>1 DEF IInv, NextArm, ChainFaithful, Verdict, Emitted, Faithful
  <1>4. ASSUME Plain(program)
        PROVE  ~Suits(program, value, holds, at)
    BY <1>1, <1>4 DEF IInv, NextArm, ChainFaithful, Faithful, Emitted, Passed, Suits
  <1>5. Passed'
    <2>1. ASSUME Plain(program), NEW j \in 1 .. at' - 1
          PROVE  ~Suits(program, value, holds, j)
      <3>1. j = at \/ j \in 1 .. at - 1
        BY <1>1
      <3> QED
        BY <1>1, <1>4, <2>1, <3>1 DEF IInv, Passed
    <2> QED
      BY <1>1, <2>1 DEF IInv, Passed, NextArm
  <1> QED
    BY <1>1, <1>2, <1>3, <1>5 DEF IInv, NextArm, ArmMeant

\* A tag is never read from a bare value of a plain program.
LEMMA WildReadIInv == IInv /\ WildRead => IInv'
PROOF
  <1> SUFFICES ASSUME IInv, WildRead PROVE IInv'
    OBVIOUS
  <1>1. /\ at \in Nat /\ at >= 1 /\ at <= Len(chain) /\ program \in Programs /\ phase = "running"
        /\ chain \in Seq(Test)
    BY DEF IInv, TypeOK, WildRead, Trying
  <1>2. TypeOK'
    BY <1>1 DEF IInv, TypeOK, WildRead, End, Ended
  <1>3. ChainFaithful' /\ Verdict' /\ Passed'
    BY <1>1 DEF IInv, WildRead, End, ChainFaithful, Verdict, Passed, Emitted, Faithful
  <1>4. ~Plain(program)
    BY <1>1 DEF IInv, WildRead, ChainFaithful, Faithful, Emitted, Passed
  <1> QED
    BY <1>1, <1>2, <1>3, <1>4 DEF IInv, WildRead, End, ArmMeant

\* Falling through: every arm of the match was passed.
LEMMA FallThroughIInv == IInv /\ FallThrough => IInv'
PROOF
  <1> SUFFICES ASSUME IInv, FallThrough PROVE IInv'
    OBVIOUS
  <1>1. /\ at \in Nat /\ at >= 1 /\ at = Len(chain) + 1 /\ Len(chain) \in Nat /\ chain # <<>>
        /\ program \in Programs /\ program.arms \in Seq(Arm) /\ phase = "running"
    BY ProgramType DEF IInv, TypeOK, FallThrough
  <1>2. TypeOK'
    BY <1>1 DEF IInv, TypeOK, FallThrough, End, Ended
  <1>3. ChainFaithful' /\ Verdict' /\ Passed'
    BY <1>1 DEF IInv, FallThrough, End, ChainFaithful, Verdict, Passed, Emitted, Faithful
  <1>4. ASSUME Plain(program), NEW i \in DOMAIN program.arms
        PROVE  ~Suits(program, value, holds, i)
    <2>1. /\ Faithful(program, chain) /\ value \in Values(program) /\ holds \in Guards(program)
          /\ \A j \in 1 .. Len(chain) : ~Suits(program, value, holds, j)
      BY <1>1, <1>4 DEF IInv, ChainFaithful, Emitted, Passed
    <2>2. Len(chain) \in 1 .. Len(program.arms)
      BY <1>1 DEF IInv, TypeOK
    <2>3. CASE Len(chain) = Len(program.arms)
      BY <1>1, <2>1, <2>3
    <2>4. CASE /\ ~program.arms[Len(chain)].guarded
               /\ \A v \in Values(program) : Means(program, program.arms[Len(chain)].pattern, v)
      <3>1. Len(chain) \in DOMAIN program.arms
        BY <1>1, <2>2
      <3>2. holds[Len(chain)]
        BY <2>1, <2>4, <3>1 DEF Guards
      <3>3. Suits(program, value, holds, Len(chain))
        BY <2>1, <2>4, <3>2 DEF Suits
      <3> QED
        BY <2>1, <2>2, <3>3
    <2> QED
      BY <2>1, <2>3, <2>4 DEF Faithful
  <1>5. \E i \in DOMAIN program.arms : Means(program, program.arms[i].pattern, value)
    <2>1. Accepted(program) /\ value \in Values(program)
      BY <1>1 DEF IInv, Verdict, Emitted, Passed
    <2> QED
      BY <1>1, <2>1, CoverageExact DEF Accepted
  <1>6. ArmMeant'
    BY <1>4, <1>5 DEF FallThrough, End, Ended, ArmMeant
  <1> QED
    BY <1>1, <1>2, <1>3, <1>6 DEF IInv, FallThrough, End

\* Every step preserves the invariant.
LEMMA NextIInv == IInv /\ [Next]_vars => IInv'
PROOF
  <1> SUFFICES ASSUME IInv, [Next]_vars PROVE IInv'
    OBVIOUS
  <1>1. CASE Check
    BY <1>1, CheckIInv
  <1>2. CASE \E first \in Orders(program), k \in 0 .. Len(program.arms) : CompileNative(first, k)
    BY <1>2, CompileNativeIInv
  <1>3. CASE \E first \in Orders(program), where \in {"expression", "statement"} :
               CompileWasm(first, where)
    BY <1>3, CompileWasmIInv
  <1>4. CASE \E v \in Values(program), g \in Guards(program) : Start(v, g)
    BY <1>4, StartIInv
  <1>5. CASE TakeArm
    BY <1>5, TakeArmIInv
  <1>6. CASE NextArm
    BY <1>6, NextArmIInv
  <1>7. CASE WildRead
    BY <1>7, WildReadIInv
  <1>8. CASE FallThrough
    BY <1>8, FallThroughIInv
  <1>9. CASE UNCHANGED vars
    BY <1>9 DEF vars, IInv, TypeOK, Verdict, Emitted, ChainFaithful, Faithful, Passed, ArmMeant
  <1> QED
    BY <1>1, <1>2, <1>3, <1>4, <1>5, <1>6, <1>7, <1>8, <1>9 DEF Next

THEOREM Invariance == Spec => []IInv
PROOF
  BY InitIInv, NextIInv, PTL DEF Spec

-----------------------------------------------------------------------------
(* Theorems *)

\* Type correctness: in particular the chain of an accepted match is never empty, and
\* never longer than the match.
THEOREM TypeCorrect == Spec => []TypeOK
PROOF
  <1>1. IInv => TypeOK
    BY DEF IInv
  <1> QED
    BY <1>1, Invariance, PTL

\* Whatever enums a program declares, both back ends take the arm the source means,
\* and an accepted match falls through only where a guard failed.
THEOREM TakesMeantArm == Spec => []ArmMeant
PROOF
  <1>1. IInv => ArmMeant
    BY DEF IInv
  <1> QED
    BY <1>1, Invariance, PTL

\* check_match accepts exactly the matches that fit their subject and cover its values.
THEOREM AcceptsExactly == Spec => []ExhaustiveExact
PROOF
  <1>1. IInv => ExhaustiveExact
    <2> SUFFICES ASSUME IInv, phase # "source", LitsLeft(program), Values(program) # {}
                 PROVE  phase # "rejected" <=> Accepted(program)
      BY AcceptedExact DEF IInv, ExhaustiveExact
    <2> QED
      BY DEF IInv, TypeOK, Verdict, Emitted
  <1> QED
    BY <1>1, Invariance, PTL

-----------------------------------------------------------------------------
(* Sequences. *)

LEMMA Concatenation ==
  ASSUME NEW S, NEW a \in Seq(S), NEW b \in Seq(S), NEW c \in Seq(S), NEW x \in S
  PROVE  /\ (a \o b) \o c = a \o (b \o c)
         /\ <<>> \o a = a /\ a \o <<>> = a
         /\ Append(a, x) = a \o <<x>>
         /\ a \o b \in Seq(S) /\ <<x>> \in Seq(S) /\ <<>> \in Seq(S)
<1>1. (a \o b) \o c = a \o (b \o c)
  OBVIOUS
<1>2. <<>> \o a = a /\ a \o <<>> = a
  OBVIOUS
<1>3. <<x>> \in Seq(S) /\ <<>> \in Seq(S) /\ a \o b \in Seq(S)
  OBVIOUS
<1>4. Append(a, x) = a \o <<x>>
  OBVIOUS
<1> QED
  BY <1>1, <1>2, <1>3, <1>4

LEMMA ConcatenationAt ==
  ASSUME NEW S, NEW a \in Seq(S), NEW b \in Seq(S)
  PROVE  /\ a \o b \in Seq(S) /\ Len(a \o b) = Len(a) + Len(b)
         /\ \A i \in 1 .. Len(a) : (a \o b)[i] = a[i]
         /\ \A i \in 1 .. Len(b) : (a \o b)[i + Len(a)] = b[i]
OBVIOUS

LEMMA Prefixed ==
  ASSUME NEW S, NEW a \in Seq(S), NEW x \in S
  PROVE  /\ <<x>> \o a \in Seq(S)
         /\ <<x>> \o a # <<>>
         /\ Head(<<x>> \o a) = x /\ (<<x>> \o a)[1] = x
         /\ Tail(<<x>> \o a) = a
         /\ Len(<<x>> \o a) = Len(a) + 1
         /\ \A i \in 1 .. Len(a) : (<<x>> \o a)[i + 1] = a[i]
<1> DEFINE s == <<x>> \o a
<1>1. s \in Seq(S) /\ Len(s) = Len(a) + 1 /\ s[1] = x /\ \A i \in 1 .. Len(a) : s[i + 1] = a[i]
  OBVIOUS
<1>2. s # <<>> /\ Head(s) = x
  BY <1>1
<1>3. Tail(s) = a
  <2>1. Tail(s) \in Seq(S) /\ Len(Tail(s)) = Len(a) /\ \A i \in 1 .. Len(a) : Tail(s)[i] = s[i + 1]
    BY <1>1, <1>2
  <2> QED
    BY <1>1, <2>1
<1> QED
  BY <1>1, <1>2, <1>3

LEMMA Uncons ==
  ASSUME NEW S, NEW s \in Seq(S), s # <<>>
  PROVE  /\ Head(s) \in S /\ Tail(s) \in Seq(S) /\ s = <<Head(s)>> \o Tail(s)
         /\ Len(s) \in Nat \ {0} /\ Len(Tail(s)) = Len(s) - 1 /\ s[1] = Head(s)
         /\ \A i \in 1 .. Len(s) - 1 : Tail(s)[i] = s[i + 1]
<1>1. Head(s) \in S /\ Tail(s) \in Seq(S) /\ Len(s) \in Nat \ {0} /\ Len(Tail(s)) = Len(s) - 1 /\ s[1] = Head(s)
         /\ \A i \in 1 .. Len(s) - 1 : Tail(s)[i] = s[i + 1]
  OBVIOUS
<1> DEFINE t == <<Head(s)>> \o Tail(s)
<1>2. t \in Seq(S) /\ Len(t) = Len(s) /\ t[1] = Head(s) /\ \A i \in 1 .. Len(s) - 1 : t[i + 1] = s[i + 1]
  BY <1>1, Prefixed
<1>3. ASSUME NEW i \in 1 .. Len(s) PROVE t[i] = s[i]
  <2>1. i = 1 \/ (i - 1 \in 1 .. Len(s) - 1 /\ i = (i - 1) + 1)
    BY <1>1
  <2> QED
    BY <1>1, <1>2, <2>1
<1>4. t = s
  BY <1>1, <1>2, <1>3
<1> QED
  BY <1>1, <1>4

-----------------------------------------------------------------------------
(* Recursive functions over an interval. *)

LEMMA Least ==
  ASSUME NEW S \in SUBSET Nat, S # {}
  PROVE  \E m \in S : \A k \in S : m <= k
<1> DEFINE R == {ss \in Nat \X Nat : ss[1] < ss[2]}
<1>1. IsWellFoundedOn(R, Nat)
  BY NatLessThanWellFounded DEF OpToRel
<1>2. \A x, y \in Nat : <<y, x>> \in R <=> y < x
  OBVIOUS
<1> HIDE DEF R
<1>3. PICK x \in S : \A y \in S : ~ (<<y, x>> \in R)
  BY <1>1, WFMin
<1>4. ASSUME NEW y \in S PROVE x <= y
  <2>1. x \in Nat /\ y \in Nat
    BY <1>3
  <2>2. ~ (y < x)
    BY <1>2, <1>3, <2>1
  <2> QED
    BY <2>1, <2>2
<1> QED
  BY <1>3, <1>4

\* What holds at 0 and goes on from each number to the next holds up to n.
LEMMA Upward ==
  ASSUME NEW n \in Nat, NEW T, 0 \in T, \A i \in 1 .. n : i - 1 \in T => i \in T
  PROVE  \A i \in 0 .. n : i \in T
<1> DEFINE S == {i \in 0 .. n : i \notin T}
<1>1. SUFFICES ASSUME S # {} PROVE FALSE
  OBVIOUS
<1>2. PICK m \in S : \A k \in S : m <= k
  <2>1. S \in SUBSET Nat
    OBVIOUS
  <2> HIDE DEF S
  <2> QED
    BY <1>1, <2>1, Least
<1>3. m \in 1 .. n /\ m - 1 \in 0 .. n /\ ~ (m <= m - 1)
  BY <1>2
<1>4. m - 1 \in T
  BY <1>2, <1>3
<1> QED
  BY <1>2, <1>3, <1>4

\* f is a, and then what each step makes of it.
Steps(f, X, a, n, step) ==
  f \in [0 .. n -> X] /\ f[0] = a /\ \A i \in 1 .. n : f[i] = step[i][f[i - 1]]

\* There is such a function.
LEMMA Stepped ==
  ASSUME NEW X, NEW a, NEW n, NEW step, a \in X, n \in Nat, step \in [1 .. n -> [X -> X]]
  PROVE  \E f : Steps(f, X, a, n, step)
<1> DEFINE Runs0(m) == {f \in [0 .. m -> X] : f[0] = a /\ \A i \in 1 .. m : f[i] = step[i][f[i - 1]]}
           T == {m \in 0 .. n : Runs0(m) # {}}
<1>1. 0 \in T
  <2>1. [i \in 0 .. 0 |-> a] \in Runs0(0)
    OBVIOUS
  <2> QED
    BY <2>1
<1>2. ASSUME NEW m \in 1 .. n, m - 1 \in T
      PROVE  m \in T
  <2>1. PICK f : f \in Runs0(m - 1)
    BY <1>2
  <2>2. m - 1 \in Nat /\ m - 1 \in 0 .. m - 1 /\ f[m - 1] \in X
    BY <2>1
  <2> DEFINE g == [i \in 0 .. m |-> IF i = m THEN step[m][f[m - 1]] ELSE f[i]]
  <2>3. g \in [0 .. m -> X]
    BY <2>1, <2>2
  <2>4. g[0] = a
    BY <2>1, <2>2
  <2>5. ASSUME NEW i \in 1 .. m PROVE g[i] = step[i][g[i - 1]]
    <3>1. CASE i = m
      BY <2>2, <3>1
    <3>2. CASE i # m
      <4>1. i \in 1 .. m - 1 /\ i \in 0 .. m /\ i - 1 \in 0 .. m /\ i - 1 # m
        BY <3>2
      <4>2. g[i] = f[i] /\ g[i - 1] = f[i - 1]
        BY <3>2, <4>1
      <4> QED
        BY <2>1, <4>1, <4>2
    <3> QED
      BY <3>1, <3>2
  <2>6. g \in Runs0(m)
    BY <2>3, <2>4, <2>5
  <2> QED
    BY <2>6
<1>3. n \in T
  <2>1. \A i \in 0 .. n : i \in T
    <3> HIDE DEF T
    <3> QED
      BY <1>1, <1>2, Upward
  <2> QED
    BY <2>1
<1> QED
  BY <1>3 DEF Steps

-----------------------------------------------------------------------------
(* Functions, blocks and parts. *)

LEMMA FunctionType ==
  ASSUME NEW f \in Functions
  PROVE  /\ f.void \in BOOLEAN /\ f.blocks \in Seq(Block)
         /\ 1 \in DOMAIN f.blocks
         /\ \A b \in DOMAIN f.blocks :
              Parts(f, b) \in Seq(Part) /\ f.blocks[b].tailed \in BOOLEAN
<1>1. f \in Function /\ WellNested(f)
  BY FunctionsAssumption
<1>2. f.void \in BOOLEAN /\ f.blocks \in Seq(Block) /\ f.blocks # <<>>
  BY <1>1 DEF Function, WellNested
<1>3. 1 \in DOMAIN f.blocks
  BY <1>2
<1>4. \A b \in DOMAIN f.blocks : f.blocks[b] \in Block
  BY <1>2
<1> QED
  BY <1>2, <1>3, <1>4 DEF Block, Parts

LEMMA PartType ==
  ASSUME NEW f \in Functions, NEW b \in DOMAIN f.blocks, NEW i \in DOMAIN Parts(f, b)
  PROVE  /\ Parts(f, b)[i] \in Part
         /\ Parts(f, b)[i].k \in PartKind
         /\ Parts(f, b)[i].n \in Nat /\ Parts(f, b)[i].then \in Nat /\ Parts(f, b)[i].else \in Nat
         /\ Parts(f, b)[i].k \in {"if", "while", "block"} =>
              /\ Parts(f, b)[i].then \in DOMAIN f.blocks
              /\ Parts(f, b)[i].then > b /\ Parts(f, b)[i].then <= Len(f.blocks)
         /\ Parts(f, b)[i].k = "if" /\ Parts(f, b)[i].else # 0 =>
              /\ Parts(f, b)[i].else \in DOMAIN f.blocks
              /\ Parts(f, b)[i].else > b /\ Parts(f, b)[i].else <= Len(f.blocks)
         /\ Parts(f, b)[i].k \notin {"if", "while", "block"} => Parts(f, b)[i].then = 0
         /\ IsTail(f, b, i) => Parts(f, b)[i].k \notin {"defer", "return"}
<1>1. f \in Function /\ WellNested(f)
  BY FunctionsAssumption
<1>2. f.blocks \in Seq(Block) /\ Parts(f, b) \in Seq(Part)
  BY FunctionType
<1>3. Parts(f, b)[i] \in Part
  BY <1>2
<1> DEFINE p == Parts(f, b)[i]
           inside == (b + 1) .. Len(f.blocks)
<1>4. p.k \in PartKind /\ p.n \in Nat /\ p.then \in Nat /\ p.else \in Nat
  BY <1>3 DEF Part
<1>5. /\ p.k \in {"if", "while", "block"} => p.then \in inside
      /\ p.k \notin {"if", "while", "block"} => p.then = 0
      /\ p.k = "if" => p.else \in inside \cup {0}
  BY <1>1 DEF WellNested
<1>6. b \in Nat /\ b >= 1 /\ Len(f.blocks) \in Nat /\ DOMAIN f.blocks = 1 .. Len(f.blocks)
  BY <1>2
<1>7. \A d \in inside : d \in DOMAIN f.blocks /\ d > b /\ d <= Len(f.blocks)
  BY <1>6
<1>8. IsTail(f, b, i) => p.k \notin {"defer", "return"}
  BY <1>1 DEF WellNested, IsTail
<1> QED
  BY <1>3, <1>4, <1>5, <1>7, <1>8

\* The deferred expressions among the first parts, part by part.
LEMMA DeferredSteps ==
  ASSUME NEW parts \in Seq(Part)
  PROVE  /\ \A j \in 0 .. Len(parts) : Deferred(parts, j) \in Seq(Nat)
         /\ Deferred(parts, 0) = <<>>
         /\ \A j \in 1 .. Len(parts) :
              Deferred(parts, j) = (IF parts[j].k = "defer" THEN <<parts[j].n>> ELSE <<>>)
                                     \o Deferred(parts, j - 1)
<1> DEFINE n == Len(parts)
           first(j) == IF parts[j].k = "defer" THEN <<parts[j].n>> ELSE <<>>
           step == [j \in 1 .. n |-> [s \in Seq(Nat) |-> first(j) \o s]]
           Body(d) == [j \in 0 .. n |-> IF j = 0 THEN <<>> ELSE first(j) \o d[j - 1]]
           deferred == CHOOSE d : d = Body(d)
<1>0. n \in Nat /\ \A j \in 1 .. n : first(j) \in Seq(Nat)
  <2>1. \A j \in 1 .. n : parts[j] \in Part
    OBVIOUS
  <2> QED
    BY <2>1 DEF Part
<1>1. step \in [1 .. n -> [Seq(Nat) -> Seq(Nat)]]
  <2> HIDE DEF first, n
  <2>1. \A j \in 1 .. n : \A s \in Seq(Nat) : first(j) \o s \in Seq(Nat)
    BY <1>0
  <2> QED
    BY <2>1
<1>2. PICK g : g \in [0 .. n -> Seq(Nat)] /\ g[0] = <<>> /\ \A j \in 1 .. n : g[j] = step[j][g[j - 1]]
  <2> DEFINE Y == Seq(Nat)
             a == <<>>
  <2>1. n \in Nat /\ step \in [1 .. n -> [Y -> Y]] /\ a \in Y
    BY <1>0, <1>1
  <2> HIDE DEF step, n, Y, a
  <2>2. \E g : Steps(g, Y, a, n, step)
    BY <2>1, Stepped
  <2> QED
    BY <2>2 DEF Y, a, Steps
<1>3. ASSUME NEW j \in 1 .. n PROVE g[j] = first(j) \o g[j - 1]
  <2> HIDE DEF first
  <2>1. j - 1 \in 0 .. n
    BY <1>0
  <2> QED
    BY <1>2, <2>1
<1>4. g = Body(g)
  <2> HIDE DEF first, step
  <2>1. \A j \in 0 .. n : j = 0 \/ j \in 1 .. n
    BY <1>0
  <2>2. \A j \in 0 .. n : g[j] = Body(g)[j]
    BY <1>2, <1>3, <2>1
  <2> QED
    BY <1>2, <2>2
<1>5. deferred = Body(deferred)
  <2> HIDE DEF Body
  <2> QED
    BY <1>4
<1>6. deferred[0] = <<>> /\ \A j \in 1 .. n : deferred[j] = first(j) \o deferred[j - 1]
  <2>1. 0 \in 0 .. n /\ \A i \in 1 .. n : i \in 0 .. n /\ i # 0
    BY <1>0
  <2>2. \A i \in 0 .. n : deferred[i] = Body(deferred)[i]
    BY <1>5
  <2> HIDE DEF deferred, first
  <2> QED
    BY <2>1, <2>2
<1>7. \A j : Deferred(parts, j) = deferred[j]
  BY DEF Deferred
<1>8. \A j \in 0 .. n : deferred[j] \in Seq(Nat)
  <2> DEFINE T == {j \in 0 .. n : deferred[j] \in Seq(Nat)}
  <2> HIDE DEF deferred, first
  <2>1. 0 \in T
    <3>1. deferred[0] \in Seq(Nat)
      BY <1>6
    <3> QED
      BY <1>0, <3>1
  <2>2. ASSUME NEW j \in 1 .. n, j - 1 \in T PROVE j \in T
    <3>1. deferred[j] = first(j) \o deferred[j - 1] /\ first(j) \in Seq(Nat)
      BY <1>0, <1>6
    <3>2. deferred[j - 1] \in Seq(Nat)
      BY <2>2
    <3>3. first(j) \o deferred[j - 1] \in Seq(Nat)
      BY <3>1, <3>2
    <3>4. deferred[j] \in Seq(Nat)
      BY <3>1, <3>3
    <3>5. j \in 0 .. n
      BY <1>0
    <3> QED
      BY <3>4, <3>5
  <2>3. \A j \in 0 .. n : j \in T
    <3> HIDE DEF T
    <3> QED
      BY <1>0, <2>1, <2>2, Upward
  <2> QED
    BY <2>3
<1> HIDE DEF deferred
<1> QED
  BY <1>6, <1>7, <1>8

\* What follows a part depends on the blocks nested in it alone.
LEMMA DiesNested ==
  ASSUME NEW f \in Functions, NEW b \in DOMAIN f.blocks, NEW i \in DOMAIN Parts(f, b),
         NEW g, NEW h, \A d \in DOMAIN f.blocks : d > b => g[d] = h[d]
  PROVE  DiesIn(g, Parts(f, b)[i]) <=> DiesIn(h, Parts(f, b)[i])
<1> DEFINE p == Parts(f, b)[i]
<1>1. p.k \in {"if", "while", "block"} => g[p.then] = h[p.then]
  BY PartType
<1>2. p.k = "if" /\ p.else # 0 => g[p.else] = h[p.else]
  BY PartType
<1> HIDE DEF p
<1>3. DiesIn(g, p) <=> DiesIn(h, p)
  BY <1>1, <1>2 DEF DiesIn
<1> QED
  BY <1>3 DEF p

\* A block dies when one of its parts does.
LEMMA BlockDies ==
  ASSUME NEW f \in Functions, NEW b \in DOMAIN f.blocks
  PROVE  BlocksDying(f)[b] <=> \E i \in DOMAIN Parts(f, b) : Dies(f, Parts(f, b)[i])
<1> DEFINE N == Len(f.blocks)
           dies(g, d) == \E i \in DOMAIN Parts(f, d) : DiesIn(g, Parts(f, d)[i])
           Body(g) == [d \in DOMAIN f.blocks |-> dies(g, d)]
           Good(g, m) == /\ g \in [1 .. N -> BOOLEAN]
                         /\ \A d \in 1 .. N : d > N - m => g[d] = dies(g, d)
           T == {m \in 0 .. N : \E g : Good(g, m)}
           dying == CHOOSE g : g = Body(g)
<1>1. N \in Nat /\ DOMAIN f.blocks = 1 .. N
  BY FunctionType
<1>2. 0 \in T
  <2> DEFINE g == [d \in 1 .. N |-> FALSE]
  <2> HIDE DEF dies
  <2>1. g \in [1 .. N -> BOOLEAN]
    OBVIOUS
  <2>2. \A d \in 1 .. N : ~ (d > N - 0)
    BY <1>1
  <2>3. Good(g, 0)
    BY <2>1, <2>2
  <2> HIDE DEF Good, g
  <2>4. 0 \in 0 .. N
    BY <1>1
  <2> QED
    BY <2>3, <2>4
<1>3. ASSUME NEW m \in 1 .. N, m - 1 \in T PROVE m \in T
  <2>1. PICK g : Good(g, m - 1)
    BY <1>3
  <2> DEFINE e == N - m + 1
             h == [g EXCEPT ![e] = dies(g, e)]
  <2>2. e \in 1 .. N
    BY <1>1
  <2>3. g \in [1 .. N -> BOOLEAN] /\ \A d \in 1 .. N : d > N - (m - 1) => g[d] = dies(g, d)
    BY <2>1
  <2> HIDE DEF dies
  <2>4. dies(g, e) \in BOOLEAN
    BY DEF dies
  <2>5. h \in [1 .. N -> BOOLEAN] /\ h[e] = dies(g, e) /\ \A d \in 1 .. N : d # e => h[d] = g[d]
    BY <2>2, <2>3, <2>4
  <2> HIDE DEF h
  <2>6. ASSUME NEW d \in 1 .. N, d >= e PROVE dies(h, d) = dies(g, d)
    <3>1. \A x \in DOMAIN f.blocks : x > d => g[x] = h[x]
      BY <1>1, <2>2, <2>5, <2>6
    <3>2. \A i \in DOMAIN Parts(f, d) : DiesIn(g, Parts(f, d)[i]) <=> DiesIn(h, Parts(f, d)[i])
      BY <1>1, <3>1, DiesNested
    <3> QED
      BY <3>2 DEF dies
  <2>7. ASSUME NEW d \in 1 .. N, d > N - m PROVE h[d] = dies(h, d)
    <3>1. d >= e
      BY <1>1, <2>2, <2>7
    <3>2. CASE d = e
      BY <2>5, <2>6, <3>1, <3>2
    <3>3. CASE d # e
      <4>1. d > N - (m - 1)
        BY <1>1, <3>1, <3>3
      <4> QED
        BY <2>3, <2>5, <2>6, <3>1, <3>3, <4>1
    <3> QED
      BY <3>2, <3>3
  <2>8. Good(h, m)
    BY <2>5, <2>7
  <2>9. m \in 0 .. N
    BY <1>1
  <2> QED
    BY <2>8, <2>9
<1>4. N \in T
  <2>1. \A m \in 0 .. N : m \in T
    <3> HIDE DEF T
    <3> QED
      BY <1>1, <1>2, <1>3, Upward
  <2>2. N \in 0 .. N
    BY <1>1
  <2> HIDE DEF T
  <2> QED
    BY <2>1, <2>2
<1>5. PICK g : Good(g, N)
  BY <1>4
<1>6. g = Body(g)
  <2> HIDE DEF dies
  <2>1. \A d \in 1 .. N : d > N - N
    BY <1>1
  <2>2. g \in [1 .. N -> BOOLEAN] /\ \A d \in 1 .. N : g[d] = dies(g, d)
    BY <1>5, <2>1
  <2> QED
    BY <1>1, <2>2
<1>7. dying = Body(dying)
  <2> HIDE DEF Body
  <2> QED
    BY <1>6
<1>8. dying[b] = dies(dying, b)
  <2> HIDE DEF dying, dies
  <2> QED
    BY <1>7
<1>9. BlocksDying(f) = dying
  BY DEF BlocksDying
<1> HIDE DEF dying
<1> QED
  BY <1>8, <1>9 DEF Dies

-----------------------------------------------------------------------------
(* Instructions and the code of a part. *)

LEMMA ContextType ==
  ASSUME NEW kind \in ContextKind, NEW owed \in Seq(Nat)
  PROVE  /\ In(kind, owed) \in Context
         /\ In(kind, owed).kind = kind /\ In(kind, owed).owed = owed
         /\ Native \in Context /\ Native.kind = "native"
         /\ Inner \in Context /\ Inner.kind = "inner"
BY DEF In, Context, ContextKind, Native, Inner

LEMMA ContextFields ==
  ASSUME NEW c \in Context
  PROVE  c.kind \in ContextKind /\ c.owed \in Seq(Nat)
BY DEF Context

LEMMA InstrType ==
  ASSUME NEW op \in Op, NEW n \in Nat, NEW then \in Nat, NEW else \in Nat, NEW c \in Context
  PROVE  /\ Ins(op, n, then, else, c) \in Instr
         /\ Ins(op, n, then, else, c).op = op
         /\ Ins(op, n, then, else, c).n = n
         /\ Ins(op, n, then, else, c).then = then
         /\ Ins(op, n, then, else, c).else = else
         /\ Ins(op, n, then, else, c).under = c
BY DEF Ins, Instr

LEMMA InstrFields ==
  ASSUME NEW i \in Instr
  PROVE  i.op \in Op /\ i.n \in Nat /\ i.then \in Nat /\ i.else \in Nat /\ i.under \in Context
BY DEF Instr

LEMMA Instructions ==
  ASSUME NEW n \in Nat, NEW then \in Nat, NEW else \in Nat, NEW c \in Context
  PROVE  /\ Do(n) \in Instr /\ Do(n).op = "do" /\ Do(n).n = n
         /\ Clean(n) \in Instr /\ Clean(n).op = "clean" /\ Clean(n).n = n
         /\ Branching(then, else, c) \in Instr /\ Branching(then, else, c).op = "test"
         /\ Branching(then, else, c).then = then /\ Branching(then, else, c).else = else
         /\ Branching(then, else, c).under = c
         /\ Loop(then, c) \in Instr /\ Loop(then, c).op = "loop"
         /\ Loop(then, c).then = then /\ Loop(then, c).under = c
         /\ Again(then, c) \in Instr /\ Again(then, c).op = "again"
         /\ Again(then, c).then = then /\ Again(then, c).under = c
         /\ Enter(then, c) \in Instr /\ Enter(then, c).op = "enter"
         /\ Enter(then, c).then = then /\ Enter(then, c).under = c
         /\ \A op \in Op : Sole(op) \in Instr /\ Sole(op).op = op /\ Sole(op).then = 0
         /\ Ret \in Instr /\ Ret.op = "ret"
         /\ Error \in Instr /\ Error.op = "error"
<1>0. 0 \in Nat /\ Native \in Context /\ {"do", "clean", "test", "loop", "again", "enter", "ret", "error"} \subseteq Op
  BY ContextType DEF Op, Conditions, Native, In, Context, ContextKind
<1> USE <1>0
<1>1. Do(n) \in Instr /\ Do(n).op = "do" /\ Do(n).n = n
  BY InstrType DEF Do
<1>2. Clean(n) \in Instr /\ Clean(n).op = "clean" /\ Clean(n).n = n
  BY InstrType DEF Clean
<1>3. /\ Branching(then, else, c) \in Instr /\ Branching(then, else, c).op = "test"
      /\ Branching(then, else, c).then = then /\ Branching(then, else, c).else = else
      /\ Branching(then, else, c).under = c
  BY InstrType DEF Branching
<1>4. /\ Loop(then, c) \in Instr /\ Loop(then, c).op = "loop"
      /\ Loop(then, c).then = then /\ Loop(then, c).under = c
  BY InstrType DEF Loop
<1>5. /\ Again(then, c) \in Instr /\ Again(then, c).op = "again"
      /\ Again(then, c).then = then /\ Again(then, c).under = c
  BY InstrType DEF Again
<1>6. /\ Enter(then, c) \in Instr /\ Enter(then, c).op = "enter"
      /\ Enter(then, c).then = then /\ Enter(then, c).under = c
  BY InstrType DEF Enter
<1>7. \A op \in Op : Sole(op) \in Instr /\ Sole(op).op = op /\ Sole(op).then = 0
  BY InstrType DEF Sole
<1>8. Ret \in Instr /\ Ret.op = "ret" /\ Error \in Instr /\ Error.op = "error"
  BY <1>7 DEF Ret, Error
<1> QED
  BY <1>1, <1>2, <1>3, <1>4, <1>5, <1>6, <1>7, <1>8

LEMMA CleanupsType ==
  ASSUME NEW deferred \in Seq(Nat)
  PROVE  Cleanups(deferred) \in Seq(Instr)
<1>1. \A n \in Nat : Clean(n) \in Instr
  <2>1. 0 \in Nat /\ Native \in Context
    BY DEF Native, In, Context, ContextKind
  <2> QED
    BY <2>1, Instructions
<1>2. \A i \in 1 .. Len(deferred) : deferred[i] \in Nat
  OBVIOUS
<1>3. DOMAIN deferred = 1 .. Len(deferred) /\ Len(deferred) \in Nat
  OBVIOUS
<1> QED
  BY <1>1, <1>2, <1>3 DEF Cleanups

LEMMA CleanupsOf ==
  ASSUME NEW a \in Seq(Nat), NEW b \in Seq(Nat), NEW n \in Nat
  PROVE  /\ Cleanups(<<>>) = <<>>
         /\ Cleanups(<<n>> \o a) = <<Clean(n)>> \o Cleanups(a)
         /\ Cleanups(a \o b) = Cleanups(a) \o Cleanups(b)
<1>1. Cleanups(<<>>) = <<>>
  BY DEF Cleanups
<1>2. \A s \in Seq(Nat) : /\ Cleanups(s) \in Seq(Instr) /\ Len(Cleanups(s)) = Len(s)
                          /\ \A i \in 1 .. Len(s) : Cleanups(s)[i] = Clean(s[i])
  <2> TAKE s \in Seq(Nat)
  <2>1. Cleanups(s) \in Seq(Instr)
    BY CleanupsType
  <2>2. DOMAIN Cleanups(s) = DOMAIN s
    BY DEF Cleanups
  <2>3. Len(Cleanups(s)) = Len(s)
    BY <2>1, <2>2
  <2>4. \A i \in 1 .. Len(s) : Cleanups(s)[i] = Clean(s[i])
    BY DEF Cleanups
  <2> QED
    BY <2>1, <2>3, <2>4
<1>3. <<n>> \in Seq(Nat) /\ <<n>> \o a \in Seq(Nat) /\ a \o b \in Seq(Nat)
  OBVIOUS
<1>4. ASSUME NEW u \in Seq(Nat), NEW v \in Seq(Nat)
      PROVE  Cleanups(u \o v) = Cleanups(u) \o Cleanups(v)
  <2> DEFINE x == Cleanups(u \o v)
             y == Cleanups(u) \o Cleanups(v)
  <2>1. u \o v \in Seq(Nat) /\ Len(u \o v) = Len(u) + Len(v)
    OBVIOUS
  <2>2. x \in Seq(Instr) /\ Len(x) = Len(u) + Len(v)
    BY <1>2, <2>1
  <2>3. y \in Seq(Instr) /\ Len(y) = Len(u) + Len(v)
    <3>1. /\ Cleanups(u) \in Seq(Instr) /\ Len(Cleanups(u)) = Len(u)
          /\ Cleanups(v) \in Seq(Instr) /\ Len(Cleanups(v)) = Len(v)
      BY <1>2
    <3> DEFINE s == Cleanups(u)
               t == Cleanups(v)
    <3> HIDE DEF s, t
    <3>2. s \in Seq(Instr) /\ t \in Seq(Instr)
      BY <3>1 DEF s, t
    <3>3. s \o t \in Seq(Instr) /\ Len(s \o t) = Len(s) + Len(t)
      BY <3>2, ConcatenationAt
    <3> QED
      BY <3>1, <3>3 DEF s, t
  <2>4. ASSUME NEW i \in 1 .. Len(u) + Len(v) PROVE x[i] = y[i]
    <3>1. x[i] = Clean((u \o v)[i])
      BY <1>2, <2>1
    <3>2. CASE i <= Len(u)
      <4>1. (u \o v)[i] = u[i] /\ i \in 1 .. Len(u)
        BY <3>2
      <4>2. y[i] = Cleanups(u)[i]
        <5>1. /\ Cleanups(u) \in Seq(Instr) /\ Len(Cleanups(u)) = Len(u)
              /\ Cleanups(v) \in Seq(Instr) /\ Len(Cleanups(v)) = Len(v)
          BY <1>2
        <5> QED
          BY <3>2, <5>1
      <4> QED
        BY <1>2, <3>1, <4>1, <4>2
    <3>3. CASE i > Len(u)
      <4>1. (u \o v)[i] = v[i - Len(u)] /\ i - Len(u) \in 1 .. Len(v)
        BY <3>3
      <4>2. y[i] = Cleanups(v)[i - Len(u)]
        <5>1. /\ Cleanups(u) \in Seq(Instr) /\ Len(Cleanups(u)) = Len(u)
              /\ Cleanups(v) \in Seq(Instr) /\ Len(Cleanups(v)) = Len(v)
          BY <1>2
        <5> QED
          BY <3>3, <5>1
      <4> QED
        BY <1>2, <3>1, <4>1, <4>2
    <3>4. i <= Len(u) \/ i > Len(u)
      OBVIOUS
    <3> HIDE DEF x, y
    <3> QED
      BY <3>2, <3>3, <3>4
  <2>5. x = y
    <3> HIDE DEF x, y
    <3> QED
      BY <2>2, <2>3, <2>4
  <2> QED
    BY <2>5
<1>5. Cleanups(<<n>>) = <<Clean(n)>>
  BY DEF Cleanups
<1> QED
  BY <1>1, <1>3, <1>4, <1>5

LEMMA One ==
  ASSUME NEW S, NEW x \in S
  PROVE  <<x>> \in Seq(S) /\ <<x>> # <<>> /\ Head(<<x>>) = x /\ Tail(<<x>>) = <<>> /\ <<>> \in Seq(S)
OBVIOUS

LEMMA ValueCode ==
  ASSUME NEW p, p.n \in Nat
  PROVE  Value(p) \in Seq(Instr)
<1>1. 0 \in Nat /\ Native \in Context
  BY DEF Native, In, Context, ContextKind
<1>2. Do(p.n) \in Instr
  BY <1>1, Instructions
<1> QED
  BY <1>2, One DEF Value

LEMMA UsualIs ==
  ASSUME NEW p, NEW c
  PROVE  /\ p.k = "act" => Usual(p, c) = <<Do(p.n)>>
         /\ p.k = "defer" => Usual(p, c) = <<>>
         /\ p.k = "return" => Usual(p, c) = Append(Value(p), Ret)
         /\ p.k = "try" => Usual(p, c) = <<IF c.kind = "native" THEN Sole("try") ELSE Error>>
         /\ p.k \in Leaving => Usual(p, c) = <<Sole(p.k)>>
         /\ p.k = "if" => Usual(p, c) = <<Branching(p.then, p.else, c)>>
         /\ p.k = "while" => Usual(p, c) = <<Loop(p.then, c)>>
         /\ p.k = "block" => Usual(p, c) = <<Enter(p.then, c)>>
<1>1. p.k = "act" => Usual(p, c) = <<Do(p.n)>>
  BY DEF Usual, Leaving
<1>2. p.k = "defer" => Usual(p, c) = <<>>
  BY DEF Usual, Leaving
<1>3. p.k = "return" => Usual(p, c) = Append(Value(p), Ret)
  BY DEF Usual, Leaving
<1>4. p.k = "try" => Usual(p, c) = <<IF c.kind = "native" THEN Sole("try") ELSE Error>>
  BY DEF Usual, Leaving
<1>5. p.k \in Leaving => Usual(p, c) = <<Sole(p.k)>>
  BY DEF Usual, Leaving
<1>6. p.k = "if" => Usual(p, c) = <<Branching(p.then, p.else, c)>>
  BY DEF Usual, Leaving
<1>7. p.k = "while" => Usual(p, c) = <<Loop(p.then, c)>>
  BY DEF Usual, Leaving
<1>8. p.k = "block" => Usual(p, c) = <<Enter(p.then, c)>>
  BY DEF Usual, Leaving
<1> QED
  BY <1>1, <1>2, <1>3, <1>4, <1>5, <1>6, <1>7, <1>8

LEMMA UsualType ==
  ASSUME NEW f \in Functions, NEW b \in DOMAIN f.blocks, NEW i \in DOMAIN Parts(f, b),
         NEW c \in Context
  PROVE  Usual(Parts(f, b)[i], c) \in Seq(Instr)
<1> DEFINE p == Parts(f, b)[i]
<1>1. p.k \in PartKind /\ p.n \in Nat /\ p.then \in Nat /\ p.else \in Nat
  BY PartType
<1> HIDE DEF p
<1>2. /\ Do(p.n) \in Instr /\ Ret \in Instr /\ Error \in Instr
      /\ Branching(p.then, p.else, c) \in Instr /\ Loop(p.then, c) \in Instr
      /\ Enter(p.then, c) \in Instr /\ \A op \in Op : Sole(op) \in Instr
  BY <1>1, Instructions
<1>3. Value(p) \in Seq(Instr)
  BY <1>1, ValueCode
<1>4. Append(Value(p), Ret) \in Seq(Instr)
  BY <1>2, <1>3
<1>5. Sole("try") \in Instr /\ (p.k \in Leaving => Sole(p.k) \in Instr)
  BY <1>2 DEF Op, Conditions
<1>6. p.k = "act" => Usual(p, c) \in Seq(Instr)
  BY <1>2, One, UsualIs
<1>7. p.k = "defer" => Usual(p, c) \in Seq(Instr)
  BY <1>2, One, UsualIs
<1>8. p.k = "return" => Usual(p, c) \in Seq(Instr)
  BY <1>4, UsualIs
<1>9. p.k = "try" => Usual(p, c) \in Seq(Instr)
  BY <1>2, <1>5, One, UsualIs
<1>10. p.k \in Leaving => Usual(p, c) \in Seq(Instr)
  BY <1>5, One, UsualIs
<1>11. p.k = "if" => Usual(p, c) \in Seq(Instr)
  BY <1>2, One, UsualIs
<1>12. p.k = "while" => Usual(p, c) \in Seq(Instr)
  BY <1>2, One, UsualIs
<1>13. p.k = "block" => Usual(p, c) \in Seq(Instr)
  BY <1>2, One, UsualIs
<1>14. Usual(p, c) \in Seq(Instr)
  BY <1>1, <1>6, <1>7, <1>8, <1>9, <1>10, <1>11, <1>12, <1>13 DEF PartKind, Asks
<1> QED
  BY <1>14 DEF p

LEMMA NestedType ==
  ASSUME NEW c \in Context
  PROVE  /\ Nested(c) \in Context /\ Nested(c).owed = c.owed
         /\ Nested(c).kind = IF c.kind = "void" THEN "void" ELSE "lost"
BY ContextFields, ContextType DEF Nested, ContextKind

LEMMA LiveType ==
  ASSUME NEW f \in Functions, NEW b \in DOMAIN f.blocks, NEW i \in 0 .. Len(Parts(f, b)),
         NEW c \in Context
  PROVE  /\ Live(f, b, i, c) \in Context /\ Live(f, b, i, c).kind = c.kind
         /\ Live(f, b, i, c).owed = Deferred(Parts(f, b), i) \o c.owed
<1>1. Deferred(Parts(f, b), i) \in Seq(Nat)
  BY FunctionType, DeferredSteps
<1>2. c.kind \in ContextKind /\ Deferred(Parts(f, b), i) \o c.owed \in Seq(Nat)
  BY <1>1, ContextFields, ConcatenationAt
<1> QED
  BY <1>2, ContextType DEF Live

LEMMA PartCodeType ==
  ASSUME NEW f \in Functions, NEW b \in DOMAIN f.blocks, NEW i \in DOMAIN Parts(f, b),
         NEW c \in Context
  PROVE  PartCode(f, b, i, c) \in Seq(Instr)
<1> DEFINE p == Parts(f, b)[i]
           l == Live(f, b, i - 1, c)
<1>1. p.k \in PartKind /\ p.n \in Nat /\ p.then \in Nat /\ p.else \in Nat
  BY PartType
<1>2. Native \in Context /\ Inner \in Context
  BY DEF Native, Inner, In, Context, ContextKind
<1>3. Usual(p, Native) \in Seq(Instr) /\ Usual(p, Inner) \in Seq(Instr)
  BY <1>2, UsualType
<1>4. l \in Context
  <2>1. i - 1 \in 0 .. Len(Parts(f, b))
    BY FunctionType
  <2> QED
    BY <2>1, LiveType
<1> HIDE DEF p, l
<1>5. Error \in Instr /\ Ret \in Instr
  BY <1>1, <1>4, Instructions
<1>6. WasmTail(f, b, p) \in Seq(Instr)
  BY <1>3, <1>5, One DEF WasmTail
<1>7. WasmStmt(p, l) \in Seq(Instr)
  <2>1. Nested(l) \in Context /\ l.owed \in Seq(Nat)
    BY <1>4, NestedType, ContextFields
  <2>2. Branching(p.then, p.else, Nested(l)) \in Instr /\ Loop(p.then, Nested(l)) \in Instr
    BY <1>1, <2>1, Instructions
  <2>3. Value(p) \in Seq(Instr) /\ Cleanups(l.owed) \in Seq(Instr)
    BY <1>1, <2>1, ValueCode, CleanupsType
  <2>4. Value(p) \o Cleanups(l.owed) \o <<Ret>> \in Seq(Instr)
    BY <1>5, <2>3, One, ConcatenationAt
  <2>5. <<Error>> \in Seq(Instr)
    BY <1>5, One
  <2>6. CASE p.k = "return"
    BY <2>4, <2>5, <2>6 DEF WasmStmt
  <2>7. CASE p.k = "if"
    BY <2>2, <2>7, One DEF WasmStmt
  <2>8. CASE p.k = "while"
    BY <2>2, <2>8, One DEF WasmStmt
  <2>9. CASE p.k \notin {"return", "if", "while"}
    BY <1>3, <2>9 DEF WasmStmt
  <2> QED
    BY <2>6, <2>7, <2>8, <2>9
<1>8. PartCode(f, b, i, c) \in Seq(Instr)
  <2>1. CASE c.kind = "native"
    BY <1>3, <2>1 DEF PartCode, p
  <2>2. CASE c.kind \in {"inner", "value"} /\ IsTail(f, b, i)
    BY <1>6, <2>2 DEF PartCode, p
  <2>3. CASE c.kind = "inner" /\ ~IsTail(f, b, i)
    BY <1>3, <2>3 DEF PartCode, p
  <2>4. CASE c.kind \notin {"native", "inner"} /\ ~ (c.kind = "value" /\ IsTail(f, b, i))
    BY <1>7, <2>4 DEF PartCode, p, l
  <2> QED
    BY <2>1, <2>2, <2>3, <2>4
<1> QED
  BY <1>8

\* The code of a block from its i-th part on, part by part.
LEMMA FromSteps ==
  ASSUME NEW f \in Functions, NEW b \in DOMAIN f.blocks, NEW c \in Context
  PROVE  /\ \A i \in 1 .. Len(Parts(f, b)) + 1 : From(f, b, i, c) \in Seq(Instr)
         /\ From(f, b, Len(Parts(f, b)) + 1, c) = Cleanups(Deferred(Parts(f, b), Len(Parts(f, b))))
         /\ \A i \in 1 .. Len(Parts(f, b)) :
              From(f, b, i, c) =
                PartCode(f, b, i, c)
                  \o (IF c.kind = "native" /\ Dies(f, Parts(f, b)[i]) THEN <<>>
                      ELSE From(f, b, i + 1, c))
<1> DEFINE n == Len(Parts(f, b))
           pc(j) == PartCode(f, b, j, c)
           stops(j) == c.kind = "native" /\ Dies(f, Parts(f, b)[j])
           last == Cleanups(Deferred(Parts(f, b), n))
           step == [j \in 1 .. n |-> [s \in Seq(Instr) |->
                      pc(n + 1 - j) \o (IF stops(n + 1 - j) THEN <<>> ELSE s)]]
           Body(r) == [j \in 1 .. n + 1 |->
                         IF j > n THEN last
                         ELSE pc(j) \o (IF stops(j) THEN <<>> ELSE r[j + 1])]
           from == CHOOSE r : r = Body(r)
<1>0. n \in Nat /\ DOMAIN Parts(f, b) = 1 .. n
  BY FunctionType
<1>1. last \in Seq(Instr)
  <2>1. Deferred(Parts(f, b), n) \in Seq(Nat)
    BY <1>0, FunctionType, DeferredSteps
  <2> QED
    BY <2>1, CleanupsType
<1>2. \A j \in 1 .. n : pc(j) \in Seq(Instr)
  BY <1>0, PartCodeType
<1>3. step \in [1 .. n -> [Seq(Instr) -> Seq(Instr)]]
  <2>1. \A j \in 1 .. n : pc(n + 1 - j) \in Seq(Instr)
    <3>1. \A j \in 1 .. n : n + 1 - j \in 1 .. n
      BY <1>0
    <3> HIDE DEF pc
    <3> QED
      BY <1>2, <3>1
  <2> HIDE DEF pc, stops, n
  <2>2. \A j \in 1 .. n : \A s \in Seq(Instr) :
          pc(n + 1 - j) \o (IF stops(n + 1 - j) THEN <<>> ELSE s) \in Seq(Instr)
    BY <2>1, ConcatenationAt
  <2> QED
    BY <2>2
<1>4. PICK g : g \in [0 .. n -> Seq(Instr)] /\ g[0] = last /\ \A j \in 1 .. n : g[j] = step[j][g[j - 1]]
  <2> DEFINE Y == Seq(Instr)
  <2>1. n \in Nat /\ step \in [1 .. n -> [Y -> Y]] /\ last \in Y
    BY <1>0, <1>1, <1>3
  <2> HIDE DEF step, n, Y, last
  <2>2. \E g : Steps(g, Y, last, n, step)
    BY <2>1, Stepped
  <2> QED
    BY <2>2 DEF Y, Steps
<1> DEFINE r == [j \in 1 .. n + 1 |-> g[n + 1 - j]]
<1> HIDE DEF pc, stops, last
<1>5. ASSUME NEW j \in 1 .. n PROVE g[n + 1 - j] = pc(j) \o (IF stops(j) THEN <<>> ELSE g[n - j])
  <2> DEFINE m == n + 1 - j
  <2>1. m \in 1 .. n /\ n + 1 - m = j /\ m - 1 = n - j /\ m - 1 \in 0 .. n
    BY <1>0
  <2>2. g[m] = step[m][g[m - 1]] /\ g[m - 1] \in Seq(Instr)
    BY <1>4, <2>1
  <2> HIDE DEF m, n
  <2>3. step[m][g[m - 1]] = pc(n + 1 - m) \o (IF stops(n + 1 - m) THEN <<>> ELSE g[m - 1])
    BY <2>1, <2>2
  <2> QED
    BY <2>1, <2>2, <2>3 DEF m
<1>6. r = Body(r)
  <2> HIDE DEF step
  <2>1. ASSUME NEW j \in 1 .. n + 1 PROVE r[j] = Body(r)[j]
    <3>1. CASE j = n + 1
      <4>1. j > n /\ n + 1 - j = 0
        BY <1>0, <3>1
      <4>2. r[j] = g[0] /\ Body(r)[j] = last
        <5> HIDE DEF n
        <5> QED
          BY <4>1
      <4> QED
        BY <1>4, <4>2
    <3>2. CASE j # n + 1
      <4>1. j \in 1 .. n /\ j + 1 \in 1 .. n + 1 /\ n + 1 - (j + 1) = n - j /\ ~ (j > n)
        <5> HIDE DEF n, r
        <5> QED
          BY <1>0, <3>2
      <4>2. r[j] = g[n + 1 - j] /\ r[j + 1] = g[n - j]
        BY <4>1
      <4>3. Body(r)[j] = pc(j) \o (IF stops(j) THEN <<>> ELSE r[j + 1])
        BY <4>1
      <4> QED
        BY <1>5, <4>1, <4>2, <4>3
    <3> QED
      BY <3>1, <3>2
  <2> QED
    BY <2>1
<1>7. from = Body(from)
  <2> HIDE DEF Body
  <2> QED
    BY <1>6
<1>8. /\ from[n + 1] = last
      /\ \A j \in 1 .. n : from[j] = pc(j) \o (IF stops(j) THEN <<>> ELSE from[j + 1])
  <2>1. n + 1 \in 1 .. n + 1 /\ n + 1 > n /\ \A j \in 1 .. n : j \in 1 .. n + 1 /\ ~ (j > n)
    BY <1>0
  <2>2. \A j \in 1 .. n + 1 : from[j] = Body(from)[j]
    BY <1>7
  <2> HIDE DEF from
  <2> QED
    BY <2>1, <2>2
<1>9. \A j : From(f, b, j, c) = from[j]
  BY DEF From, pc, stops, last
<1> HIDE DEF from
<1>10. \A j \in 0 .. n : from[n + 1 - j] \in Seq(Instr)
  <2> DEFINE T == {j \in 0 .. n : from[n + 1 - j] \in Seq(Instr)}
  <2>1. 0 \in T
    <3>1. n + 1 - 0 = n + 1 /\ 0 \in 0 .. n
      BY <1>0
    <3>2. from[n + 1 - 0] \in Seq(Instr)
      BY <1>1, <1>8, <3>1
    <3> QED
      BY <3>1, <3>2
  <2>2. ASSUME NEW j \in 1 .. n, j - 1 \in T PROVE j \in T
    <3> DEFINE m == n + 1 - j
    <3>1. m \in 1 .. n /\ m + 1 = n + 1 - (j - 1) /\ j \in 0 .. n
      BY <1>0
    <3>2. from[n + 1 - (j - 1)] \in Seq(Instr)
      BY <2>2
    <3>3. from[m] = pc(m) \o (IF stops(m) THEN <<>> ELSE from[m + 1])
      BY <1>8, <3>1
    <3>4. pc(m) \in Seq(Instr) /\ (IF stops(m) THEN <<>> ELSE from[m + 1]) \in Seq(Instr)
      <4>1. pc(m) \in Seq(Instr)
        BY <1>2, <3>1
      <4>2. from[m + 1] \in Seq(Instr)
        BY <3>1, <3>2
      <4> HIDE DEF m
      <4> QED
        BY <4>1, <4>2
    <3>5. from[m] \in Seq(Instr)
      <4> HIDE DEF m
      <4> QED
        BY <3>3, <3>4, ConcatenationAt
    <3> QED
      BY <3>1, <3>5
  <2>3. \A j \in 0 .. n : j \in T
    <3> HIDE DEF T, n
    <3> QED
      BY <1>0, <2>1, <2>2, Upward
  <2> QED
    BY <2>3
<1>11. \A j \in 1 .. n + 1 : from[j] \in Seq(Instr)
  <2> TAKE j \in 1 .. n + 1
  <2>1. n + 1 - j \in 0 .. n /\ n + 1 - (n + 1 - j) = j
    BY <1>0
  <2>2. from[n + 1 - (n + 1 - j)] \in Seq(Instr)
    BY <1>10, <2>1
  <2> QED
    BY <2>1, <2>2
<1> QED
  BY <1>8, <1>9, <1>11 DEF pc, stops, last

-----------------------------------------------------------------------------
(* What a part is written as. *)

\* What is passed down to the bodies of an if or a while, and to a block.
Under(f, b, i, c) ==
    CASE c.kind = "native" -> Native
      [] c.kind = "inner" \/ (c.kind = "value" /\ IsTail(f, b, i)) -> Inner
      [] OTHER -> Nested(Live(f, b, i - 1, c))
Within(c) == IF c.kind = "native" THEN Native ELSE Inner

LEMMA UnderType ==
  ASSUME NEW f \in Functions, NEW b \in DOMAIN f.blocks, NEW i \in DOMAIN Parts(f, b),
         NEW c \in Context
  PROVE  Under(f, b, i, c) \in Context /\ Within(c) \in Context
<1>1. Native \in Context /\ Inner \in Context
  BY DEF Native, Inner, In, Context, ContextKind
<1>2. i - 1 \in 0 .. Len(Parts(f, b))
  BY FunctionType
<1>3. Nested(Live(f, b, i - 1, c)) \in Context
  BY <1>2, LiveType, NestedType
<1> QED
  BY <1>1, <1>3 DEF Under, Within

\* Any part but a return, unless the C compiler refuses it.
Written(f, b, i, c, p) ==
  /\ p.k = "act" => PartCode(f, b, i, c) = <<Do(p.n)>>
  /\ p.k = "try" => PartCode(f, b, i, c) = <<Sole("try")>>
  /\ p.k \in Leaving => PartCode(f, b, i, c) = <<Sole(p.k)>>
  /\ p.k = "if" => PartCode(f, b, i, c) = <<Branching(p.then, p.else, Under(f, b, i, c))>>
  /\ p.k = "while" => PartCode(f, b, i, c) = <<Loop(p.then, Under(f, b, i, c))>>
  /\ p.k = "block" => PartCode(f, b, i, c) = <<Enter(p.then, Within(c))>>

LEMMA PartWritten ==
  ASSUME NEW f \in Functions, NEW b \in DOMAIN f.blocks, NEW i \in DOMAIN Parts(f, b),
         NEW c \in Context
  PROVE  /\ Parts(f, b)[i].k = "defer" => PartCode(f, b, i, c) = <<>>
         /\ \/ Parts(f, b)[i].k \in {"defer", "return"}
            \/ PartCode(f, b, i, c) = <<Error>>
            \/ Written(f, b, i, c, Parts(f, b)[i])
<1> DEFINE p == Parts(f, b)[i]
           l == Live(f, b, i - 1, c)
<1>1. p.k \in PartKind /\ (IsTail(f, b, i) => p.k \notin {"defer", "return"})
  BY PartType
<1>2. Native.kind = "native" /\ Inner.kind = "inner" /\ c.kind \in ContextKind
  BY ContextFields DEF Native, Inner, In
<1> HIDE DEF p, l
<1>3. CASE c.kind = "native"
  <2>1. PartCode(f, b, i, c) = Usual(p, Native)
    BY <1>3 DEF PartCode, p
  <2>2. Under(f, b, i, c) = Native /\ Within(c) = Native
    BY <1>3 DEF Under, Within
  <2>3. p.k = "defer" => PartCode(f, b, i, c) = <<>>
    BY <2>1, UsualIs
  <2>4. Written(f, b, i, c, p)
    BY <1>2, <2>1, <2>2, UsualIs DEF Written
  <2> QED
    BY <2>3, <2>4 DEF p
<1>4. CASE c.kind \in {"inner", "value"} /\ IsTail(f, b, i)
  <2>1. PartCode(f, b, i, c) = WasmTail(f, b, p)
    BY <1>4 DEF PartCode, p
  <2>2. Under(f, b, i, c) = Inner /\ Within(c) = Inner
    BY <1>4 DEF Under, Within
  <2>3. p.k # "defer"
    BY <1>1, <1>4
  <2>4. CASE WasmTail(f, b, p) = <<Error>>
    BY <2>1, <2>3, <2>4 DEF p
  <2>5. CASE WasmTail(f, b, p) # <<Error>>
    <3>1. WasmTail(f, b, p) = Usual(p, Inner) /\ p.k \notin Leaving
      BY <2>5 DEF WasmTail
    <3>2. p.k # "try"
      <4>1. p.k = "try" => Usual(p, Inner) = <<Error>>
        BY <1>2, UsualIs
      <4> QED
        BY <2>5, <3>1, <4>1
    <3>3. Written(f, b, i, c, p)
      BY <2>1, <2>2, <3>1, <3>2, UsualIs DEF Written
    <3> QED
      BY <2>3, <3>3 DEF p
  <2> QED
    BY <2>4, <2>5
<1>5. CASE c.kind = "inner" /\ ~IsTail(f, b, i)
  <2>1. PartCode(f, b, i, c) = Usual(p, Inner)
    BY <1>5 DEF PartCode, p
  <2>2. Under(f, b, i, c) = Inner /\ Within(c) = Inner
    BY <1>5 DEF Under, Within
  <2>3. p.k = "defer" => PartCode(f, b, i, c) = <<>>
    BY <2>1, UsualIs
  <2>4. p.k = "try" => PartCode(f, b, i, c) = <<Error>>
    BY <1>2, <2>1, UsualIs
  <2>5. p.k # "try" => Written(f, b, i, c, p)
    BY <2>1, <2>2, UsualIs DEF Written
  <2> QED
    BY <2>3, <2>4, <2>5 DEF p
<1>6. CASE c.kind \notin {"native", "inner"} /\ ~ (c.kind = "value" /\ IsTail(f, b, i))
  <2>1. PartCode(f, b, i, c) = WasmStmt(p, l)
    BY <1>6 DEF PartCode, p, l
  <2>2. Under(f, b, i, c) = Nested(l) /\ Within(c) = Inner
    BY <1>6 DEF Under, Within, l
  <2>3. p.k \notin {"return", "if", "while"} => PartCode(f, b, i, c) = Usual(p, Inner)
    BY <2>1 DEF WasmStmt
  <2>4. /\ p.k = "if" => PartCode(f, b, i, c) = <<Branching(p.then, p.else, Nested(l))>>
        /\ p.k = "while" => PartCode(f, b, i, c) = <<Loop(p.then, Nested(l))>>
    BY <2>1 DEF WasmStmt
  <2>5. p.k = "defer" => PartCode(f, b, i, c) = <<>>
    BY <2>3, UsualIs
  <2>6. p.k = "try" => PartCode(f, b, i, c) = <<Error>>
    BY <1>2, <2>3, UsualIs
  <2>7. p.k \in {"act", "block"} \cup Leaving => PartCode(f, b, i, c) = Usual(p, Inner)
    BY <2>3 DEF Leaving
  <2>8. p.k # "try" => Written(f, b, i, c, p)
    BY <2>2, <2>4, <2>7, UsualIs DEF Written
  <2> QED
    BY <2>5, <2>6, <2>8 DEF p
<1> QED
  BY <1>3, <1>4, <1>5, <1>6

\* A return.
LEMMA ReturnWritten ==
  ASSUME NEW f \in Functions, NEW b \in DOMAIN f.blocks, NEW i \in DOMAIN Parts(f, b),
         NEW c \in Context, Parts(f, b)[i].k = "return"
  PROVE  /\ c.kind \in {"native", "inner"} =>
              PartCode(f, b, i, c) = Value(Parts(f, b)[i]) \o <<Ret>>
         /\ c.kind \in {"void", "value"} =>
              PartCode(f, b, i, c) =
                Value(Parts(f, b)[i])
                  \o Cleanups(Deferred(Parts(f, b), i - 1) \o c.owed) \o <<Ret>>
         /\ c.kind = "lost" => PartCode(f, b, i, c) = <<Error>>
<1> DEFINE p == Parts(f, b)[i]
           l == Live(f, b, i - 1, c)
<1>1. ~IsTail(f, b, i) /\ p.n \in Nat
  BY PartType
<1>2. p.k = "return"
  OBVIOUS
<1>3. l.kind = c.kind /\ l.owed = Deferred(Parts(f, b), i - 1) \o c.owed
  <2>1. i - 1 \in 0 .. Len(Parts(f, b))
    BY FunctionType
  <2> QED
    BY <2>1, LiveType
<1> HIDE DEF p, l
<1>4. Append(Value(p), Ret) = Value(p) \o <<Ret>>
  <2>1. 0 \in Nat /\ Native \in Context
    BY DEF Native, In, Context, ContextKind
  <2>2. Value(p) \in Seq(Instr) /\ Ret \in Instr
    BY <1>1, <2>1, ValueCode, Instructions
  <2> QED
    BY <2>2, Concatenation
<1>5. c.kind \in {"native", "inner"} => PartCode(f, b, i, c) = Value(p) \o <<Ret>>
  <2>1. c.kind = "native" => PartCode(f, b, i, c) = Usual(p, Native)
    BY DEF PartCode, p
  <2>2. c.kind = "inner" => PartCode(f, b, i, c) = Usual(p, Inner)
    BY <1>1 DEF PartCode, p
  <2> QED
    BY <1>2, <1>4, <2>1, <2>2, UsualIs
<1>6. c.kind \in {"void", "value", "lost"} => PartCode(f, b, i, c) = WasmStmt(p, l)
  BY <1>1 DEF PartCode, p, l
<1>7. WasmStmt(p, l) = IF l.kind = "lost" THEN <<Error>> ELSE Value(p) \o Cleanups(l.owed) \o <<Ret>>
  BY <1>2 DEF WasmStmt
<1> QED
  BY <1>3, <1>5, <1>6, <1>7 DEF p

-----------------------------------------------------------------------------
(* The frames of the source and the code of each. *)

LEMMA FrameFields ==
  ASSUME NEW fr \in Frame
  PROVE  /\ fr.block \in Nat /\ fr.next \in Nat /\ fr.place \in Place
         /\ fr.pending \in Seq(Nat) /\ fr.again \in BOOLEAN
BY DEF Frame

LEMMA AtType ==
  ASSUME NEW b \in Nat, NEW i \in Nat, NEW place \in Place, NEW pending \in Seq(Nat),
         NEW again \in BOOLEAN
  PROVE  /\ At(b, i, place, pending, again) \in Frame
         /\ At(b, i, place, pending, again).block = b
         /\ At(b, i, place, pending, again).next = i
         /\ At(b, i, place, pending, again).place = place
         /\ At(b, i, place, pending, again).pending = pending
         /\ At(b, i, place, pending, again).again = again
BY DEF At, Frame

\* A frame is in a block of the function; the body of a value-returning function
\* stands by itself; only a while goes round.
FrameOK(f, fr) ==
  /\ fr.block \in DOMAIN f.blocks
  /\ fr.next \in 1 .. Len(Parts(f, fr.block)) + 1
  /\ fr.place = "function" => ~f.void
  /\ fr.again => /\ fr.next <= Len(Parts(f, fr.block))
                 /\ Parts(f, fr.block)[fr.next].k = "while"

\* What the frame has pending is what the parts before the next have deferred.
Settled(f, fr) == fr.pending = Deferred(Parts(f, fr.block), fr.next - 1)

\* The native code of the block reaches the next part.
Alive(f, be, fr) ==
  \/ be = "wasm"
  \/ \A i \in DOMAIN Parts(f, fr.block) : i < fr.next => ~Dies(f, Parts(f, fr.block)[i])

\* How the block of a frame was written, over what the frames around it owe.
ContextOf(f, be, fr, owed) ==
    CASE be = "native" -> Native
      [] be = "wasm" /\ fr.place = "value" -> Inner
      [] be = "wasm" /\ fr.place = "function" -> In("value", owed)
      [] OTHER -> In(IF f.void THEN "void" ELSE "lost", owed)

\* The code a frame has still to run.
RestOf(f, be, fr, owed) ==
  LET c == ContextOf(f, be, fr, owed)
      parts == Parts(f, fr.block)
  IN  IF fr.again
      THEN <<Again(parts[fr.next].then, Under(f, fr.block, fr.next, c))>>
             \o From(f, fr.block, fr.next + 1, c)
      ELSE IF fr.next > Len(parts) THEN Cleanups(fr.pending)
      ELSE From(f, fr.block, fr.next, c)

LEMMA ContextOfType ==
  ASSUME NEW f \in Functions, NEW be \in {"native", "wasm"}, NEW fr, NEW owed \in Seq(Nat)
  PROVE  /\ ContextOf(f, be, fr, owed) \in Context
         /\ (ContextOf(f, be, fr, owed).kind = "native" <=> be = "native")
         /\ ContextOf(f, be, fr, owed).owed \in Seq(Nat)
<1>1. /\ Native \in Context /\ Inner \in Context /\ Native.kind = "native" /\ Inner.kind = "inner"
      /\ In("value", owed) \in Context /\ In("void", owed) \in Context /\ In("lost", owed) \in Context
      /\ In("value", owed).kind = "value" /\ In("void", owed).kind = "void" /\ In("lost", owed).kind = "lost"
  BY ContextType DEF ContextKind
<1>2. CASE be = "native"
  BY <1>1, <1>2, ContextFields DEF ContextOf
<1>3. CASE be = "wasm"
  BY <1>1, <1>3, ContextFields DEF ContextOf
<1> QED
  BY <1>2, <1>3

LEMMA PartOf ==
  ASSUME NEW f \in Functions, NEW fr \in Frame, FrameOK(f, fr)
  PROVE  /\ fr.block \in DOMAIN f.blocks
         /\ Parts(f, fr.block) \in Seq(Part)
         /\ Len(Parts(f, fr.block)) \in Nat
         /\ DOMAIN Parts(f, fr.block) = 1 .. Len(Parts(f, fr.block))
         /\ fr.next \in Nat /\ fr.next >= 1 /\ fr.next <= Len(Parts(f, fr.block)) + 1
         /\ fr.next - 1 \in 0 .. Len(Parts(f, fr.block))
         /\ fr.next <= Len(Parts(f, fr.block)) =>
              /\ fr.next \in DOMAIN Parts(f, fr.block)
              /\ fr.next \in 1 .. Len(Parts(f, fr.block))
              /\ fr.next + 1 \in 1 .. Len(Parts(f, fr.block)) + 1
              /\ fr.next \in 0 .. Len(Parts(f, fr.block))
         /\ Deferred(Parts(f, fr.block), fr.next - 1) \in Seq(Nat)
<1>1. fr.block \in DOMAIN f.blocks /\ fr.next \in 1 .. Len(Parts(f, fr.block)) + 1
  BY DEF FrameOK
<1>2. Parts(f, fr.block) \in Seq(Part)
  BY <1>1, FunctionType
<1>3. fr.next - 1 \in 0 .. Len(Parts(f, fr.block))
  BY <1>1, <1>2
<1>4. Deferred(Parts(f, fr.block), fr.next - 1) \in Seq(Nat)
  BY <1>2, <1>3, DeferredSteps
<1> QED
  BY <1>1, <1>2, <1>3, <1>4

LEMMA RestOfType ==
  ASSUME NEW f \in Functions, NEW be \in {"native", "wasm"}, NEW fr \in Frame, FrameOK(f, fr),
         NEW owed \in Seq(Nat)
  PROVE  RestOf(f, be, fr, owed) \in Seq(Instr)
<1> DEFINE c == ContextOf(f, be, fr, owed)
           b == fr.block
           i == fr.next
<1>1. c \in Context
  BY ContextOfType
<1>2. CASE fr.again
  <2>1. i \in DOMAIN Parts(f, b) /\ i + 1 \in 1 .. Len(Parts(f, b)) + 1 /\ b \in DOMAIN f.blocks
    BY <1>2, PartOf DEF FrameOK
  <2>2. Parts(f, b)[i].then \in Nat /\ Parts(f, b)[i].n \in Nat /\ Parts(f, b)[i].else \in Nat
    BY <2>1, PartType
  <2> HIDE DEF c, b, i
  <2>3. Under(f, b, i, c) \in Context /\ From(f, b, i + 1, c) \in Seq(Instr)
    BY <1>1, <2>1, UnderType, FromSteps
  <2>4. Again(Parts(f, b)[i].then, Under(f, b, i, c)) \in Instr
    BY <2>2, <2>3, Instructions
  <2>5. <<Again(Parts(f, b)[i].then, Under(f, b, i, c))>> \o From(f, b, i + 1, c) \in Seq(Instr)
    BY <2>3, <2>4, Prefixed
  <2> QED
    BY <1>2, <2>5 DEF RestOf, c, b, i
<1>3. CASE ~fr.again /\ fr.next > Len(Parts(f, fr.block))
  <2>1. Cleanups(fr.pending) \in Seq(Instr)
    BY FrameFields, CleanupsType
  <2> QED
    BY <1>3, <2>1 DEF RestOf
<1>4. CASE ~fr.again /\ ~ (fr.next > Len(Parts(f, fr.block)))
  <2>1. i \in 1 .. Len(Parts(f, b)) + 1 /\ b \in DOMAIN f.blocks
    BY DEF FrameOK
  <2> HIDE DEF c, b, i
  <2>2. From(f, b, i, c) \in Seq(Instr)
    BY <1>1, <2>1, FromSteps
  <2> QED
    BY <1>4, <2>2 DEF RestOf, c, b, i
<1> QED
  BY <1>2, <1>3, <1>4

\* A frame that is settled and not in a loop has the code from its part on.
LEMMA RestSettled ==
  ASSUME NEW f \in Functions, NEW be \in {"native", "wasm"}, NEW fr \in Frame, FrameOK(f, fr),
         NEW owed \in Seq(Nat), Settled(f, fr), ~fr.again
  PROVE  RestOf(f, be, fr, owed) = From(f, fr.block, fr.next, ContextOf(f, be, fr, owed))
<1> DEFINE c == ContextOf(f, be, fr, owed)
           n == Len(Parts(f, fr.block))
<1>1. c \in Context /\ fr.block \in DOMAIN f.blocks /\ n \in Nat /\ fr.next \in Nat /\ fr.next <= n + 1
  BY ContextOfType, PartOf
<1>2. CASE fr.next > n
  <2>1. fr.next = n + 1 /\ fr.next - 1 = n
    BY <1>1, <1>2
  <2>2. From(f, fr.block, n + 1, c) = Cleanups(Deferred(Parts(f, fr.block), n))
    BY <1>1, FromSteps
  <2>3. RestOf(f, be, fr, owed) = Cleanups(fr.pending)
    BY <1>2 DEF RestOf
  <2> QED
    BY <2>1, <2>2, <2>3 DEF Settled
<1>3. CASE ~ (fr.next > n)
  BY <1>3 DEF RestOf
<1> QED
  BY <1>2, <1>3

\* The frame before a part, as code: the part, and what follows it.
LEMMA RestAt ==
  ASSUME NEW f \in Functions, NEW be \in {"native", "wasm"}, NEW fr \in Frame, FrameOK(f, fr),
         NEW owed \in Seq(Nat), ~fr.again, fr.next <= Len(Parts(f, fr.block))
  PROVE  LET c == ContextOf(f, be, fr, owed)
         IN  RestOf(f, be, fr, owed) =
               PartCode(f, fr.block, fr.next, c)
                 \o (IF be = "native" /\ Dies(f, Parts(f, fr.block)[fr.next]) THEN <<>>
                     ELSE From(f, fr.block, fr.next + 1, c))
<1> DEFINE c == ContextOf(f, be, fr, owed)
<1>1. c \in Context /\ (c.kind = "native" <=> be = "native")
  BY ContextOfType
<1>2. fr.block \in DOMAIN f.blocks /\ fr.next \in 1 .. Len(Parts(f, fr.block)) /\ ~ (fr.next > Len(Parts(f, fr.block)))
  BY PartOf
<1>3. RestOf(f, be, fr, owed) = From(f, fr.block, fr.next, c)
  BY <1>2 DEF RestOf
<1> HIDE DEF c
<1>4. From(f, fr.block, fr.next, c) =
        PartCode(f, fr.block, fr.next, c)
          \o (IF c.kind = "native" /\ Dies(f, Parts(f, fr.block)[fr.next]) THEN <<>>
              ELSE From(f, fr.block, fr.next + 1, c))
  BY <1>1, <1>2, FromSteps
<1> QED
  BY <1>1, <1>3, <1>4 DEF c

\* One part on.
Past(f, fr) ==
  At(fr.block, fr.next + 1, fr.place, Deferred(Parts(f, fr.block), fr.next), FALSE)

LEMMA Advanced ==
  ASSUME NEW f \in Functions, NEW be \in {"native", "wasm"}, NEW fr \in Frame, FrameOK(f, fr),
         fr.next <= Len(Parts(f, fr.block)), NEW owed \in Seq(Nat)
  PROVE  /\ Past(f, fr) \in Frame /\ FrameOK(f, Past(f, fr)) /\ Settled(f, Past(f, fr))
         /\ ~Past(f, fr).again
         /\ Past(f, fr).block = fr.block /\ Past(f, fr).next = fr.next + 1
         /\ Past(f, fr).place = fr.place
         /\ RestOf(f, be, Past(f, fr), owed) =
              From(f, fr.block, fr.next + 1, ContextOf(f, be, fr, owed))
         /\ Alive(f, be, fr) /\ ~Dies(f, Parts(f, fr.block)[fr.next]) => Alive(f, be, Past(f, fr))
         /\ ~Alive(f, be, Past(f, fr)) /\ Alive(f, be, fr) =>
              be = "native" /\ Dies(f, Parts(f, fr.block)[fr.next])
<1> DEFINE new == Past(f, fr)
           pending == Deferred(Parts(f, fr.block), fr.next)
<1>1. /\ fr.block \in DOMAIN f.blocks /\ fr.block \in Nat /\ fr.next \in Nat /\ fr.place \in Place
      /\ fr.next \in 0 .. Len(Parts(f, fr.block)) /\ fr.next + 1 \in 1 .. Len(Parts(f, fr.block)) + 1
      /\ Parts(f, fr.block) \in Seq(Part) /\ Len(Parts(f, fr.block)) \in Nat
      /\ DOMAIN Parts(f, fr.block) = 1 .. Len(Parts(f, fr.block))
  BY PartOf, FrameFields
<1>2. pending \in Seq(Nat) /\ fr.next + 1 \in Nat /\ (fr.next + 1) - 1 = fr.next
  <2>1. Deferred(Parts(f, fr.block), fr.next) \in Seq(Nat)
    BY <1>1, DeferredSteps
  <2> QED
    BY <1>1, <2>1
<1>3. /\ new \in Frame /\ new.block = fr.block /\ new.next = fr.next + 1
      /\ new.place = fr.place /\ new.pending = pending /\ new.again = FALSE
  BY <1>1, <1>2 DEF Past, At, Frame
<1> HIDE DEF new
<1>4. FrameOK(f, new)
  BY <1>1, <1>3 DEF FrameOK
<1>5. Settled(f, new)
  BY <1>2, <1>3 DEF Settled
<1>6. ContextOf(f, be, new, owed) = ContextOf(f, be, fr, owed)
  BY <1>3 DEF ContextOf
<1>7. RestOf(f, be, new, owed) = From(f, fr.block, fr.next + 1, ContextOf(f, be, fr, owed))
  BY <1>3, <1>4, <1>5, <1>6, RestSettled
<1>8. Alive(f, be, fr) /\ ~Dies(f, Parts(f, fr.block)[fr.next]) => Alive(f, be, new)
  <2>1. \A i \in DOMAIN Parts(f, fr.block) : i < fr.next + 1 => i < fr.next \/ i = fr.next
    BY <1>1
  <2> QED
    BY <1>3, <2>1 DEF Alive
<1>9. be = "wasm" => Alive(f, be, new)
  BY DEF Alive
<1> QED
  BY <1>3, <1>4, <1>5, <1>7, <1>8, <1>9 DEF new

\* A block just begun.
LEMMA BegunFrame ==
  ASSUME NEW f \in Functions, NEW be \in {"native", "wasm"}, NEW b \in DOMAIN f.blocks,
         NEW place \in Place, place = "function" => ~f.void, NEW owed \in Seq(Nat)
  PROVE  LET new == Begun(b, place)
         IN  /\ new \in Frame /\ FrameOK(f, new) /\ Settled(f, new) /\ ~new.again
             /\ new.pending = <<>> /\ new.block = b /\ new.place = place /\ new.next = 1
             /\ Alive(f, be, new)
             /\ RestOf(f, be, new, owed) = BlockCode(f, b, ContextOf(f, be, new, owed))
<1> DEFINE new == Begun(b, place)
<1>1. b \in Nat /\ 1 \in Nat /\ <<>> \in Seq(Nat) /\ FALSE \in BOOLEAN
  BY FunctionType
<1>2. Parts(f, b) \in Seq(Part) /\ Len(Parts(f, b)) \in Nat /\ DOMAIN Parts(f, b) = 1 .. Len(Parts(f, b))
  BY FunctionType
<1>3. /\ new \in Frame /\ new.block = b /\ new.next = 1
      /\ new.place = place /\ new.pending = <<>> /\ new.again = FALSE
  BY <1>1 DEF Begun, At, Frame
<1> HIDE DEF new
<1>4. FrameOK(f, new)
  BY <1>2, <1>3 DEF FrameOK
<1>5. Settled(f, new)
  <2>1. Deferred(Parts(f, b), 0) = <<>>
    BY <1>2, DeferredSteps
  <2> QED
    BY <1>3, <2>1 DEF Settled
<1>6. Alive(f, be, new)
  BY <1>2, <1>3 DEF Alive
<1>7. RestOf(f, be, new, owed) = BlockCode(f, b, ContextOf(f, be, new, owed))
  BY <1>3, <1>4, <1>5, RestSettled DEF BlockCode
<1> QED
  BY <1>3, <1>4, <1>5, <1>6, <1>7 DEF new

\* The context of a nested block is the one its frame has.
LEMMA ContextNested ==
  ASSUME NEW f \in Functions, NEW be \in {"native", "wasm"}, NEW fr \in Frame, FrameOK(f, fr),
         fr.next <= Len(Parts(f, fr.block)), Settled(f, fr), NEW owed \in Seq(Nat),
         NEW b \in DOMAIN f.blocks
  PROVE  LET c == ContextOf(f, be, fr, owed)
             below == fr.pending \o owed
         IN  /\ PlaceOf(f, fr) \in {"statement", "value"}
             /\ ContextOf(f, be, Begun(b, PlaceOf(f, fr)), below) = Under(f, fr.block, fr.next, c)
             /\ ContextOf(f, be, Begun(b, "value"), below) = Within(c)
<1> DEFINE c == ContextOf(f, be, fr, owed)
           below == fr.pending \o owed
           l == Live(f, fr.block, fr.next - 1, c)
<1>1. fr.place \in Place /\ fr.block \in DOMAIN f.blocks /\ fr.next - 1 \in 0 .. Len(Parts(f, fr.block))
  BY FrameFields, PartOf
<1>2. PlaceOf(f, fr) \in {"statement", "value"}
  BY <1>1 DEF PlaceOf, Place
<1>3. \A place : Begun(b, place).place = place
  BY DEF Begun, At
<1>4. /\ c \in Context /\ (c.kind = "native" <=> be = "native")
  BY ContextOfType
<1>5. /\ Native.kind = "native" /\ Inner.kind = "inner"
      /\ \A k \in ContextKind : \A o \in Seq(Nat) : In(k, o).kind = k /\ In(k, o).owed = o
  BY ContextType DEF Native, Inner, In
<1>6. fr.pending = Deferred(Parts(f, fr.block), fr.next - 1) /\ below \in Seq(Nat)
  BY FrameFields, ConcatenationAt DEF Settled
<1>7. l.kind = c.kind /\ l.owed = Deferred(Parts(f, fr.block), fr.next - 1) \o c.owed /\ l \in Context
  <2> HIDE DEF c
  <2> QED
    BY <1>1, <1>4, LiveType
<1>8. CASE be = "native"
  <2>1. c = Native
    BY <1>8 DEF ContextOf
  <2>2. Under(f, fr.block, fr.next, c) = Native /\ Within(c) = Native
    BY <1>5, <2>1 DEF Under, Within
  <2>3. \A place : ContextOf(f, be, Begun(b, place), below) = Native
    BY <1>8 DEF ContextOf
  <2> QED
    BY <1>2, <2>2, <2>3
<1>9. CASE be = "wasm" /\ fr.place = "value"
  <2>1. c = Inner
    BY <1>9 DEF ContextOf
  <2>2. Under(f, fr.block, fr.next, c) = Inner /\ Within(c) = Inner
    BY <1>5, <2>1 DEF Under, Within
  <2>3. PlaceOf(f, fr) = "value"
    BY <1>9 DEF PlaceOf
  <2>4. ContextOf(f, be, Begun(b, "value"), below) = Inner
    BY <1>3, <1>9 DEF ContextOf
  <2> QED
    BY <1>2, <2>2, <2>3, <2>4
<1>10. CASE be = "wasm" /\ fr.place = "function"
  <2>1. c = In("value", owed) /\ c.kind = "value" /\ c.owed = owed
    BY <1>5, <1>10 DEF ContextOf, ContextKind
  <2>2. Within(c) = Inner /\ ContextOf(f, be, Begun(b, "value"), below) = Inner
    BY <1>3, <1>10, <2>1 DEF ContextOf, Within
  <2>3. CASE IsTail(f, fr.block, fr.next)
    <3>1. PlaceOf(f, fr) = "value" /\ Under(f, fr.block, fr.next, c) = Inner
      BY <1>10, <2>1, <2>3 DEF PlaceOf, Under
    <3> QED
      BY <1>2, <2>2, <3>1
  <2>4. CASE ~IsTail(f, fr.block, fr.next)
    <3>1. PlaceOf(f, fr) = "statement" /\ Under(f, fr.block, fr.next, c) = Nested(l)
      BY <1>10, <2>1, <2>4 DEF PlaceOf, Under
    <3>2. ~f.void
      BY <1>10 DEF FrameOK
    <3>3. ContextOf(f, be, Begun(b, "statement"), below) = In("lost", below)
      BY <1>3, <1>10, <3>2 DEF ContextOf
    <3>4. Nested(l) = In("lost", below)
      BY <1>6, <1>7, <2>1 DEF Nested
    <3> QED
      BY <1>2, <2>2, <3>1, <3>3, <3>4
  <2> QED
    BY <2>3, <2>4
<1>11. CASE be = "wasm" /\ fr.place = "statement"
  <2> DEFINE k == IF f.void THEN "void" ELSE "lost"
  <2>1. c = In(k, owed) /\ c.kind = k /\ c.owed = owed
    BY <1>5, <1>11 DEF ContextOf, ContextKind
  <2>2. Within(c) = Inner /\ ContextOf(f, be, Begun(b, "value"), below) = Inner
    BY <1>3, <1>11, <2>1 DEF ContextOf, Within
  <2>3. PlaceOf(f, fr) = "statement" /\ Under(f, fr.block, fr.next, c) = Nested(l)
    BY <1>11, <2>1 DEF PlaceOf, Under
  <2>4. ContextOf(f, be, Begun(b, "statement"), below) = In(k, below)
    BY <1>3, <1>11 DEF ContextOf
  <2>5. Nested(l) = In(k, below)
    BY <1>6, <1>7, <2>1 DEF Nested
  <2> QED
    BY <1>2, <2>2, <2>3, <2>4, <2>5
<1> QED
  BY <1>1, <1>8, <1>9, <1>10, <1>11 DEF Place

LEMMA Retopped ==
  ASSUME NEW S, NEW s \in Seq(S), s # <<>>, NEW x \in S
  PROVE  /\ <<x>> \o Tail(s) \in Seq(S) /\ <<x>> \o Tail(s) # <<>>
         /\ Len(<<x>> \o Tail(s)) = Len(s) /\ (<<x>> \o Tail(s))[1] = x
         /\ Tail(<<x>> \o Tail(s)) = Tail(s)
         /\ \A k \in 1 .. Len(s) - 1 : (<<x>> \o Tail(s))[k + 1] = s[k + 1]
<1>1. /\ Tail(s) \in Seq(S) /\ Len(Tail(s)) = Len(s) - 1 /\ Len(s) \in Nat \ {0}
      /\ \A i \in 1 .. Len(s) - 1 : Tail(s)[i] = s[i + 1]
  BY Uncons
<1> DEFINE t == Tail(s)
<1>2. /\ <<x>> \o t \in Seq(S) /\ <<x>> \o t # <<>> /\ (<<x>> \o t)[1] = x /\ Tail(<<x>> \o t) = t
      /\ Len(<<x>> \o t) = Len(t) + 1 /\ \A i \in 1 .. Len(t) : (<<x>> \o t)[i + 1] = t[i]
  BY <1>1, Prefixed
<1> HIDE DEF t
<1>3. Len(<<x>> \o t) = Len(s) /\ \A k \in 1 .. Len(s) - 1 : (<<x>> \o t)[k + 1] = s[k + 1]
  BY <1>1, <1>2 DEF t
<1> QED
  BY <1>2, <1>3 DEF t

-----------------------------------------------------------------------------
(* The frames below the top. *)

\* A frame under a block: if native code does not reach its next part, it does
\* not reach the end of the block either.
LowerOK(f, be, b, fr) ==
  /\ FrameOK(f, fr)
  /\ Settled(f, fr)
  /\ ~Alive(f, be, fr) => be = "native" /\ ~fr.again /\ BlocksDying(f)[b]

TopOK(f, be, fr, ex) ==
  /\ FrameOK(f, fr)
  /\ ex = "next" =>
       /\ Alive(f, be, fr)
       /\ fr.next <= Len(Parts(f, fr.block)) => Settled(f, fr)
  /\ ex \in Leaving => ~fr.again

Lower(f, be, fs) == \A k \in 1 .. Len(fs) - 1 : LowerOK(f, be, fs[k].block, fs[k + 1])

StackOK(f, be, fs, ex) ==
  fs \in Seq(Frame) /\ Lower(f, be, fs) /\ (fs # <<>> => TopOK(f, be, fs[1], ex))

LEMMA LowerRetopped ==
  ASSUME NEW f, NEW be, NEW fs \in Seq(Frame), fs # <<>>, NEW g \in Frame,
         g.block = fs[1].block, Lower(f, be, fs)
  PROVE  Lower(f, be, <<g>> \o Tail(fs))
<1> DEFINE r == <<g>> \o Tail(fs)
<1>1. /\ r \in Seq(Frame) /\ Len(r) = Len(fs) /\ r[1] = g
      /\ \A k \in 1 .. Len(fs) - 1 : r[k + 1] = fs[k + 1]
  BY Retopped
<1>2. Len(fs) \in Nat \ {0}
  OBVIOUS
<1> HIDE DEF r
<1>3. ASSUME NEW k \in 1 .. Len(r) - 1 PROVE LowerOK(f, be, r[k].block, r[k + 1])
  <2>1. k \in 1 .. Len(fs) - 1 /\ r[k + 1] = fs[k + 1]
    BY <1>1
  <2>2. r[k].block = fs[k].block
    <3>1. CASE k = 1
      BY <1>1, <3>1
    <3>2. CASE k # 1
      <4>1. k - 1 \in 1 .. Len(fs) - 1 /\ (k - 1) + 1 = k
        BY <1>2, <2>1, <3>2
      <4> QED
        BY <1>1, <4>1
    <3> QED
      BY <3>1, <3>2
  <2> QED
    BY <2>1, <2>2 DEF Lower
<1>4. Lower(f, be, r)
  BY <1>3 DEF Lower
<1> QED
  BY <1>4 DEF r

LEMMA LowerPushed ==
  ASSUME NEW f, NEW be, NEW fs \in Seq(Frame), fs # <<>>, NEW g \in Frame,
         LowerOK(f, be, g.block, fs[1]), Lower(f, be, fs)
  PROVE  Lower(f, be, <<g>> \o fs)
<1> DEFINE r == <<g>> \o fs
<1>1. /\ r \in Seq(Frame) /\ Len(r) = Len(fs) + 1 /\ r[1] = g
      /\ \A k \in 1 .. Len(fs) : r[k + 1] = fs[k]
  BY Prefixed
<1>2. Len(fs) \in Nat \ {0}
  OBVIOUS
<1> HIDE DEF r
<1>3. ASSUME NEW k \in 1 .. Len(r) - 1 PROVE LowerOK(f, be, r[k].block, r[k + 1])
  <2>1. k \in 1 .. Len(fs) /\ r[k + 1] = fs[k]
    BY <1>1, <1>2
  <2>2. CASE k = 1
    BY <1>1, <2>1, <2>2
  <2>3. CASE k # 1
    <3>1. k - 1 \in 1 .. Len(fs) - 1 /\ k - 1 \in 1 .. Len(fs) /\ (k - 1) + 1 = k
      BY <1>2, <2>1, <2>3
    <3>2. r[k] = fs[k - 1]
      BY <1>1, <3>1
    <3>3. LowerOK(f, be, fs[k - 1].block, fs[(k - 1) + 1])
      BY <3>1 DEF Lower
    <3> QED
      BY <2>1, <3>1, <3>2, <3>3
  <2> QED
    BY <2>2, <2>3
<1>4. Lower(f, be, r)
  BY <1>3 DEF Lower
<1> QED
  BY <1>4 DEF r

LEMMA LowerPopped ==
  ASSUME NEW f, NEW be, NEW fs \in Seq(Frame), fs # <<>>, Lower(f, be, fs)
  PROVE  /\ Lower(f, be, Tail(fs))
         /\ Tail(fs) \in Seq(Frame)
         /\ Tail(fs) = <<>> <=> Len(fs) = 1
         /\ Tail(fs) # <<>> => /\ Len(fs) > 1 /\ Tail(fs)[1] = fs[2] /\ fs[2] \in Frame
                               /\ LowerOK(f, be, fs[1].block, fs[2])
<1> DEFINE r == Tail(fs)
<1>1. /\ r \in Seq(Frame) /\ Len(r) = Len(fs) - 1 /\ Len(fs) \in Nat \ {0}
      /\ \A k \in 1 .. Len(fs) - 1 : r[k] = fs[k + 1]
  BY Uncons
<1> HIDE DEF r
<1>2. ASSUME NEW k \in 1 .. Len(r) - 1 PROVE LowerOK(f, be, r[k].block, r[k + 1])
  <2>1. k \in 1 .. Len(fs) - 1 /\ k + 1 \in 1 .. Len(fs) - 1
    BY <1>1
  <2>2. r[k] = fs[k + 1] /\ r[k + 1] = fs[(k + 1) + 1]
    BY <1>1, <2>1
  <2>3. LowerOK(f, be, fs[k + 1].block, fs[(k + 1) + 1])
    BY <2>1 DEF Lower
  <2> QED
    BY <2>2, <2>3
<1>3. Lower(f, be, r)
  BY <1>2 DEF Lower
<1>4. r = <<>> <=> Len(fs) = 1
  BY <1>1
<1>5. r # <<>> => /\ Len(fs) > 1 /\ r[1] = fs[2] /\ fs[2] \in Frame
                  /\ LowerOK(f, be, fs[1].block, fs[2])
  <2> SUFFICES ASSUME r # <<>> PROVE /\ Len(fs) > 1 /\ r[1] = fs[2] /\ fs[2] \in Frame
                                     /\ LowerOK(f, be, fs[1].block, fs[2])
    OBVIOUS
  <2>1. 1 \in 1 .. Len(fs) - 1 /\ Len(fs) > 1 /\ 1 + 1 = 2 /\ 2 \in 1 .. Len(fs)
    BY <1>1, <1>4
  <2>2. r[1] = fs[2] /\ fs[2] \in Frame
    BY <1>1, <2>1
  <2>3. LowerOK(f, be, fs[1].block, fs[1 + 1])
    BY <2>1 DEF Lower
  <2> QED
    BY <2>1, <2>2, <2>3
<1> QED
  BY <1>1, <1>3, <1>4, <1>5 DEF r

-----------------------------------------------------------------------------
(* What the code goes on with below each frame. *)

Headers == {c \in Seq(Instr) : c # <<>>}
Rest == [code : Seq(Instr), loops : Seq(Headers), owed : Seq(Nat)]
Going(code0, loops0, owed) == [code |-> code0, loops |-> loops0, owed |-> owed]
Bottom == Going(<<Ret>>, <<>>, <<>>)

LEMMA RestFields ==
  ASSUME NEW x \in Rest
  PROVE  x.code \in Seq(Instr) /\ x.loops \in Seq(Headers) /\ x.owed \in Seq(Nat)
BY DEF Rest

LEMMA GoingType ==
  ASSUME NEW c \in Seq(Instr), NEW l \in Seq(Headers), NEW o \in Seq(Nat)
  PROVE  /\ Going(c, l, o) \in Rest
         /\ Going(c, l, o).code = c /\ Going(c, l, o).loops = l /\ Going(c, l, o).owed = o
BY DEF Going, Rest

\* x is what the code goes on with from the frame on, if it goes on with y below.
Over(f, be, fr, x, y) ==
  /\ x.owed = fr.pending \o y.owed
  /\ x.loops = IF fr.again THEN <<x.code>> \o y.loops ELSE y.loops
  /\ Alive(f, be, fr) => x.code = RestOf(f, be, fr, y.owed) \o y.code

Beneath(f, be, fs, below) ==
  /\ below \in Seq(Rest)
  /\ Len(below) = Len(fs)
  /\ fs # <<>> => below[Len(fs)] = Bottom
  /\ \A k \in 1 .. Len(fs) - 1 : Over(f, be, fs[k + 1], below[k], below[k + 1])

LEMMA BeneathRetopped ==
  ASSUME NEW f, NEW be, NEW fs \in Seq(Frame), fs # <<>>, NEW g \in Frame, NEW below,
         Beneath(f, be, fs, below)
  PROVE  Beneath(f, be, <<g>> \o Tail(fs), below)
<1> DEFINE r == <<g>> \o Tail(fs)
<1>1. /\ r \in Seq(Frame) /\ r # <<>> /\ Len(r) = Len(fs)
      /\ \A k \in 1 .. Len(fs) - 1 : r[k + 1] = fs[k + 1]
  BY Retopped
<1> HIDE DEF r
<1>2. Beneath(f, be, r, below)
  BY <1>1 DEF Beneath
<1> QED
  BY <1>2 DEF r

LEMMA BeneathPushed ==
  ASSUME NEW f, NEW be, NEW fs \in Seq(Frame), fs # <<>>, NEW g \in Frame, NEW below,
         Beneath(f, be, fs, below), NEW x \in Rest, Over(f, be, fs[1], x, below[1])
  PROVE  /\ Beneath(f, be, <<g>> \o fs, <<x>> \o below)
         /\ (<<x>> \o below)[1] = x
<1> DEFINE r == <<g>> \o fs
           u == <<x>> \o below
<1>0. below \in Seq(Rest) /\ Len(below) = Len(fs) /\ Len(fs) \in Nat \ {0} /\ below[Len(fs)] = Bottom
  BY DEF Beneath
<1>1. /\ r \in Seq(Frame) /\ r # <<>> /\ Len(r) = Len(fs) + 1 /\ \A k \in 1 .. Len(fs) : r[k + 1] = fs[k]
  BY Prefixed
<1>2. /\ u \in Seq(Rest) /\ Len(u) = Len(fs) + 1 /\ u[1] = x /\ \A k \in 1 .. Len(fs) : u[k + 1] = below[k]
  BY <1>0, Prefixed
<1> HIDE DEF r, u
<1>3. u[Len(r)] = Bottom
  <2>1. Len(fs) \in 1 .. Len(fs)
    BY <1>0
  <2>2. u[Len(fs) + 1] = below[Len(fs)]
    BY <1>2, <2>1
  <2> QED
    BY <1>0, <1>1, <2>2
<1>4. ASSUME NEW k \in 1 .. Len(r) - 1 PROVE Over(f, be, r[k + 1], u[k], u[k + 1])
  <2>1. k \in 1 .. Len(fs) /\ r[k + 1] = fs[k] /\ u[k + 1] = below[k]
    BY <1>0, <1>1, <1>2
  <2>2. CASE k = 1
    BY <1>2, <2>1, <2>2
  <2>3. CASE k # 1
    <3>1. k - 1 \in 1 .. Len(fs) - 1 /\ k - 1 \in 1 .. Len(fs) /\ (k - 1) + 1 = k
      BY <1>0, <2>1, <2>3
    <3>2. u[k] = below[k - 1]
      BY <1>2, <3>1
    <3>3. Over(f, be, fs[(k - 1) + 1], below[k - 1], below[(k - 1) + 1])
      BY <3>1 DEF Beneath
    <3> QED
      BY <2>1, <3>1, <3>2, <3>3
  <2> QED
    BY <2>2, <2>3
<1>5. Beneath(f, be, r, u)
  BY <1>1, <1>2, <1>3, <1>4 DEF Beneath
<1> QED
  BY <1>2, <1>5 DEF r, u

LEMMA BeneathPopped ==
  ASSUME NEW f, NEW be, NEW fs \in Seq(Frame), fs # <<>>, NEW below, Beneath(f, be, fs, below)
  PROVE  /\ Beneath(f, be, Tail(fs), Tail(below))
         /\ below[1] \in Rest
         /\ Tail(fs) = <<>> => below[1] = Bottom
         /\ Tail(fs) # <<>> => /\ Tail(below)[1] \in Rest
                               /\ Over(f, be, fs[2], below[1], Tail(below)[1])
<1> DEFINE r == Tail(fs)
           u == Tail(below)
<1>0. below \in Seq(Rest) /\ Len(below) = Len(fs) /\ Len(fs) \in Nat \ {0} /\ below[Len(fs)] = Bottom
      /\ below # <<>>
  BY DEF Beneath
<1>1. /\ r \in Seq(Frame) /\ Len(r) = Len(fs) - 1 /\ \A k \in 1 .. Len(fs) - 1 : r[k] = fs[k + 1]
  BY Uncons
<1>2. /\ u \in Seq(Rest) /\ Len(u) = Len(fs) - 1 /\ \A k \in 1 .. Len(fs) - 1 : u[k] = below[k + 1]
      /\ below[1] \in Rest
  BY <1>0, Uncons
<1> HIDE DEF r, u
<1>3. r # <<>> => u[Len(r)] = Bottom
  <2> SUFFICES ASSUME r # <<>> PROVE u[Len(r)] = Bottom
    OBVIOUS
  <2>1. Len(fs) - 1 \in 1 .. Len(fs) - 1 /\ (Len(fs) - 1) + 1 = Len(fs)
    BY <1>0, <1>1
  <2>2. u[Len(fs) - 1] = below[(Len(fs) - 1) + 1]
    BY <1>2, <2>1
  <2> QED
    BY <1>0, <1>1, <2>1, <2>2
<1>4. ASSUME NEW k \in 1 .. Len(r) - 1 PROVE Over(f, be, r[k + 1], u[k], u[k + 1])
  <2>1. k \in 1 .. Len(fs) - 1 /\ k + 1 \in 1 .. Len(fs) - 1
    BY <1>0, <1>1
  <2>2. r[k + 1] = fs[(k + 1) + 1] /\ u[k] = below[k + 1] /\ u[k + 1] = below[(k + 1) + 1]
    BY <1>1, <1>2, <2>1
  <2>3. Over(f, be, fs[(k + 1) + 1], below[k + 1], below[(k + 1) + 1])
    BY <2>1 DEF Beneath
  <2> QED
    BY <2>2, <2>3
<1>5. Beneath(f, be, r, u)
  BY <1>1, <1>2, <1>3, <1>4 DEF Beneath
<1>6. r = <<>> => below[1] = Bottom
  <2>1. r = <<>> => Len(fs) = 1
    BY <1>0, <1>1
  <2> QED
    BY <1>0, <2>1
<1>7. r # <<>> => u[1] \in Rest /\ Over(f, be, fs[2], below[1], u[1])
  <2> SUFFICES ASSUME r # <<>> PROVE u[1] \in Rest /\ Over(f, be, fs[2], below[1], u[1])
    OBVIOUS
  <2>1. 1 \in 1 .. Len(fs) - 1 /\ 1 + 1 = 2 /\ 1 \in 1 .. Len(u)
    BY <1>0, <1>1, <1>2
  <2>2. u[1] = below[2] /\ u[1] \in Rest
    BY <1>2, <2>1
  <2>3. Over(f, be, fs[1 + 1], below[1], below[1 + 1])
    BY <2>1 DEF Beneath
  <2> QED
    BY <2>1, <2>2, <2>3
<1> QED
  BY <1>2, <1>5, <1>6, <1>7 DEF r, u

-----------------------------------------------------------------------------
(* The calls made and the calls meant. *)

Kept(be, m) == {i \in DOMAIN m : m[i].left \in Runs[be]}

\* SameCalls, of any calls meant.
Same(be, m, calls) ==
  /\ Len(calls) = Cardinality(Kept(be, m))
  /\ \A i \in Kept(be, m) : calls[Cardinality(Kept(be, m) \cap 1 .. i)] = m[i].n

LEMMA Appended ==
  ASSUME NEW S, NEW s \in Seq(S), NEW x \in S
  PROVE  /\ Append(s, x) \in Seq(S)
         /\ Len(Append(s, x)) = Len(s) + 1
         /\ Append(s, x)[Len(s) + 1] = x
         /\ \A i \in 1 .. Len(s) : Append(s, x)[i] = s[i]
OBVIOUS

\* A call the back end does not make.
LEMMA SameLost ==
  ASSUME NEW be, NEW m \in Seq(Meaning), NEW x \in Meaning, x.left \notin Runs[be],
         NEW calls, Same(be, m, calls)
  PROVE  Same(be, Append(m, x), calls)
<1> DEFINE N == Len(m)
           m2 == Append(m, x)
<1>1. /\ m2 \in Seq(Meaning) /\ Len(m2) = N + 1 /\ m2[N + 1] = x /\ N \in Nat
      /\ \A i \in 1 .. N : m2[i] = m[i]
  BY Appended
<1>2. DOMAIN m2 = 1 .. N + 1 /\ DOMAIN m = 1 .. N
  BY <1>1
<1> HIDE DEF m2
<1>3. Kept(be, m2) = Kept(be, m)
  <2>1. ASSUME NEW i \in Kept(be, m2) PROVE i \in Kept(be, m)
    <3>1. i \in 1 .. N + 1 /\ m2[i].left \in Runs[be]
      BY <1>2 DEF Kept
    <3>2. i # N + 1
      BY <1>1, <3>1
    <3>3. i \in 1 .. N
      BY <1>1, <3>1, <3>2
    <3> QED
      BY <1>1, <1>2, <3>1, <3>3 DEF Kept
  <2>2. ASSUME NEW i \in Kept(be, m) PROVE i \in Kept(be, m2)
    <3>1. i \in 1 .. N /\ m[i].left \in Runs[be]
      BY <1>2 DEF Kept
    <3>2. i \in 1 .. N + 1
      BY <1>1, <3>1
    <3> QED
      BY <1>1, <1>2, <3>1, <3>2 DEF Kept
  <2> QED
    BY <2>1, <2>2
<1>4. \A i \in Kept(be, m) : m2[i] = m[i]
  BY <1>1, <1>2 DEF Kept
<1>5. Same(be, m2, calls)
  BY <1>3, <1>4 DEF Same
<1> QED
  BY <1>5 DEF m2

\* A call the back end makes.
LEMMA SameKept ==
  ASSUME NEW be, NEW m \in Seq(Meaning), NEW x \in Meaning, x.left \in Runs[be],
         NEW calls \in Seq(Nat), Same(be, m, calls)
  PROVE  Same(be, Append(m, x), Append(calls, x.n))
<1> DEFINE N == Len(m)
           m2 == Append(m, x)
           K == Kept(be, m)
           K2 == Kept(be, m2)
           c2 == Append(calls, x.n)
<1>1. /\ m2 \in Seq(Meaning) /\ Len(m2) = N + 1 /\ m2[N + 1] = x /\ N \in Nat
      /\ \A i \in 1 .. N : m2[i] = m[i]
  BY Appended
<1>2. DOMAIN m2 = 1 .. N + 1 /\ DOMAIN m = 1 .. N
  BY <1>1
<1>3. /\ c2 \in Seq(Nat) /\ Len(c2) = Len(calls) + 1 /\ c2[Len(calls) + 1] = x.n
      /\ \A i \in 1 .. Len(calls) : c2[i] = calls[i]
  <2>1. x.n \in Nat
    BY DEF Meaning
  <2> QED
    BY <2>1, Appended
<1>4. Len(calls) = Cardinality(K) /\ \A i \in K : calls[Cardinality(K \cap 1 .. i)] = m[i].n
  BY DEF Same
<1> HIDE DEF m2, c2
<1>5. K \subseteq 1 .. N
  BY <1>2 DEF Kept
<1>6. K2 = K \cup {N + 1}
  <2>1. ASSUME NEW i \in K2 PROVE i \in K \cup {N + 1}
    <3>1. i \in 1 .. N + 1 /\ m2[i].left \in Runs[be]
      BY <1>2 DEF Kept
    <3>2. CASE i = N + 1
      BY <3>2
    <3>3. CASE i # N + 1
      <4>1. i \in 1 .. N
        BY <1>1, <3>1, <3>3
      <4> QED
        BY <1>1, <1>2, <3>1, <4>1 DEF Kept
    <3> QED
      BY <3>2, <3>3
  <2>2. ASSUME NEW i \in K PROVE i \in K2
    <3>1. i \in 1 .. N /\ m[i].left \in Runs[be]
      BY <1>2 DEF Kept
    <3>2. i \in 1 .. N + 1
      BY <1>1, <3>1
    <3> QED
      BY <1>1, <1>2, <3>1, <3>2 DEF Kept
  <2>3. N + 1 \in K2
    <3>1. N + 1 \in 1 .. N + 1
      BY <1>1
    <3> QED
      BY <1>1, <1>2, <3>1 DEF Kept
  <2> QED
    BY <2>1, <2>2, <2>3
<1> HIDE DEF K, K2
<1>7. IsFiniteSet(K) /\ N + 1 \notin K
  <2>1. IsFiniteSet(1 .. N)
    BY <1>1, FS_Interval
  <2>2. K \in SUBSET (1 .. N)
    BY <1>5
  <2>3. IsFiniteSet(K)
    BY <2>1, <2>2, FS_Subset
  <2>4. N + 1 \notin 1 .. N
    BY <1>1
  <2> QED
    BY <1>5, <2>3, <2>4
<1>8. Cardinality(K2) = Cardinality(K) + 1 /\ Cardinality(K) \in Nat
  BY <1>6, <1>7, FS_AddElement, FS_CardinalityType
<1>9. ASSUME NEW i \in K2 PROVE c2[Cardinality(K2 \cap 1 .. i)] = m2[i].n
  <2>1. CASE i = N + 1
    <3>0. 1 .. N \subseteq 1 .. N + 1 /\ N + 1 \in 1 .. N + 1
      BY <1>1
    <3>1. K2 \cap 1 .. i = K2
      BY <1>5, <1>6, <2>1, <3>0
    <3> QED
      BY <1>1, <1>3, <1>4, <1>8, <2>1, <3>1
  <2>2. CASE i # N + 1
    <3>1. i \in K /\ i \in 1 .. N
      BY <1>5, <1>6, <2>2
    <3>2. K2 \cap 1 .. i = K \cap 1 .. i
      BY <1>1, <1>6, <3>1
    <3> DEFINE J == K \cap 1 .. i
    <3>3. J \subseteq K /\ i \in J
      BY <1>1, <3>1
    <3> HIDE DEF J
    <3>4. IsFiniteSet(J) /\ Cardinality(J) <= Cardinality(K) /\ Cardinality(J) \in Nat
      BY <1>7, <3>3, FS_Subset, FS_CardinalityType
    <3>5. Cardinality(J) # 0
      BY <3>3, <3>4, FS_EmptySet
    <3>6. Cardinality(J) \in 1 .. Len(calls)
      BY <1>4, <1>8, <3>4, <3>5
    <3>7. c2[Cardinality(J)] = m[i].n
      BY <1>3, <1>4, <3>1, <3>6 DEF J
    <3> QED
      BY <1>1, <3>1, <3>2, <3>7 DEF J
  <2> QED
    BY <2>1, <2>2
<1>10. Same(be, m2, c2)
  BY <1>3, <1>4, <1>8, <1>9 DEF Same, K2
<1> QED
  BY <1>10 DEF m2, c2

-----------------------------------------------------------------------------
(* The code by itself, between two conditions. *)

States == [code : Seq(Instr), loops : Seq(Headers), trace : Seq(Nat), acc : Nat]
St(c, l, t, a) == [code |-> c, loops |-> l, trace |-> t, acc |-> a]

LEMMA StateType ==
  ASSUME NEW c \in Seq(Instr), NEW l \in Seq(Headers), NEW t \in Seq(Nat), NEW a \in Nat
  PROVE  /\ St(c, l, t, a) \in States
         /\ St(c, l, t, a).code = c /\ St(c, l, t, a).loops = l
         /\ St(c, l, t, a).trace = t /\ St(c, l, t, a).acc = a
BY DEF St, States

LEMMA StateFields ==
  ASSUME NEW s \in States
  PROVE  /\ s.code \in Seq(Instr) /\ s.loops \in Seq(Headers)
         /\ s.trace \in Seq(Nat) /\ s.acc \in Nat
         /\ s = St(s.code, s.loops, s.trace, s.acc)
BY DEF St, States

\* EnterBlock, Call and Jump, on the state of the code alone.
Follows(f, s, t) ==
  /\ s.code # <<>>
  /\ LET h == Head(s.code)
         rest == Tail(s.code)
     IN  \/ /\ h.op = "enter"
            /\ t = St(BlockCode(f, h.then, h.under) \o rest, s.loops, s.trace, s.acc)
         \/ /\ h.op = "do"
            /\ t = St(rest, s.loops, Append(s.trace, h.n), h.n)
         \/ /\ h.op = "clean"
            /\ t = St(rest, s.loops, Append(s.trace, h.n), s.acc)
         \/ /\ h.op = "break" /\ s.loops # <<>>
            /\ t = St(Tail(Head(s.loops)), Tail(s.loops), s.trace, s.acc)
         \/ /\ h.op = "continue" /\ s.loops # <<>>
            /\ t = St(Head(s.loops), s.loops, s.trace, s.acc)

\* The next step is the only one.
LEMMA Determined ==
  ASSUME NEW f, NEW s, NEW t, NEW u, Follows(f, s, t), Follows(f, s, u)
  PROVE  t = u
BY DEF Follows

\* The code comes from s to t: every set of states that t is in, and that a step
\* into it starts in, has s in it.
Reach(f, s, t) ==
  \A P \in SUBSET States :
     t \in P /\ (\A u, v \in States : Follows(f, u, v) /\ v \in P => u \in P) => s \in P

LEMMA ReachSelf ==
  ASSUME NEW f, NEW s PROVE Reach(f, s, s)
BY DEF Reach

LEMMA ReachMore ==
  ASSUME NEW f, NEW s, NEW t \in States, NEW u \in States, Reach(f, s, t), Follows(f, t, u)
  PROVE  Reach(f, s, u)
BY DEF Reach

\* Where the code can go on it does not stay: the first step is on the way.
LEMMA ReachFirst ==
  ASSUME NEW f, NEW s \in States, NEW t \in States, Reach(f, s, t), s # t,
         NEW v \in States, Follows(f, s, v)
  PROVE  Reach(f, v, t)
<1> SUFFICES ASSUME NEW P \in SUBSET States, t \in P, v \notin P,
                    \A x, y \in States : Follows(f, x, y) /\ y \in P => x \in P
             PROVE  FALSE
  BY DEF Reach
<1> DEFINE Q == P \ {s}
<1>1. t \in Q /\ Q \in SUBSET States
  OBVIOUS
<1>2. ASSUME NEW x \in States, NEW y \in States, Follows(f, x, y), y \in Q PROVE x \in Q
  <2>1. x \in P
    BY <1>2
  <2>2. x # s
    BY <1>2, Determined
  <2> QED
    BY <2>1, <2>2
<1>3. s \in Q
  <2> HIDE DEF Q
  <2> QED
    BY <1>1, <1>2 DEF Reach
<1> QED
  BY <1>3

\* Where it cannot go on, it is there.
LEMMA ReachLast ==
  ASSUME NEW f, NEW s \in States, NEW t \in States, Reach(f, s, t),
         \A v \in States : ~Follows(f, s, v)
  PROVE  s = t
<1> SUFFICES ASSUME s # t PROVE FALSE
  OBVIOUS
<1> DEFINE Q == States \ {s}
<1>1. t \in Q /\ Q \in SUBSET States
  OBVIOUS
<1>2. \A x, y \in States : Follows(f, x, y) /\ y \in Q => x \in Q
  OBVIOUS
<1>3. s \in Q
  <2> HIDE DEF Q
  <2> QED
    BY <1>1, <1>2 DEF Reach
<1> QED
  BY <1>3

LEMMA Associative ==
  ASSUME NEW S, NEW a \in Seq(S), NEW b \in Seq(S), NEW c \in Seq(S)
  PROVE  (a \o b) \o c = a \o (b \o c)
OBVIOUS

\* The same as a predicate, which the provers match.
Three(a, b, c) == (a \o b) \o c = a \o (b \o c)

LEMMA AssociativeThree ==
  ASSUME NEW S, NEW a \in Seq(S), NEW b \in Seq(S), NEW c \in Seq(S)
  PROVE  Three(a, b, c)
BY Associative DEF Three

-----------------------------------------------------------------------------
(* Where the code is when the source has come to some frames. *)

\* Code that goes no further: the program is not one that compiles.
Stuck(s) ==
  /\ s.code # <<>>
  /\ \/ Head(s.code).op = "error"
     \/ Head(s.code).op \in Leaving /\ s.loops = <<>>

Halts(s) == s.code # <<>> /\ Head(s.code).op = "ret"

\* The code at the top frame, over what it goes on with below it.
ReachedTop(f, be, top, ex, s, x) ==
  /\ ex = "next" =>
       /\ s.code = RestOf(f, be, top, x.owed) \o x.code
       /\ s.loops = IF top.again THEN <<s.code>> \o x.loops ELSE x.loops
  /\ ex = "return" /\ be = "wasm" =>
       \E dead \in Seq(Instr) : s.code = Cleanups(top.pending \o x.owed) \o (<<Ret>> \o dead)
  /\ ex = "return" /\ be = "native" => Halts(s)
  /\ ex = "unwind" => Halts(s)
  /\ ex \in Leaving => x.loops # <<>>
  /\ ex = "break" => s.code = Tail(Head(x.loops)) /\ s.loops = Tail(x.loops)
  /\ ex = "continue" => s.code = Head(x.loops) /\ s.loops = x.loops

Reached(f, be, fs, ex, s, below) ==
  /\ fs = <<>> => Halts(s)
  /\ fs # <<>> => ReachedTop(f, be, fs[1], ex, s, below[1])

Goal(f, be, fs, ex, m, r, s) ==
  /\ Same(be, m, s.trace)
  /\ s.acc = r
  /\ \E below : Beneath(f, be, fs, below) /\ Reached(f, be, fs, ex, s, below)

\* The code gets there, in at most one step.
Keeps(f, be, fs, ex, m, r, s) ==
  \E t \in States : /\ t = s \/ Follows(f, s, t)
                    /\ Stuck(t) \/ Goal(f, be, fs, ex, m, r, t)

LEMMA KeepsStill ==
  ASSUME NEW f, NEW be, NEW fs, NEW ex, NEW m, NEW r, NEW s \in States,
         Stuck(s) \/ Goal(f, be, fs, ex, m, r, s)
  PROVE  Keeps(f, be, fs, ex, m, r, s)
BY DEF Keeps

LEMMA KeepsMoved ==
  ASSUME NEW f, NEW be, NEW fs, NEW ex, NEW m, NEW r, NEW s, NEW t \in States,
         Follows(f, s, t), Stuck(t) \/ Goal(f, be, fs, ex, m, r, t)
  PROVE  Keeps(f, be, fs, ex, m, r, s)
BY DEF Keeps

\* Another top frame of the same block.
LEMMA StackTop ==
  ASSUME NEW f, NEW be, NEW fs \in Seq(Frame), fs # <<>>, NEW ex, NEW ex2, StackOK(f, be, fs, ex),
         NEW g \in Frame, g.block = fs[1].block, TopOK(f, be, g, ex2)
  PROVE  StackOK(f, be, <<g>> \o Tail(fs), ex2)
<1>1. Lower(f, be, <<g>> \o Tail(fs))
  BY LowerRetopped DEF StackOK
<1>2. (<<g>> \o Tail(fs))[1] = g /\ <<g>> \o Tail(fs) \in Seq(Frame)
  BY Retopped
<1> QED
  BY <1>1, <1>2 DEF StackOK

LEMMA GoalTop ==
  ASSUME NEW f, NEW be, NEW fs \in Seq(Frame), fs # <<>>, NEW g \in Frame, NEW below,
         Beneath(f, be, fs, below), NEW ex, NEW s, ReachedTop(f, be, g, ex, s, below[1]),
         NEW m, Same(be, m, s.trace)
  PROVE  Goal(f, be, <<g>> \o Tail(fs), ex, m, s.acc, s)
<1> DEFINE fs2 == <<g>> \o Tail(fs)
<1>1. fs2[1] = g /\ fs2 # <<>>
  BY Retopped
<1>2. Beneath(f, be, fs2, below)
  BY BeneathRetopped
<1> HIDE DEF fs2
<1>3. Reached(f, be, fs2, ex, s, below)
  BY <1>1 DEF Reached
<1>4. Goal(f, be, fs2, ex, m, s.acc, s)
  BY <1>2, <1>3 DEF Goal
<1> QED
  BY <1>4 DEF fs2

\* The code between a part and the end of the function.
AfterPart(f, be, fr, new, x, after) ==
  /\ after \in Seq(Instr)
  /\ new \in Frame /\ FrameOK(f, new) /\ Settled(f, new) /\ ~new.again
  /\ new.block = fr.block /\ new.next = fr.next + 1 /\ new.place = fr.place
  /\ Alive(f, be, new) => after = RestOf(f, be, new, x.owed) \o x.code
  /\ ~Dies(f, Parts(f, fr.block)[fr.next]) => Alive(f, be, new)
  /\ ~Alive(f, be, new) => be = "native" /\ Dies(f, Parts(f, fr.block)[fr.next])

\* The instruction, or instructions, of the part a frame is at.
First(f, be, fr, owed) ==
  LET c == ContextOf(f, be, fr, owed)
  IN  IF fr.again
      THEN <<Again(Parts(f, fr.block)[fr.next].then, Under(f, fr.block, fr.next, c))>>
      ELSE PartCode(f, fr.block, fr.next, c)

LEMMA WhileAlive ==
  ASSUME NEW f \in Functions, NEW p, p.k \in {"while", "act", "defer", "try"}
  PROVE  ~Dies(f, p)
BY DEF Dies, DiesIn, Leaving

LEMMA FirstType ==
  ASSUME NEW f \in Functions, NEW be \in {"native", "wasm"}, NEW fr \in Frame, FrameOK(f, fr),
         fr.next <= Len(Parts(f, fr.block)), NEW owed \in Seq(Nat)
  PROVE  First(f, be, fr, owed) \in Seq(Instr)
<1> DEFINE c == ContextOf(f, be, fr, owed)
           b == fr.block
           i == fr.next
<1>1. c \in Context /\ b \in DOMAIN f.blocks /\ i \in DOMAIN Parts(f, b)
  BY ContextOfType, PartOf
<1>2. Parts(f, b)[i].then \in Nat
  BY <1>1, PartType
<1> HIDE DEF c, b, i
<1>3. Under(f, b, i, c) \in Context /\ PartCode(f, b, i, c) \in Seq(Instr)
  BY <1>1, UnderType, PartCodeType
<1>4. Again(Parts(f, b)[i].then, Under(f, b, i, c)) \in Instr
  <2>1. 0 \in Nat
    OBVIOUS
  <2> QED
    BY <1>2, <1>3, <2>1, Instructions
<1> QED
  BY <1>3, <1>4, One DEF First, c, b, i

LEMMA AtPart ==
  ASSUME NEW f \in Functions, NEW be \in {"native", "wasm"}, NEW fr \in Frame,
         TopOK(f, be, fr, "next"), fr.next <= Len(Parts(f, fr.block)), NEW x \in Rest
  PROVE  \E after : /\ AfterPart(f, be, fr, Past(f, fr), x, after)
                    /\ RestOf(f, be, fr, x.owed) \o x.code = First(f, be, fr, x.owed) \o after
<1> DEFINE c == ContextOf(f, be, fr, x.owed)
           new == Past(f, fr)
           p == Parts(f, fr.block)[fr.next]
           stops == be = "native" /\ Dies(f, p)
           from == From(f, fr.block, fr.next + 1, c)
           first == First(f, be, fr, x.owed)
           rest == IF stops THEN <<>> ELSE from
           after == rest \o x.code
<1>1. FrameOK(f, fr) /\ Alive(f, be, fr)
  BY DEF TopOK
<1>2. x.code \in Seq(Instr) /\ x.owed \in Seq(Nat)
  BY RestFields
<1>3. /\ new \in Frame /\ FrameOK(f, new) /\ Settled(f, new) /\ ~new.again
      /\ new.block = fr.block /\ new.next = fr.next + 1 /\ new.place = fr.place
      /\ RestOf(f, be, new, x.owed) = from
      /\ ~Dies(f, p) => Alive(f, be, new)
      /\ ~Alive(f, be, new) => be = "native" /\ Dies(f, p)
  BY <1>1, <1>2, Advanced
<1>4. first \in Seq(Instr)
  BY <1>1, <1>2, FirstType
<1>5. from \in Seq(Instr)
  <2>1. c \in Context /\ fr.block \in DOMAIN f.blocks /\ fr.next + 1 \in 1 .. Len(Parts(f, fr.block)) + 1
    BY <1>1, <1>2, ContextOfType, PartOf
  <2> HIDE DEF c
  <2> QED
    BY <2>1, FromSteps
<1>6. RestOf(f, be, fr, x.owed) = first \o rest
  <2>1. CASE fr.again
    <3>1. ~stops
      BY <2>1, <1>1, WhileAlive DEF FrameOK
    <3> QED
      BY <2>1, <3>1 DEF RestOf, First
  <2>2. CASE ~fr.again
    <3>1. RestOf(f, be, fr, x.owed) = PartCode(f, fr.block, fr.next, c) \o rest
      BY <1>1, <1>2, <2>2, RestAt
    <3> QED
      BY <2>2, <3>1 DEF First
  <2> QED
    BY <2>1, <2>2
<1>7. Alive(f, be, new) => rest = from
  <2> SUFFICES ASSUME Alive(f, be, new), be = "native" PROVE ~Dies(f, p)
    OBVIOUS
  <2>1. fr.next \in DOMAIN Parts(f, fr.block) /\ fr.next < fr.next + 1
    BY <1>1, PartOf
  <2> QED
    BY <1>3, <2>1 DEF Alive
<1> HIDE DEF new, p, c, from, first
<1>8. rest \in Seq(Instr) /\ after \in Seq(Instr)
  BY <1>2, <1>5, ConcatenationAt
<1> HIDE DEF rest
<1>9. (first \o rest) \o x.code = first \o after
  <2> DEFINE y == x.code
  <2>1. y \in Seq(Instr)
    BY <1>2
  <2> HIDE DEF y
  <2>2. (first \o rest) \o y = first \o (rest \o y)
    BY <1>4, <1>8, <2>1, Associative
  <2> QED
    BY <2>2 DEF y
<1>10. AfterPart(f, be, fr, new, x, after)
  BY <1>3, <1>7, <1>8 DEF AfterPart, p
<1> QED
  BY <1>6, <1>9, <1>10 DEF new, first

\* The deferred expressions past a part.
LEMMA PastPending ==
  ASSUME NEW f \in Functions, NEW fr \in Frame, FrameOK(f, fr), Settled(f, fr),
         fr.next <= Len(Parts(f, fr.block))
  PROVE  /\ Parts(f, fr.block)[fr.next].k = "defer" =>
              Past(f, fr) = At(fr.block, fr.next + 1, fr.place,
                               <<Parts(f, fr.block)[fr.next].n>> \o fr.pending, FALSE)
         /\ Parts(f, fr.block)[fr.next].k # "defer" => Past(f, fr) = Onward(fr)
         /\ Parts(f, fr.block)[fr.next].k # "defer" => Past(f, fr).pending = fr.pending
<1>1. fr.next \in 1 .. Len(Parts(f, fr.block)) /\ Parts(f, fr.block) \in Seq(Part)
  BY PartOf
<1>2. Deferred(Parts(f, fr.block), fr.next) =
        (IF Parts(f, fr.block)[fr.next].k = "defer" THEN <<Parts(f, fr.block)[fr.next].n>> ELSE <<>>)
           \o fr.pending
  BY <1>1, DeferredSteps DEF Settled
<1>3. fr.pending \in Seq(Nat)
  BY FrameFields
<1>4. <<>> \o fr.pending = fr.pending
  BY <1>3
<1>5. Past(f, fr).pending = Deferred(Parts(f, fr.block), fr.next)
  BY DEF Past, At
<1> QED
  BY <1>2, <1>4, <1>5 DEF Past, Onward, At

-----------------------------------------------------------------------------
(* The steps of the source, and the code of each. *)

GoalSame(f, be, fs, ex, m, s, below) ==
  fs # <<>> /\ Beneath(f, be, fs, below) /\ ReachedTop(f, be, fs[1], ex, s, below[1])
  /\ Same(be, m, s.trace)

LEMMA GoalAgain ==
  ASSUME NEW f, NEW be, NEW fs, NEW ex, NEW m, NEW s, NEW below,
         GoalSame(f, be, fs, ex, m, s, below)
  PROVE  Goal(f, be, fs, ex, m, s.acc, s)
<1>1. Reached(f, be, fs, ex, s, below)
  BY DEF GoalSame, Reached
<1> QED
  BY <1>1 DEF GoalSame, Goal

Opens(f, be, fs, s, below, after) ==
  /\ Beneath(f, be, fs, below)
  /\ below[1] \in Rest
  /\ AfterPart(f, be, fs[1], Past(f, fs[1]), below[1], after)
  /\ s.code = First(f, be, fs[1], below[1].owed) \o after
  /\ s.loops = IF fs[1].again THEN <<s.code>> \o below[1].loops ELSE below[1].loops

LEMMA Opened ==
  ASSUME NEW f \in Functions, NEW be \in {"native", "wasm"}, NEW fs \in Seq(Frame), fs # <<>>,
         StackOK(f, be, fs, "next"), fs[1].next <= Len(Parts(f, fs[1].block)),
         NEW m, NEW r, NEW s, Goal(f, be, fs, "next", m, r, s)
  PROVE  /\ fs[1] \in Frame /\ FrameOK(f, fs[1]) /\ Settled(f, fs[1]) /\ Alive(f, be, fs[1])
         /\ fs[1].block \in DOMAIN f.blocks
         /\ fs[1].next \in DOMAIN Parts(f, fs[1].block)
         /\ TopOK(f, be, fs[1], "next")
         /\ Same(be, m, s.trace) /\ s.acc = r
         /\ \E below, after : Opens(f, be, fs, s, below, after)
<1>1. fs[1] \in Frame /\ TopOK(f, be, fs[1], "next")
  BY DEF StackOK
<1>2. FrameOK(f, fs[1]) /\ Settled(f, fs[1]) /\ Alive(f, be, fs[1])
  BY <1>1 DEF TopOK
<1>3. fs[1].block \in DOMAIN f.blocks /\ fs[1].next \in DOMAIN Parts(f, fs[1].block)
  BY <1>1, <1>2, PartOf
<1>4. PICK below : Beneath(f, be, fs, below) /\ Reached(f, be, fs, "next", s, below)
  BY DEF Goal
<1>5. below[1] \in Rest
  BY <1>4, BeneathPopped
<1>6. /\ s.code = RestOf(f, be, fs[1], below[1].owed) \o below[1].code
      /\ s.loops = IF fs[1].again THEN <<s.code>> \o below[1].loops ELSE below[1].loops
  BY <1>4 DEF Reached, ReachedTop
<1>7. PICK after : /\ AfterPart(f, be, fs[1], Past(f, fs[1]), below[1], after)
                   /\ RestOf(f, be, fs[1], below[1].owed) \o below[1].code =
                        First(f, be, fs[1], below[1].owed) \o after
  BY <1>1, <1>5, AtPart
<1>8. Opens(f, be, fs, s, below, after)
  BY <1>4, <1>5, <1>6, <1>7 DEF Opens
<1>9. Same(be, m, s.trace) /\ s.acc = r
  BY DEF Goal
<1> QED
  BY <1>1, <1>2, <1>3, <1>8, <1>9

LEMMA PastTop ==
  ASSUME NEW f, NEW be, NEW fr, NEW new, NEW x, NEW after, AfterPart(f, be, fr, new, x, after),
         NEW ex, ex = "next" => Alive(f, be, new)
  PROVE  TopOK(f, be, new, ex)
BY DEF AfterPart, TopOK

\* Past a part, in the code after it.
LEMMA PastReached ==
  ASSUME NEW f, NEW be, NEW fr, NEW new, NEW x, NEW after, AfterPart(f, be, fr, new, x, after),
         Alive(f, be, new), NEW t, t.code = after, t.loops = x.loops
  PROVE  ReachedTop(f, be, new, "next", t, x)
BY DEF AfterPart, ReachedTop, Leaving

\* A part of which the C compiler refuses the code.
LEMMA Refused ==
  ASSUME NEW s, NEW after \in Seq(Instr), s.code = <<Error>> \o after
  PROVE  Stuck(s)
<1>1. Error \in Instr /\ Error.op = "error"
  <2>1. 0 \in Nat /\ Native \in Context
    BY DEF Native, In, Context, ContextKind
  <2> QED
    BY <2>1, Instructions
<1>2. s.code # <<>> /\ Head(s.code) = Error
  BY <1>1, Prefixed
<1> QED
  BY <1>1, <1>2 DEF Stuck

\* The code of a part that is not a while gone round.
LEMMA FirstWritten ==
  ASSUME NEW f \in Functions, NEW be \in {"native", "wasm"}, NEW fr \in Frame, FrameOK(f, fr),
         fr.next <= Len(Parts(f, fr.block)), ~fr.again, NEW owed \in Seq(Nat)
  PROVE  /\ Parts(f, fr.block)[fr.next].k = "defer" => First(f, be, fr, owed) = <<>>
         /\ \/ Parts(f, fr.block)[fr.next].k \in {"defer", "return"}
            \/ First(f, be, fr, owed) = <<Error>>
            \/ Written(f, fr.block, fr.next, ContextOf(f, be, fr, owed), Parts(f, fr.block)[fr.next])
               /\ First(f, be, fr, owed) =
                    PartCode(f, fr.block, fr.next, ContextOf(f, be, fr, owed))
<1> DEFINE c == ContextOf(f, be, fr, owed)
<1>1. c \in Context /\ fr.block \in DOMAIN f.blocks /\ fr.next \in DOMAIN Parts(f, fr.block)
  BY ContextOfType, PartOf
<1>2. First(f, be, fr, owed) = PartCode(f, fr.block, fr.next, c)
  BY DEF First
<1> HIDE DEF c
<1>3. /\ Parts(f, fr.block)[fr.next].k = "defer" => PartCode(f, fr.block, fr.next, c) = <<>>
      /\ \/ Parts(f, fr.block)[fr.next].k \in {"defer", "return"}
         \/ PartCode(f, fr.block, fr.next, c) = <<Error>>
         \/ Written(f, fr.block, fr.next, c, Parts(f, fr.block)[fr.next])
  BY <1>1, PartWritten
<1> QED
  BY <1>2, <1>3 DEF c

LEMMA Single ==
  ASSUME NEW n \in Nat
  PROVE  /\ Do(n) \in Instr /\ Do(n).op = "do" /\ Do(n).n = n
         /\ Clean(n) \in Instr /\ Clean(n).op = "clean" /\ Clean(n).n = n
         /\ Ret \in Instr /\ Ret.op = "ret"
         /\ Error \in Instr /\ Error.op = "error"
         /\ \A op \in Op : Sole(op) \in Instr /\ Sole(op).op = op /\ Sole(op).then = 0
<1>1. 0 \in Nat /\ Native \in Context
  BY DEF Native, In, Context, ContextKind
<1> QED
  BY <1>1, Instructions

Comes(s, i, after) == s.code = <<i>> \o after /\ after \in Seq(Instr)
CallsTo(f, s, t, after, n, a) ==
  /\ t.code = after /\ t.loops = s.loops /\ t.trace = Append(s.trace, n)
  /\ t.acc = a /\ Follows(f, s, t)

\* A call.
LEMMA DoState ==
  ASSUME NEW f, NEW s \in States, NEW n \in Nat, NEW after,
         Comes(s, Do(n), after)
  PROVE  \E t \in States : CallsTo(f, s, t, after, n, n)
<1> DEFINE tr == Append(s.trace, n)
           a == n
           t == St(after, s.loops, tr, a)
<1>1. s.loops \in Seq(Headers) /\ s.trace \in Seq(Nat) /\ s.acc \in Nat
  BY StateFields
<1>2. tr \in Seq(Nat) /\ a \in Nat
  BY <1>1
<1>0. after \in Seq(Instr)
  BY DEF Comes
<1>3. Do(n) \in Instr /\ Do(n).op = "do" /\ Do(n).n = n
  BY Single
<1>4. s.code # <<>> /\ Head(s.code) = Do(n) /\ Tail(s.code) = after
  BY <1>0, <1>3, Prefixed DEF Comes
<1>5. Follows(f, s, t)
  BY <1>3, <1>4 DEF Follows
<1>6. t \in States /\ t.code = after /\ t.loops = s.loops /\ t.trace = tr /\ t.acc = a
  <2> HIDE DEF tr, a
  <2> QED
    BY <1>0, <1>1, <1>2, StateType
<1> HIDE DEF t
<1> QED
  BY <1>5, <1>6 DEF CallsTo

\* A deferred call.
LEMMA CleanState ==
  ASSUME NEW f, NEW s \in States, NEW n \in Nat, NEW after,
         Comes(s, Clean(n), after)
  PROVE  \E t \in States : CallsTo(f, s, t, after, n, s.acc)
<1> DEFINE tr == Append(s.trace, n)
           a == s.acc
           t == St(after, s.loops, tr, a)
<1>1. s.loops \in Seq(Headers) /\ s.trace \in Seq(Nat) /\ s.acc \in Nat
  BY StateFields
<1>2. tr \in Seq(Nat) /\ a \in Nat
  BY <1>1
<1>0. after \in Seq(Instr)
  BY DEF Comes
<1>3. Clean(n) \in Instr /\ Clean(n).op = "clean" /\ Clean(n).n = n
  BY Single
<1>4. s.code # <<>> /\ Head(s.code) = Clean(n) /\ Tail(s.code) = after
  BY <1>0, <1>3, Prefixed DEF Comes
<1>5. Follows(f, s, t)
  BY <1>3, <1>4 DEF Follows
<1>6. t \in States /\ t.code = after /\ t.loops = s.loops /\ t.trace = tr /\ t.acc = a
  <2> HIDE DEF tr, a
  <2> QED
    BY <1>0, <1>1, <1>2, StateType
<1> HIDE DEF t
<1> QED
  BY <1>5, <1>6 DEF CallsTo

MeaningOf(n, left) == [n |-> n, left |-> left]

LEMMA MeaningType ==
  ASSUME NEW n \in Nat, NEW left \in Exit
  PROVE  MeaningOf(n, left) \in Meaning /\ MeaningOf(n, left).n = n /\ MeaningOf(n, left).left = left
BY DEF MeaningOf, Meaning

LEMMA RunsNext ==
  ASSUME NEW be \in {"native", "wasm"}
  PROVE  /\ "next" \in Runs[be] /\ "next" \in Exit
         /\ "return" \in Runs[be] <=> be = "wasm"
         /\ "unwind" \notin Runs[be] /\ "break" \notin Runs[be] /\ "continue" \notin Runs[be]
BY DEF Runs, Exit

\* A call is followed by the rest of its block.
LEMMA ActStep ==
  ASSUME NEW f \in Functions, NEW be \in {"native", "wasm"}, NEW fs \in Seq(Frame), fs # <<>>,
         StackOK(f, be, fs, "next"), fs[1].next <= Len(Parts(f, fs[1].block)),
         NEW m \in Seq(Meaning), NEW r \in Nat, NEW s \in States, Goal(f, be, fs, "next", m, r, s),
         Parts(f, fs[1].block)[fs[1].next].k = "act"
  PROVE  LET n == Parts(f, fs[1].block)[fs[1].next].n
             fs2 == <<Past(f, fs[1])>> \o Tail(fs)
         IN  /\ StackOK(f, be, fs2, "next")
             /\ Keeps(f, be, fs2, "next", Append(m, MeaningOf(n, "next")), n, s)
<1> DEFINE fr == fs[1]
           p == Parts(f, fr.block)[fr.next]
           n == p.n
           new == Past(f, fr)
           fs2 == <<new>> \o Tail(fs)
           m2 == Append(m, MeaningOf(n, "next"))
<1>1. /\ fr \in Frame /\ FrameOK(f, fr) /\ Settled(f, fr) /\ Alive(f, be, fr)
      /\ fr.block \in DOMAIN f.blocks /\ fr.next \in DOMAIN Parts(f, fr.block)
      /\ Same(be, m, s.trace) /\ s.acc = r
  BY Opened
<1>2. PICK below, after : Opens(f, be, fs, s, below, after)
  BY Opened
<1> DEFINE x == below[1]
<1>3. /\ Beneath(f, be, fs, below) /\ x \in Rest /\ AfterPart(f, be, fr, new, x, after)
      /\ s.code = First(f, be, fr, x.owed) \o after
      /\ s.loops = IF fr.again THEN <<s.code>> \o x.loops ELSE x.loops
  BY <1>2 DEF Opens
<1>4. ~fr.again /\ n \in Nat
  <2>1. ~fr.again
    BY <1>1 DEF FrameOK
  <2> QED
    BY <1>1, <2>1, PartType
<1>5. new \in Frame /\ new.block = fr.block /\ Alive(f, be, new) /\ after \in Seq(Instr) /\ TopOK(f, be, new, "next")
  <2>1. new \in Frame /\ new.block = fr.block /\ Alive(f, be, new) /\ after \in Seq(Instr)
    BY <1>3, WhileAlive DEF AfterPart
  <2> QED
    BY <1>3, <2>1, PastTop
<1>6. StackOK(f, be, fs2, "next")
  BY <1>5, StackTop
<1>7. x.owed \in Seq(Nat)
  BY <1>3, RestFields
<1>8. First(f, be, fr, x.owed) = <<Error>> \/ First(f, be, fr, x.owed) = <<Do(n)>>
  BY <1>1, <1>4, <1>7, FirstWritten DEF Written
<1>9. CASE First(f, be, fr, x.owed) = <<Error>>
  <2>1. Stuck(s)
    BY <1>3, <1>5, <1>9, Refused
  <2>2. Keeps(f, be, fs2, "next", m2, n, s)
    BY <2>1, KeepsStill
  <2> QED
    BY <1>6, <2>2
<1>10. CASE First(f, be, fr, x.owed) = <<Do(n)>>
  <2>1. PICK t \in States : CallsTo(f, s, t, after, n, n)
    <3>1. Comes(s, Do(n), after)
      BY <1>3, <1>5, <1>10 DEF Comes
    <3> HIDE DEF n
    <3> QED
      BY <1>4, <3>1, DoState
  <2>2. /\ t.code = after /\ t.loops = s.loops /\ t.trace = Append(s.trace, n) /\ t.acc = n
        /\ Follows(f, s, t)
    BY <2>1 DEF CallsTo
  <2>5. s.trace \in Seq(Nat) /\ s.loops \in Seq(Headers)
    BY StateFields
  <2>6. Same(be, m2, t.trace)
    <3>1. MeaningOf(n, "next") \in Meaning /\ MeaningOf(n, "next").n = n /\ MeaningOf(n, "next").left \in Runs[be]
      BY <1>4, MeaningType, RunsNext
    <3> QED
      BY <1>1, <2>2, <2>5, <3>1, SameKept
  <2>7. ReachedTop(f, be, new, "next", t, x)
    BY <1>3, <1>4, <1>5, <2>2, PastReached
  <2> HIDE DEF new, m2
  <2>8. Goal(f, be, fs2, "next", m2, t.acc, t)
    BY <1>3, <1>5, <2>6, <2>7, GoalTop
  <2> HIDE DEF fs2
  <2>9. Keeps(f, be, fs2, "next", m2, n, s)
    BY <2>2, <2>8, KeepsMoved
  <2> QED
    BY <1>6, <2>9 DEF fs2, new, m2
<1> QED
  BY <1>8, <1>9, <1>10

\* A defer is no code: the code is at the part after it already.
LEMMA DeferStep ==
  ASSUME NEW f \in Functions, NEW be \in {"native", "wasm"}, NEW fs \in Seq(Frame), fs # <<>>,
         StackOK(f, be, fs, "next"), fs[1].next <= Len(Parts(f, fs[1].block)),
         NEW m \in Seq(Meaning), NEW r \in Nat, NEW s \in States, Goal(f, be, fs, "next", m, r, s),
         Parts(f, fs[1].block)[fs[1].next].k = "defer"
  PROVE  LET fs2 == <<Past(f, fs[1])>> \o Tail(fs)
         IN  StackOK(f, be, fs2, "next") /\ Keeps(f, be, fs2, "next", m, r, s)
<1> DEFINE fr == fs[1]
           new == Past(f, fr)
           fs2 == <<new>> \o Tail(fs)
<1>1. /\ fr \in Frame /\ FrameOK(f, fr) /\ Same(be, m, s.trace) /\ s.acc = r
  BY Opened
<1>2. PICK below, after : Opens(f, be, fs, s, below, after)
  BY Opened
<1> DEFINE x == below[1]
<1>3. /\ Beneath(f, be, fs, below) /\ x \in Rest /\ AfterPart(f, be, fr, new, x, after)
      /\ s.code = First(f, be, fr, x.owed) \o after
      /\ s.loops = IF fr.again THEN <<s.code>> \o x.loops ELSE x.loops
  BY <1>2 DEF Opens
<1>4. ~fr.again
  BY <1>1 DEF FrameOK
<1>5. new \in Frame /\ new.block = fr.block /\ Alive(f, be, new) /\ after \in Seq(Instr) /\ TopOK(f, be, new, "next")
  <2>1. new \in Frame /\ new.block = fr.block /\ Alive(f, be, new) /\ after \in Seq(Instr)
    BY <1>3, WhileAlive DEF AfterPart
  <2> QED
    BY <1>3, <2>1, PastTop
<1>6. StackOK(f, be, fs2, "next")
  BY <1>5, StackTop
<1>7. x.owed \in Seq(Nat)
  BY <1>3, RestFields
<1>8. First(f, be, fr, x.owed) = <<>>
  BY <1>1, <1>4, <1>7, FirstWritten
<1>9. s.code = after
  BY <1>3, <1>5, <1>8
<1> HIDE DEF new
<1>10. ReachedTop(f, be, new, "next", s, x)
  BY <1>3, <1>4, <1>5, <1>9, PastReached
<1>11. Goal(f, be, fs2, "next", m, r, s)
  BY <1>1, <1>3, <1>5, <1>10, GoalTop
<1> HIDE DEF fs2
<1>12. Keeps(f, be, fs2, "next", m, r, s)
  BY <1>11, KeepsStill
<1> QED
  BY <1>6, <1>12 DEF fs2, new

\* A break or continue is a jump to the code of the loop around it.
LEMMA LeaveStep ==
  ASSUME NEW f \in Functions, NEW be \in {"native", "wasm"}, NEW fs \in Seq(Frame), fs # <<>>,
         StackOK(f, be, fs, "next"), fs[1].next <= Len(Parts(f, fs[1].block)),
         NEW m \in Seq(Meaning), NEW r \in Nat, NEW s \in States, Goal(f, be, fs, "next", m, r, s),
         Parts(f, fs[1].block)[fs[1].next].k \in Leaving
  PROVE  LET k == Parts(f, fs[1].block)[fs[1].next].k
         IN  StackOK(f, be, fs, k) /\ Keeps(f, be, fs, k, m, r, s)
<1> DEFINE fr == fs[1]
           p == Parts(f, fr.block)[fr.next]
           k == p.k
<1>1. /\ fr \in Frame /\ FrameOK(f, fr) /\ Same(be, m, s.trace) /\ s.acc = r
  BY Opened
<1>2. PICK below, after : Opens(f, be, fs, s, below, after)
  BY Opened
<1> DEFINE x == below[1]
<1>3. /\ Beneath(f, be, fs, below) /\ x \in Rest /\ after \in Seq(Instr)
      /\ s.code = First(f, be, fr, x.owed) \o after
      /\ s.loops = IF fr.again THEN <<s.code>> \o x.loops ELSE x.loops
  BY <1>2 DEF Opens, AfterPart
<1>4. k \in {"break", "continue"}
  BY DEF Leaving
<1>5. ~fr.again
  BY <1>1, <1>4 DEF FrameOK
<1>6. StackOK(f, be, fs, k)
  BY <1>1, <1>4, <1>5 DEF StackOK, TopOK, Leaving
<1>7. x.owed \in Seq(Nat) /\ x.loops \in Seq(Headers) /\ s.loops = x.loops
  BY <1>3, <1>5, RestFields
<1>8. First(f, be, fr, x.owed) = <<Error>> \/ First(f, be, fr, x.owed) = <<Sole(k)>>
  BY <1>1, <1>4, <1>5, <1>7, FirstWritten DEF Written, Leaving
<1>9. CASE First(f, be, fr, x.owed) = <<Error>>
  <2>1. Stuck(s)
    BY <1>3, <1>9, Refused
  <2>2. Keeps(f, be, fs, k, m, r, s)
    BY <2>1, KeepsStill
  <2> QED
    BY <1>6, <2>2
<1>10. CASE First(f, be, fr, x.owed) = <<Sole(k)>>
  <2>1. Sole(k) \in Instr /\ Sole(k).op = k
    <3>1. k \in Op
      BY <1>4 DEF Op, Leaving
    <3> HIDE DEF k
    <3>2. 0 \in Nat
      OBVIOUS
    <3> QED
      BY <3>1, <3>2, Single
  <2>2. s.code # <<>> /\ Head(s.code) = Sole(k)
    <3> DEFINE i == Sole(k)
    <3>1. i \in Instr /\ s.code = <<i>> \o after
      BY <1>3, <1>10, <2>1
    <3> HIDE DEF i
    <3>2. s.code # <<>> /\ Head(s.code) = i
      BY <1>3, <3>1, Prefixed
    <3> QED
      BY <3>2 DEF i
  <2>3. CASE x.loops = <<>>
    <3>1. Stuck(s)
      BY <1>7, <2>1, <2>2, <2>3 DEF Stuck
    <3>2. Keeps(f, be, fs, k, m, r, s)
      BY <3>1, KeepsStill
    <3> QED
      BY <1>6, <3>2
  <2>4. CASE x.loops # <<>>
    <3> DEFINE c == IF k = "break" THEN Tail(Head(x.loops)) ELSE Head(x.loops)
               l == IF k = "break" THEN Tail(x.loops) ELSE x.loops
               t == St(c, l, s.trace, s.acc)
    <3>1. Head(x.loops) \in Headers /\ Tail(x.loops) \in Seq(Headers)
      BY <1>7, <2>4, Uncons
    <3>2. Head(x.loops) \in Seq(Instr) /\ Tail(Head(x.loops)) \in Seq(Instr)
      <4>1. Head(x.loops) \in Seq(Instr) /\ Head(x.loops) # <<>>
        BY <3>1 DEF Headers
      <4> QED
        BY <4>1, Uncons
    <3>3. c \in Seq(Instr) /\ l \in Seq(Headers) /\ s.trace \in Seq(Nat) /\ s.acc \in Nat
      BY <1>7, <3>1, <3>2, StateFields
    <3>4. Follows(f, s, t)
      BY <1>4, <1>7, <2>1, <2>2, <2>4 DEF Follows
    <3> HIDE DEF c, l
    <3>5. t \in States /\ t.code = c /\ t.loops = l /\ t.trace = s.trace /\ t.acc = s.acc
      BY <3>3, StateType
    <3> HIDE DEF t
    <3>6. ReachedTop(f, be, fr, k, t, x)
      BY <1>4, <2>4, <3>5 DEF ReachedTop, c, l
    <3>7. GoalSame(f, be, fs, k, m, t, below)
      BY <1>1, <1>3, <3>5, <3>6 DEF GoalSame
    <3>8. Goal(f, be, fs, k, m, r, t)
      BY <1>1, <3>5, <3>7, GoalAgain
    <3>9. Keeps(f, be, fs, k, m, r, s)
      BY <3>4, <3>5, <3>8, KeepsMoved
    <3> QED
      BY <1>6, <3>9
  <2> QED
    BY <2>3, <2>4
<1> QED
  BY <1>8, <1>9, <1>10

-----------------------------------------------------------------------------
(* A return. *)

\* What a return adds to the calls, and to the value.
Returns(m, p) == IF p.n = 0 THEN m ELSE Append(m, MeaningOf(p.n, "next"))
Returned(r, p) == IF p.n = 0 THEN r ELSE p.n

Four(a, b, c, d) == ((a \o b) \o c) \o d = a \o (b \o (c \o d))

LEMMA AssociativeFour ==
  ASSUME NEW S, NEW a \in Seq(S), NEW b \in Seq(S), NEW c \in Seq(S), NEW d \in Seq(S)
  PROVE  Four(a, b, c, d)
<1> DEFINE ab == a \o b
           cd == c \o d
<1>1. ab \in Seq(S) /\ cd \in Seq(S)
  OBVIOUS
<1> HIDE DEF ab, cd
<1>2. Three(a, b, cd) /\ Three(ab, c, d)
  BY <1>1, AssociativeThree
<1>3. ab \o cd = a \o (b \o cd)
  BY <1>2 DEF Three, ab
<1>4. (ab \o c) \o d = ab \o cd
  BY <1>2 DEF Three, cd
<1>5. (ab \o c) \o d = a \o (b \o cd)
  BY <1>3, <1>4
<1> QED
  BY <1>5 DEF ab, cd, Four

ComesValue(s, p, z) == s.code = Value(p) \o z /\ z \in Seq(Instr) /\ p.n \in Nat
ReturnsTo(f, be, s, t, m, p, z) ==
  /\ t = s \/ Follows(f, s, t)
  /\ t.code = z /\ t.loops = s.loops
  /\ Same(be, Returns(m, p), t.trace)
  /\ t.acc = Returned(s.acc, p)

\* Its expression is evaluated first.
LEMMA ReturnCall ==
  ASSUME NEW f, NEW be \in {"native", "wasm"}, NEW m \in Seq(Meaning), NEW s \in States,
         Same(be, m, s.trace), NEW p, NEW z, ComesValue(s, p, z)
  PROVE  \E t \in States : ReturnsTo(f, be, s, t, m, p, z)
<1>0. s.code = Value(p) \o z /\ z \in Seq(Instr) /\ p.n \in Nat
  BY DEF ComesValue
<1>1. CASE p.n = 0
  <2>1. s.code = z
    BY <1>0, <1>1 DEF Value
  <2> QED
    BY <1>1, <2>1 DEF Returns, Returned, ReturnsTo
<1>2. CASE p.n # 0
  <2> DEFINE n == p.n
  <2>1. Comes(s, Do(n), z)
    BY <1>0, <1>2 DEF Value, Comes
  <2>2. n \in Nat
    BY <1>0
  <2> HIDE DEF n
  <2>3. PICK t \in States : CallsTo(f, s, t, z, n, n)
    BY <2>1, <2>2, DoState
  <2>4. t.code = z /\ t.loops = s.loops /\ t.trace = Append(s.trace, n) /\ t.acc = n /\ Follows(f, s, t)
    BY <2>3 DEF CallsTo
  <2>5. Same(be, Append(m, MeaningOf(n, "next")), t.trace)
    <3>1. MeaningOf(n, "next") \in Meaning /\ MeaningOf(n, "next").n = n /\ MeaningOf(n, "next").left \in Runs[be]
      BY <2>2, MeaningType, RunsNext
    <3>2. s.trace \in Seq(Nat)
      BY StateFields
    <3> QED
      BY <2>4, <3>1, <3>2, SameKept
  <2> QED
    BY <1>2, <2>4, <2>5 DEF Returns, Returned, n, ReturnsTo
<1> QED
  BY <1>1, <1>2

\* The way a frame is left by a return.
Way(f, fr) == IF PlaceOf(f, fr) = "value" THEN "unwind" ELSE "return"

\* The code of a return: its value, then what it owes unless it is native or in
\* value position.
LEMMA ReturnCode ==
  ASSUME NEW f \in Functions, NEW be \in {"native", "wasm"}, NEW fr \in Frame, FrameOK(f, fr),
         Settled(f, fr), fr.next <= Len(Parts(f, fr.block)), ~fr.again, NEW owed \in Seq(Nat),
         Parts(f, fr.block)[fr.next].k = "return"
  PROVE  LET v == Value(Parts(f, fr.block)[fr.next])
             first == First(f, be, fr, owed)
         IN  \/ first = <<Error>>
             \/ first = v \o <<Ret>> /\ (be = "native" \/ Way(f, fr) = "unwind")
             \/ /\ first = v \o Cleanups(fr.pending \o owed) \o <<Ret>>
                /\ be = "wasm" /\ Way(f, fr) = "return"
<1> DEFINE c == ContextOf(f, be, fr, owed)
           p == Parts(f, fr.block)[fr.next]
           v == Value(p)
<1>1. c \in Context /\ fr.block \in DOMAIN f.blocks /\ fr.next \in DOMAIN Parts(f, fr.block)
  BY ContextOfType, PartOf
<1>2. First(f, be, fr, owed) = PartCode(f, fr.block, fr.next, c)
  BY DEF First
<1>3. ~IsTail(f, fr.block, fr.next)
  BY <1>1, PartType
<1>4. fr.place \in Place /\ fr.pending = Deferred(Parts(f, fr.block), fr.next - 1)
  BY FrameFields DEF Settled
<1>5. /\ Native.kind = "native" /\ Inner.kind = "inner"
      /\ \A k \in ContextKind : In(k, owed).kind = k /\ In(k, owed).owed = owed
  BY ContextType DEF Native, Inner, In
<1>6. /\ c.kind \in {"native", "inner"} => PartCode(f, fr.block, fr.next, c) = v \o <<Ret>>
      /\ c.kind \in {"void", "value"} =>
           PartCode(f, fr.block, fr.next, c) = v \o Cleanups(fr.pending \o c.owed) \o <<Ret>>
      /\ c.kind = "lost" => PartCode(f, fr.block, fr.next, c) = <<Error>>
  <2> HIDE DEF c
  <2> QED
    BY <1>1, <1>4, ReturnWritten
<1>7. CASE be = "native"
  <2>1. c = Native
    BY <1>7 DEF ContextOf
  <2> QED
    BY <1>2, <1>5, <1>6, <1>7, <2>1
<1>8. CASE be = "wasm" /\ fr.place = "value"
  <2>1. c = Inner
    BY <1>8 DEF ContextOf
  <2>2. Way(f, fr) = "unwind"
    BY <1>8 DEF Way, PlaceOf
  <2> QED
    BY <1>2, <1>5, <1>6, <2>1, <2>2
<1>9. CASE be = "wasm" /\ fr.place = "function"
  <2>1. c = In("value", owed) /\ c.kind = "value" /\ c.owed = owed
    BY <1>5, <1>9 DEF ContextOf, ContextKind
  <2>2. Way(f, fr) = "return"
    BY <1>3, <1>9 DEF Way, PlaceOf
  <2>3. PartCode(f, fr.block, fr.next, c) = v \o Cleanups(fr.pending \o owed) \o <<Ret>>
    BY <1>6, <2>1
  <2> QED
    BY <1>2, <1>9, <2>2, <2>3
<1>10. CASE be = "wasm" /\ fr.place = "statement"
  <2> DEFINE k == IF f.void THEN "void" ELSE "lost"
  <2>1. c = In(k, owed) /\ c.kind = k /\ c.owed = owed
    BY <1>5, <1>10 DEF ContextOf, ContextKind
  <2>2. Way(f, fr) = "return"
    BY <1>10 DEF Way, PlaceOf
  <2>3. CASE f.void
    <3>1. PartCode(f, fr.block, fr.next, c) = v \o Cleanups(fr.pending \o owed) \o <<Ret>>
      BY <1>6, <2>1, <2>3
    <3> QED
      BY <1>2, <1>10, <2>2, <3>1
  <2>4. CASE ~f.void
    <3>1. PartCode(f, fr.block, fr.next, c) = <<Error>>
      BY <1>6, <2>1, <2>4
    <3> QED
      BY <1>2, <3>1
  <2> QED
    BY <2>3, <2>4
<1> QED
  BY <1>4, <1>7, <1>8, <1>9, <1>10 DEF Place

LEMMA ReturnEnd ==
  ASSUME NEW f \in Functions, NEW be \in {"native", "wasm"}, NEW fs \in Seq(Frame), fs # <<>>,
         NEW m \in Seq(Meaning), NEW r, NEW s \in States, Same(be, m, s.trace), s.acc = r,
         NEW below, Beneath(f, be, fs, below), NEW p, NEW z, ComesValue(s, p, z), NEW ex,
         \A t \in States : t.code = z => ReachedTop(f, be, fs[1], ex, t, below[1])
  PROVE  Keeps(f, be, fs, ex, Returns(m, p), Returned(r, p), s)
<1>0. PICK t \in States : ReturnsTo(f, be, s, t, m, p, z)
  BY ReturnCall
<1>1. /\ t = s \/ Follows(f, s, t)
      /\ t.code = z /\ t.loops = s.loops
      /\ Same(be, Returns(m, p), t.trace) /\ t.acc = Returned(s.acc, p)
  BY <1>0 DEF ReturnsTo
<1>2. GoalSame(f, be, fs, ex, Returns(m, p), t, below)
  BY <1>1 DEF GoalSame
<1>3. Goal(f, be, fs, ex, Returns(m, p), t.acc, t)
  BY <1>2, GoalAgain
<1> QED
  BY <1>1, <1>3 DEF Keeps

LEMMA ReturnStep ==
  ASSUME NEW f \in Functions, NEW be \in {"native", "wasm"}, NEW fs \in Seq(Frame), fs # <<>>,
         StackOK(f, be, fs, "next"), fs[1].next <= Len(Parts(f, fs[1].block)),
         NEW m \in Seq(Meaning), NEW r \in Nat, NEW s \in States, Goal(f, be, fs, "next", m, r, s),
         Parts(f, fs[1].block)[fs[1].next].k = "return"
  PROVE  LET p == Parts(f, fs[1].block)[fs[1].next]
             ex == Way(f, fs[1])
         IN  /\ StackOK(f, be, fs, ex)
             /\ Keeps(f, be, fs, ex, Returns(m, p), Returned(r, p), s)
<1> DEFINE fr == fs[1]
           p == Parts(f, fr.block)[fr.next]
           ex == Way(f, fr)
           m2 == Returns(m, p)
           r2 == Returned(r, p)
           v == Value(p)
<1>1. /\ fr \in Frame /\ FrameOK(f, fr) /\ Settled(f, fr)
      /\ Same(be, m, s.trace) /\ s.acc = r
      /\ fr.block \in DOMAIN f.blocks /\ fr.next \in DOMAIN Parts(f, fr.block)
  BY Opened
<1>2. PICK below, after : Opens(f, be, fs, s, below, after)
  BY Opened
<1> DEFINE x == below[1]
<1>3. /\ Beneath(f, be, fs, below) /\ x \in Rest /\ after \in Seq(Instr)
      /\ s.code = First(f, be, fr, x.owed) \o after
  BY <1>2 DEF Opens, AfterPart
<1>4. ~fr.again
  BY <1>1 DEF FrameOK
<1>5. ex \in {"return", "unwind"}
  BY DEF Way
<1>6. StackOK(f, be, fs, ex)
  BY <1>1, <1>5 DEF StackOK, TopOK, Leaving
<1>7. x.owed \in Seq(Nat) /\ fr.pending \o x.owed \in Seq(Nat)
  BY <1>1, <1>3, RestFields, FrameFields, ConcatenationAt
<1>8. p.n \in Nat /\ v \in Seq(Instr)
  <2>1. p.n \in Nat
    BY <1>1, PartType
  <2> HIDE DEF p
  <2> QED
    BY <2>1, ValueCode
<1>9. Ret \in Instr /\ Ret.op = "ret" /\ <<Ret>> \in Seq(Instr)
  <2>1. 0 \in Nat
    OBVIOUS
  <2> QED
    BY <2>1, Single, One
<1>10. Cleanups(fr.pending \o x.owed) \in Seq(Instr)
  BY <1>7, CleanupsType
<1> DEFINE cl == Cleanups(fr.pending \o x.owed)
<1>11. \/ First(f, be, fr, x.owed) = <<Error>>
       \/ First(f, be, fr, x.owed) = v \o <<Ret>> /\ (be = "native" \/ ex = "unwind")
       \/ First(f, be, fr, x.owed) = v \o cl \o <<Ret>> /\ be = "wasm" /\ ex = "return"
  BY <1>1, <1>4, <1>7, ReturnCode
<1>12. CASE First(f, be, fr, x.owed) = <<Error>>
  <2>1. Stuck(s)
    BY <1>3, <1>12, Refused
  <2>2. Keeps(f, be, fs, ex, m2, r2, s)
    BY <2>1, KeepsStill
  <2> QED
    BY <1>6, <2>2
<1> HIDE DEF v, p
<1>13. ASSUME NEW z \in Seq(Instr), s.code = v \o z,
              \A t \in States : t.code = z => ReachedTop(f, be, fr, ex, t, x)
       PROVE  Keeps(f, be, fs, ex, m2, r2, s)
  <2>1. ComesValue(s, p, z)
    BY <1>8, <1>13 DEF v, ComesValue
  <2> HIDE DEF ex
  <2> QED
    BY <1>1, <1>3, <1>13, <2>1, ReturnEnd
<1>14. CASE First(f, be, fr, x.owed) = v \o <<Ret>> /\ (be = "native" \/ ex = "unwind")
  <2> DEFINE z == <<Ret>> \o after
  <2>1. z \in Seq(Instr) /\ z # <<>> /\ Head(z) = Ret
    BY <1>3, <1>9, Prefixed
  <2>2. (v \o <<Ret>>) \o after = v \o z
    <3> DEFINE one == <<Ret>>
    <3>1. one \in Seq(Instr) /\ v \in Seq(Instr) /\ after \in Seq(Instr)
      BY <1>3, <1>8, <1>9, One
    <3> HIDE DEF one
    <3>2. Three(v, one, after)
      BY <3>1, AssociativeThree
    <3> QED
      BY <3>2 DEF Three, one
  <2>3. s.code = v \o z
    BY <1>3, <1>14, <2>2
  <2> HIDE DEF z
  <2>4. ASSUME NEW t \in States, t.code = z PROVE ReachedTop(f, be, fr, ex, t, x)
    <3>1. Halts(t)
      BY <1>9, <2>1, <2>4 DEF Halts
    <3> QED
      BY <1>5, <1>14, <3>1 DEF ReachedTop, Leaving
  <2>5. Keeps(f, be, fs, ex, m2, r2, s)
    BY <1>13, <2>1, <2>3, <2>4
  <2> QED
    BY <1>6, <2>5 DEF p
<1>15. CASE First(f, be, fr, x.owed) = v \o cl \o <<Ret>> /\ be = "wasm" /\ ex = "return"
  <2> DEFINE z == cl \o (<<Ret>> \o after)
  <2> HIDE DEF cl
  <2>0. cl \in Seq(Instr)
    BY <1>10 DEF cl
  <2>1. <<Ret>> \o after \in Seq(Instr) /\ z \in Seq(Instr) /\ cl \o <<Ret>> \in Seq(Instr)
    BY <1>3, <1>9, <2>0, ConcatenationAt
  <2>2. ((v \o cl) \o <<Ret>>) \o after = v \o z
    <3>1. <<Ret>> \in Seq(Instr) /\ after \in Seq(Instr) /\ v \in Seq(Instr)
      BY <1>3, <1>8, <1>9
    <3> DEFINE one == <<Ret>>
    <3> HIDE DEF one
    <3>2. ((v \o cl) \o one) \o after = v \o (cl \o (one \o after))
      <4>1. one \in Seq(Instr)
        BY <3>1 DEF one
      <4>2. Four(v, cl, one, after)
        BY <2>0, <3>1, <4>1, AssociativeFour
      <4> QED
        BY <4>2 DEF Four
    <3> QED
      BY <3>2 DEF one
  <2>3. s.code = v \o z
    BY <1>3, <1>15, <2>2
  <2>4. ASSUME NEW t \in States, t.code = z PROVE ReachedTop(f, be, fr, ex, t, x)
    BY <1>3, <1>15, <2>4 DEF ReachedTop, Leaving, cl
  <2> HIDE DEF z
  <2>5. Keeps(f, be, fs, ex, m2, r2, s)
    BY <1>13, <2>1, <2>3, <2>4
  <2> QED
    BY <1>6, <2>5 DEF p
<1> QED
  BY <1>11, <1>12, <1>14, <1>15

\* Into a nested block: the part it is nested in leaves `new` behind, which goes
\* on with x below the block.
Enters(f, be, fs, b, place, new, below, x, m, t) ==
  /\ b \in DOMAIN f.blocks /\ place \in {"statement", "value"}
  /\ new \in Frame /\ new.block = fs[1].block /\ LowerOK(f, be, b, new)
  /\ x \in Rest /\ Over(f, be, new, x, below[1])
  /\ t.code = BlockCode(f, b, ContextOf(f, be, Begun(b, place), x.owed)) \o x.code
  /\ t.loops = x.loops
  /\ Same(be, m, t.trace)

Inside(fs, b, place, new) == <<Begun(b, place)>> \o (<<new>> \o Tail(fs))

LEMMA EnterReached ==
  ASSUME NEW f \in Functions, NEW be \in {"native", "wasm"}, NEW fs \in Seq(Frame), fs # <<>>,
         Lower(f, be, fs), NEW below, Beneath(f, be, fs, below),
         NEW b, NEW place, NEW new, NEW x, NEW m, NEW t,
         Enters(f, be, fs, b, place, new, below, x, m, t)
  PROVE  /\ StackOK(f, be, Inside(fs, b, place, new), "next")
         /\ Goal(f, be, Inside(fs, b, place, new), "next", m, t.acc, t)
<1> DEFINE g == Begun(b, place)
           fs1 == <<new>> \o Tail(fs)
           fs2 == <<g>> \o fs1
           u == <<x>> \o below
<1>1. /\ b \in DOMAIN f.blocks /\ place \in {"statement", "value"}
      /\ new \in Frame /\ new.block = fs[1].block /\ LowerOK(f, be, b, new)
      /\ x \in Rest /\ Over(f, be, new, x, below[1])
      /\ t.code = BlockCode(f, b, ContextOf(f, be, g, x.owed)) \o x.code
      /\ t.loops = x.loops /\ Same(be, m, t.trace)
  BY DEF Enters
<1>2. x.owed \in Seq(Nat) /\ place \in Place /\ place # "function"
  BY <1>1, RestFields DEF Place
<1>3. /\ g \in Frame /\ FrameOK(f, g) /\ Settled(f, g) /\ ~g.again
      /\ g.block = b /\ Alive(f, be, g)
      /\ RestOf(f, be, g, x.owed) = BlockCode(f, b, ContextOf(f, be, g, x.owed))
  BY <1>1, <1>2, BegunFrame
<1> HIDE DEF g
<1>4. fs1 \in Seq(Frame) /\ fs1 # <<>> /\ fs1[1] = new
  BY <1>1, Retopped
<1>5. Lower(f, be, fs1)
  BY <1>1, LowerRetopped
<1>6. Beneath(f, be, fs1, below)
  BY <1>1, BeneathRetopped
<1> HIDE DEF fs1
<1>7. Lower(f, be, fs2) /\ fs2 \in Seq(Frame) /\ fs2 # <<>> /\ fs2[1] = g
  <2>1. LowerOK(f, be, g.block, fs1[1])
    BY <1>1, <1>3, <1>4
  <2>2. Lower(f, be, fs2)
    BY <1>3, <1>4, <1>5, <2>1, LowerPushed
  <2> QED
    BY <1>3, <1>4, <2>2, Prefixed
<1>8. Beneath(f, be, fs2, u) /\ u[1] = x
  <2>1. Over(f, be, fs1[1], x, below[1])
    BY <1>1, <1>4
  <2> QED
    BY <1>1, <1>3, <1>4, <1>6, <2>1, BeneathPushed
<1> HIDE DEF fs2, u
<1>9. TopOK(f, be, g, "next")
  BY <1>3 DEF TopOK, Leaving
<1>10. StackOK(f, be, fs2, "next")
  BY <1>7, <1>9 DEF StackOK
<1>11. ReachedTop(f, be, g, "next", t, x)
  BY <1>1, <1>3 DEF ReachedTop, Leaving
<1>12. GoalSame(f, be, fs2, "next", m, t, u)
  BY <1>1, <1>7, <1>8, <1>11 DEF GoalSame
<1>13. Goal(f, be, fs2, "next", m, t.acc, t)
  BY <1>12, GoalAgain
<1> QED
  BY <1>10, <1>13 DEF Inside, fs2, fs1, g

\* The frame that a block nested in a part leaves behind, over the code after
\* the part.
LEMMA PastOver ==
  ASSUME NEW f \in Functions, NEW be \in {"native", "wasm"}, NEW fr \in Frame, FrameOK(f, fr),
         Settled(f, fr), fr.next <= Len(Parts(f, fr.block)),
         Parts(f, fr.block)[fr.next].k # "defer",
         NEW y \in Rest, NEW after, AfterPart(f, be, fr, Past(f, fr), y, after)
  PROVE  LET x == Going(after, y.loops, fr.pending \o y.owed)
         IN  /\ x \in Rest /\ x.code = after /\ x.loops = y.loops /\ x.owed = fr.pending \o y.owed
             /\ Over(f, be, Past(f, fr), x, y)
<1> DEFINE new == Past(f, fr)
           o == fr.pending \o y.owed
           x == Going(after, y.loops, o)
<1>1. /\ after \in Seq(Instr) /\ ~new.again
      /\ Alive(f, be, new) => after = RestOf(f, be, new, y.owed) \o y.code
  BY DEF AfterPart
<1>2. y.loops \in Seq(Headers) /\ o \in Seq(Nat)
  BY RestFields, FrameFields, ConcatenationAt
<1>3. x \in Rest /\ x.code = after /\ x.loops = y.loops /\ x.owed = o
  <2> HIDE DEF o
  <2> QED
    BY <1>1, <1>2, GoingType
<1>4. new.pending = fr.pending
  BY PastPending
<1> HIDE DEF new, x
<1>5. Over(f, be, new, x, y)
  BY <1>1, <1>3, <1>4 DEF Over
<1> QED
  BY <1>3, <1>5 DEF new, x

\* The code goes into a block.
LEMMA BlockStep ==
  ASSUME NEW f \in Functions, NEW be \in {"native", "wasm"}, NEW fs \in Seq(Frame), fs # <<>>,
         StackOK(f, be, fs, "next"), fs[1].next <= Len(Parts(f, fs[1].block)),
         NEW m \in Seq(Meaning), NEW r \in Nat, NEW s \in States, Goal(f, be, fs, "next", m, r, s),
         Parts(f, fs[1].block)[fs[1].next].k = "block"
  PROVE  LET fs2 == Inside(fs, Parts(f, fs[1].block)[fs[1].next].then, "value", Past(f, fs[1]))
         IN  StackOK(f, be, fs2, "next") /\ Keeps(f, be, fs2, "next", m, r, s)
<1> DEFINE fr == fs[1]
           p == Parts(f, fr.block)[fr.next]
           b == p.then
           new == Past(f, fr)
           fs2 == Inside(fs, b, "value", new)
<1>1. /\ fr \in Frame /\ FrameOK(f, fr) /\ Settled(f, fr) /\ Alive(f, be, fr)
      /\ Same(be, m, s.trace) /\ s.acc = r
      /\ fr.block \in DOMAIN f.blocks /\ fr.next \in DOMAIN Parts(f, fr.block)
  BY Opened
<1>2. PICK below, after : Opens(f, be, fs, s, below, after)
  BY Opened
<1> DEFINE y == below[1]
           x == Going(after, y.loops, fr.pending \o y.owed)
           c == ContextOf(f, be, fr, y.owed)
           i == Enter(b, Within(c))
           t == St(BlockCode(f, b, Within(c)) \o after, s.loops, s.trace, s.acc)
<1>3. /\ Beneath(f, be, fs, below) /\ y \in Rest /\ AfterPart(f, be, fr, new, y, after)
      /\ s.code = First(f, be, fr, y.owed) \o after
      /\ s.loops = IF fr.again THEN <<s.code>> \o y.loops ELSE y.loops
  BY <1>2 DEF Opens
<1>4. ~fr.again /\ b \in DOMAIN f.blocks /\ b \in Nat
  <2>1. ~fr.again
    BY <1>1 DEF FrameOK
  <2> QED
    BY <1>1, <2>1, PartType
<1>5. x \in Rest /\ x.code = after /\ x.loops = y.loops /\ x.owed = fr.pending \o y.owed /\ Over(f, be, new, x, y)
  BY <1>1, <1>3, PastOver
<1>6. /\ new \in Frame /\ new.block = fr.block /\ after \in Seq(Instr)
      /\ FrameOK(f, new) /\ Settled(f, new) /\ ~new.again
      /\ ~Alive(f, be, new) => be = "native" /\ Dies(f, p)
  BY <1>3 DEF AfterPart
<1>7. LowerOK(f, be, b, new)
  <2>1. Dies(f, p) => BlocksDying(f)[b]
    BY DEF Dies, DiesIn, Leaving
  <2> QED
    BY <1>6, <2>1 DEF LowerOK
<1>8. y.owed \in Seq(Nat) /\ y.loops \in Seq(Headers)
  BY <1>3, RestFields
<1>9. c \in Context
  BY <1>8, ContextOfType
<1>10. Within(c) \in Context /\ BlockCode(f, b, Within(c)) \in Seq(Instr)
  <2> HIDE DEF c, b
  <2>1. Within(c) \in Context
    BY <1>1, <1>9, UnderType
  <2>2. 1 \in 1 .. Len(Parts(f, b)) + 1
    BY <1>4, FunctionType
  <2> HIDE DEF Within
  <2> QED
    BY <1>4, <2>1, <2>2, FromSteps DEF BlockCode
<1>11. ContextOf(f, be, Begun(b, "value"), x.owed) = Within(c)
  BY <1>1, <1>4, <1>5, <1>8, ContextNested
<1>12. First(f, be, fr, y.owed) = <<Error>> \/ First(f, be, fr, y.owed) = <<i>>
  <2>1. \/ First(f, be, fr, y.owed) = <<Error>>
        \/ Written(f, fr.block, fr.next, c, p) /\ First(f, be, fr, y.owed) = PartCode(f, fr.block, fr.next, c)
    BY <1>1, <1>4, <1>8, FirstWritten
  <2>2. p.k = "block"
    OBVIOUS
  <2> HIDE DEF c, p
  <2>3. Written(f, fr.block, fr.next, c, p) => PartCode(f, fr.block, fr.next, c) = <<Enter(p.then, Within(c))>>
    BY <2>2 DEF Written
  <2> QED
    BY <2>1, <2>3
<1>13. t \in States /\ t.code = BlockCode(f, b, Within(c)) \o after
       /\ t.loops = s.loops /\ t.trace = s.trace /\ t.acc = s.acc
  <2> DEFINE d == BlockCode(f, b, Within(c)) \o after
  <2>1. d \in Seq(Instr)
    BY <1>6, <1>10, ConcatenationAt
  <2>2. s.loops \in Seq(Headers) /\ s.trace \in Seq(Nat) /\ s.acc \in Nat
    BY StateFields
  <2> HIDE DEF d
  <2>3. St(d, s.loops, s.trace, s.acc) \in States
        /\ St(d, s.loops, s.trace, s.acc).code = d /\ St(d, s.loops, s.trace, s.acc).loops = s.loops
        /\ St(d, s.loops, s.trace, s.acc).trace = s.trace /\ St(d, s.loops, s.trace, s.acc).acc = s.acc
    BY <2>1, <2>2, StateType
  <2> QED
    BY <2>3 DEF d
<1> HIDE DEF t
<1>14. Enters(f, be, fs, b, "value", new, below, x, m, t)
  <2> HIDE DEF x, b, new, c
  <2> QED
    BY <1>1, <1>3, <1>4, <1>5, <1>6, <1>7, <1>11, <1>13 DEF Enters
<1>15. StackOK(f, be, fs2, "next") /\ Goal(f, be, fs2, "next", m, t.acc, t)
  <2>1. Lower(f, be, fs)
    BY DEF StackOK
  <2> HIDE DEF x, b, new
  <2> QED
    BY <1>3, <1>14, <2>1, EnterReached
<1> HIDE DEF fs2
<1>16. CASE First(f, be, fr, y.owed) = <<Error>>
  <2>1. Stuck(s)
    BY <1>3, <1>6, <1>16, Refused
  <2>2. Keeps(f, be, fs2, "next", m, r, s)
    BY <2>1, KeepsStill
  <2> QED
    BY <1>15, <2>2 DEF fs2
<1>17. CASE First(f, be, fr, y.owed) = <<i>>
  <2>1. i \in Instr /\ i.op = "enter" /\ i.then = b /\ i.under = Within(c)
    <3>1. 0 \in Nat
      OBVIOUS
    <3> HIDE DEF b, c
    <3> HIDE DEF Within
    <3> QED
      BY <1>4, <1>10, <3>1, Instructions
  <2> HIDE DEF i
  <2>2. s.code # <<>> /\ Head(s.code) = i /\ Tail(s.code) = after
    BY <1>3, <1>6, <1>17, <2>1, Prefixed
  <2>3. Follows(f, s, t)
    BY <2>1, <2>2 DEF Follows, t
  <2>4. Keeps(f, be, fs2, "next", m, r, s)
    BY <1>1, <1>13, <1>15, <2>3, KeepsMoved
  <2> QED
    BY <1>15, <2>4 DEF fs2
<1> QED
  BY <1>12, <1>16, <1>17

\* A frame, once the last of its deferred expressions has run.
Drained(fr) == At(fr.block, fr.next, fr.place, Tail(fr.pending), fr.again)

LEMMA DrainedFrame ==
  ASSUME NEW f, NEW be, NEW fr \in Frame, fr.pending # <<>>, NEW ex, TopOK(f, be, fr, ex),
         ex = "next" => fr.next > Len(Parts(f, fr.block))
  PROVE  /\ Drained(fr) \in Frame /\ Drained(fr).block = fr.block
         /\ Drained(fr).pending = Tail(fr.pending)
         /\ Drained(fr).next = fr.next /\ Drained(fr).again = fr.again
         /\ TopOK(f, be, Drained(fr), ex)
<1> DEFINE g == Drained(fr)
<1>1. /\ fr.block \in Nat /\ fr.next \in Nat /\ fr.place \in Place
      /\ fr.pending \in Seq(Nat) /\ fr.again \in BOOLEAN
  BY FrameFields
<1>2. Tail(fr.pending) \in Seq(Nat)
  BY <1>1, Uncons
<1>3. /\ g \in Frame /\ g.block = fr.block /\ g.pending = Tail(fr.pending)
      /\ g.next = fr.next /\ g.again = fr.again /\ g.place = fr.place
  BY <1>1, <1>2 DEF Drained, At, Frame
<1> HIDE DEF g
<1>4. FrameOK(f, fr) => FrameOK(f, g)
  BY <1>3 DEF FrameOK
<1>5. Alive(f, be, fr) => Alive(f, be, g)
  BY <1>3 DEF Alive
<1>6. ex = "next" => ~(g.next <= Len(Parts(f, g.block)))
  <2> SUFFICES ASSUME ex = "next" PROVE ~(g.next <= Len(Parts(f, g.block)))
    OBVIOUS
  <2>1. FrameOK(f, fr)
    BY DEF TopOK
  <2>2. fr.next \in 1 .. Len(Parts(f, fr.block)) + 1
    BY <2>1 DEF FrameOK
  <2>3. fr.next > Len(Parts(f, fr.block))
    OBVIOUS
  <2> QED
    BY <1>1, <1>3, <2>2, <2>3
<1>7. TopOK(f, be, g, ex)
  BY <1>3, <1>4, <1>5, <1>6 DEF TopOK
<1> QED
  BY <1>3, <1>7 DEF g

Owes(s, d, e, z) == s.code = Cleanups(d \o e) \o z /\ z \in Seq(Instr)
Owing(d, e, z) == Cleanups(Tail(d) \o e) \o z

\* The code of the first of some deferred expressions.
LEMMA FirstClean ==
  ASSUME NEW d \in Seq(Nat), d # <<>>, NEW e \in Seq(Nat), NEW z, NEW s, Owes(s, d, e, z)
  PROVE  Comes(s, Clean(Head(d)), Owing(d, e, z))
<1>0. s.code = Cleanups(d \o e) \o z /\ z \in Seq(Instr)
  BY DEF Owes
<1> DEFINE n == Head(d)
           y == Tail(d)
           c == Cleanups(y \o e)
           one == <<Clean(n)>>
<1>1. n \in Nat /\ y \in Seq(Nat) /\ d = <<n>> \o y
  BY Uncons
<1> HIDE DEF n, y
<1>2. y \o e \in Seq(Nat) /\ <<n>> \in Seq(Nat)
  BY <1>1, ConcatenationAt
<1>3. (<<n>> \o y) \o e = <<n>> \o (y \o e)
  BY <1>1
<1>4. d \o e = <<n>> \o (y \o e)
  BY <1>1, <1>3
<1>5. Cleanups(<<n>> \o (y \o e)) = <<Clean(n)>> \o c
  BY <1>1, <1>2, CleanupsOf
<1>6. Clean(n) \in Instr /\ c \in Seq(Instr)
  BY <1>1, <1>2, Single, CleanupsType
<1>7. one \in Seq(Instr)
  BY <1>6, One
<1> HIDE DEF c, one
<1>8. (one \o c) \o z = one \o (c \o z)
  <2>1. z \in Seq(Instr) /\ c \in Seq(Instr)
    BY <1>0, <1>6
  <2>2. Three(one, c, z)
    BY <1>7, <2>1, AssociativeThree
  <2> QED
    BY <2>2 DEF Three
<1>9. s.code = <<Clean(n)>> \o (c \o z)
  BY <1>0, <1>4, <1>5, <1>8 DEF one
<1>10. c \o z \in Seq(Instr)
  BY <1>0, <1>6, ConcatenationAt
<1> QED
  BY <1>9, <1>10 DEF Comes, n, y, c, Owing

\* A deferred expression runs, or the code has left its block without it.
LEMMA CleanupStep ==
  ASSUME NEW f \in Functions, NEW be \in {"native", "wasm"}, NEW fs \in Seq(Frame), fs # <<>>,
         NEW ex \in Exit, StackOK(f, be, fs, ex),
         ex = "next" => fs[1].next > Len(Parts(f, fs[1].block)), fs[1].pending # <<>>,
         NEW m \in Seq(Meaning), NEW r \in Nat, NEW s \in States, Goal(f, be, fs, ex, m, r, s)
  PROVE  LET fs2 == <<Drained(fs[1])>> \o Tail(fs)
         IN  /\ StackOK(f, be, fs2, ex)
             /\ Keeps(f, be, fs2, ex, Append(m, MeaningOf(Head(fs[1].pending), ex)), r, s)
<1> DEFINE fr == fs[1]
           n == Head(fr.pending)
           d == fr.pending
           g == Drained(fr)
           fs2 == <<g>> \o Tail(fs)
           m2 == Append(m, MeaningOf(n, ex))
<1>1. fr \in Frame /\ TopOK(f, be, fr, ex)
  BY DEF StackOK
<1>2. /\ g \in Frame /\ g.block = fr.block /\ g.pending = Tail(d)
      /\ g.next = fr.next /\ g.again = fr.again
      /\ TopOK(f, be, g, ex)
  BY <1>1, DrainedFrame
<1>3. StackOK(f, be, fs2, ex)
  BY <1>1, <1>2, StackTop
<1>4. PICK below : Beneath(f, be, fs, below) /\ Reached(f, be, fs, ex, s, below)
  BY DEF Goal
<1> DEFINE x == below[1]
<1>5. x \in Rest /\ ReachedTop(f, be, fr, ex, s, x) /\ Same(be, m, s.trace) /\ s.acc = r
  BY <1>4, BeneathPopped DEF Reached, Goal
<1>6. d \in Seq(Nat) /\ d # <<>> /\ x.owed \in Seq(Nat) /\ x.code \in Seq(Instr)
  BY <1>1, <1>5, FrameFields, RestFields
<1>7. n \in Nat /\ Tail(d) \in Seq(Nat) /\ n = Head(d)
  BY <1>6, Uncons
<1> HIDE DEF n, d
<1>8. MeaningOf(n, ex) \in Meaning /\ MeaningOf(n, ex).n = n /\ MeaningOf(n, ex).left = ex
  BY <1>7, MeaningType
\* The code runs it.
<1>9. ASSUME NEW z, Comes(s, Clean(n), z), ex \in Runs[be],
             \A t : t.code = z /\ t.loops = s.loops => ReachedTop(f, be, g, ex, t, x)
      PROVE  Keeps(f, be, fs2, ex, m2, r, s)
  <2>1. PICK t \in States : CallsTo(f, s, t, z, n, s.acc)
    BY <1>7, <1>9, CleanState
  <2>2. /\ t.code = z /\ t.loops = s.loops /\ t.trace = Append(s.trace, n) /\ t.acc = s.acc
        /\ Follows(f, s, t)
    BY <2>1 DEF CallsTo
  <2>3. s.trace \in Seq(Nat)
    BY StateFields
  <2>4. Same(be, m2, t.trace)
    BY <1>5, <1>8, <1>9, <2>2, <2>3, SameKept
  <2>5. ReachedTop(f, be, g, ex, t, x)
    BY <1>9, <2>2
  <2> HIDE DEF g, m2
  <2>6. Goal(f, be, fs2, ex, m2, t.acc, t)
    BY <1>2, <1>4, <2>4, <2>5, GoalTop
  <2> HIDE DEF fs2
  <2> QED
    BY <1>5, <2>2, <2>6, KeepsMoved
\* The code has left the block.
<1>10. ASSUME ex \notin Runs[be], ex # "next", ~(ex = "return" /\ be = "wasm")
       PROVE  Keeps(f, be, fs2, ex, m2, r, s)
  <2>1. ReachedTop(f, be, g, ex, s, x)
    BY <1>5, <1>10 DEF ReachedTop
  <2>2. Same(be, m2, s.trace)
    BY <1>5, <1>8, <1>10, SameLost
  <2> HIDE DEF g, m2
  <2>3. Goal(f, be, fs2, ex, m2, r, s)
    BY <1>2, <1>4, <1>5, <2>1, <2>2, GoalTop
  <2> HIDE DEF fs2
  <2> QED
    BY <2>3, KeepsStill
<1>11. CASE ex = "next"
  <2>1. ~fr.again
    <3>1. FrameOK(f, fr) /\ fr.next > Len(Parts(f, fr.block))
      BY <1>1, <1>11 DEF TopOK
    <3> QED
      BY <1>1, <3>1, PartOf DEF FrameOK
  <2>2. fr.next > Len(Parts(f, fr.block))
    BY <1>11
  <2>3. s.code = Cleanups(d) \o x.code /\ s.loops = x.loops
    BY <1>5, <1>11, <2>1, <2>2 DEF ReachedTop, RestOf, d
  <2> DEFINE z == Cleanups(Tail(d) \o <<>>) \o x.code
  <2>4. Comes(s, Clean(n), z)
    <3>1. d \o <<>> = d /\ <<>> \in Seq(Nat)
      BY <1>6
    <3>2. Owes(s, d, <<>>, x.code)
      BY <1>6, <2>3, <3>1 DEF Owes
    <3>3. Comes(s, Clean(n), Owing(d, <<>>, x.code))
      BY <1>6, <1>7, <3>1, <3>2, FirstClean
    <3> QED
      BY <3>3 DEF Owing
  <2>5. Tail(d) \o <<>> = Tail(d)
    BY <1>7
  <2>6. RestOf(f, be, g, x.owed) = Cleanups(Tail(d))
    <3> HIDE DEF g
    <3> QED
      BY <1>2, <2>1, <2>2 DEF RestOf
  <2>7. ASSUME NEW t, t.code = z, t.loops = s.loops PROVE ReachedTop(f, be, g, ex, t, x)
    <3> HIDE DEF g
    <3> QED
      BY <1>2, <1>11, <2>1, <2>3, <2>5, <2>6, <2>7 DEF ReachedTop, Leaving
  <2> HIDE DEF z
  <2>8. ex \in Runs[be]
    BY <1>11, RunsNext
  <2>9. Keeps(f, be, fs2, ex, m2, r, s)
    BY <1>9, <2>4, <2>7, <2>8
  <2> QED
    BY <1>3, <2>9 DEF n, d
<1>12. CASE ex = "return" /\ be = "wasm"
  <2>1. PICK dead \in Seq(Instr) : s.code = Cleanups(d \o x.owed) \o (<<Ret>> \o dead)
    BY <1>5, <1>12 DEF ReachedTop, d
  <2> DEFINE q == <<Ret>> \o dead
             z == Cleanups(Tail(d) \o x.owed) \o q
  <2>2. q \in Seq(Instr)
    <3>1. Ret \in Instr
      <4>1. 0 \in Nat
        OBVIOUS
      <4> QED
        BY <4>1, Single
    <3> QED
      BY <3>1, Prefixed
  <2>3. Comes(s, Clean(n), z)
    <3>1. Owes(s, d, x.owed, q)
      BY <2>1, <2>2 DEF Owes
    <3> HIDE DEF q
    <3>2. Comes(s, Clean(n), Owing(d, x.owed, q))
      BY <1>6, <1>7, <3>1, FirstClean
    <3> QED
      BY <3>2 DEF Owing
  <2>4. ASSUME NEW t, t.code = z, t.loops = s.loops PROVE ReachedTop(f, be, g, ex, t, x)
    <3> HIDE DEF g
    <3> QED
      BY <1>2, <1>12, <2>4 DEF ReachedTop, Leaving
  <2> HIDE DEF z
  <2>5. ex \in Runs[be]
    BY <1>12, RunsNext
  <2>6. Keeps(f, be, fs2, ex, m2, r, s)
    BY <1>9, <2>3, <2>4, <2>5
  <2> QED
    BY <1>3, <2>6 DEF n, d
<1>13. CASE ex # "next" /\ ~(ex = "return" /\ be = "wasm")
  <2>1. ex \notin Runs[be]
    BY <1>13 DEF Runs
  <2>2. Keeps(f, be, fs2, ex, m2, r, s)
    BY <1>10, <1>13, <2>1
  <2> QED
    BY <1>3, <2>2 DEF n, d
<1> QED
  BY <1>11, <1>12, <1>13

\* What is left under a block that ends.
LEMMA EndBelow ==
  ASSUME NEW f \in Functions, NEW be \in {"native", "wasm"}, NEW fs \in Seq(Frame), fs # <<>>,
         NEW ex, StackOK(f, be, fs, ex), NEW m, NEW r, NEW s, Goal(f, be, fs, ex, m, r, s)
  PROVE  \E x, u : /\ ReachedTop(f, be, fs[1], ex, s, x) /\ x \in Rest
                   /\ Beneath(f, be, Tail(fs), u) /\ Same(be, m, s.trace) /\ s.acc = r
                   /\ Tail(fs) = <<>> => x = Bottom
                   /\ Tail(fs) # <<>> => /\ Tail(fs)[1] = fs[2] /\ fs[2] \in Frame
                                         /\ u[1] \in Rest /\ Over(f, be, fs[2], x, u[1])
                                         /\ LowerOK(f, be, fs[1].block, fs[2])
<1>1. PICK below : Beneath(f, be, fs, below) /\ Reached(f, be, fs, ex, s, below)
  BY DEF Goal
<1>2. /\ Beneath(f, be, Tail(fs), Tail(below)) /\ below[1] \in Rest
      /\ Tail(fs) = <<>> => below[1] = Bottom
      /\ Tail(fs) # <<>> => Tail(below)[1] \in Rest /\ Over(f, be, fs[2], below[1], Tail(below)[1])
  BY <1>1, BeneathPopped
<1>3. Lower(f, be, fs)
  BY DEF StackOK
<1>4. Tail(fs) # <<>> => /\ Tail(fs)[1] = fs[2] /\ fs[2] \in Frame
                         /\ LowerOK(f, be, fs[1].block, fs[2])
  BY <1>3, LowerPopped
<1>5. ReachedTop(f, be, fs[1], ex, s, below[1]) /\ Same(be, m, s.trace) /\ s.acc = r
  BY <1>1 DEF Reached, Goal
<1> QED
  BY <1>2, <1>4, <1>5

AtEnd(be, ex, s, x) ==
  /\ ex = "next" => s.code = x.code /\ s.loops = x.loops
  /\ ex = "return" /\ be = "wasm" =>
       \E dead \in Seq(Instr) : s.code = Cleanups(x.owed) \o (<<Ret>> \o dead)

\* The code at the end of a block, with nothing pending.
LEMMA EndCode ==
  ASSUME NEW f \in Functions, NEW be \in {"native", "wasm"}, NEW fr \in Frame, fr.pending = <<>>,
         NEW ex, TopOK(f, be, fr, ex), ex = "next" => fr.next > Len(Parts(f, fr.block)),
         NEW s, NEW x \in Rest, ReachedTop(f, be, fr, ex, s, x)
  PROVE  AtEnd(be, ex, s, x)
<1>1. x.code \in Seq(Instr) /\ x.owed \in Seq(Nat)
  BY RestFields
<1>2. ASSUME ex = "next" PROVE s.code = x.code /\ s.loops = x.loops
  <2>1. FrameOK(f, fr) /\ fr.next > Len(Parts(f, fr.block))
    BY <1>2 DEF TopOK
  <2>2. ~fr.again
    BY <2>1, PartOf DEF FrameOK
  <2>3. RestOf(f, be, fr, x.owed) = Cleanups(<<>>)
    BY <2>1, <2>2 DEF RestOf
  <2>4. Cleanups(<<>>) = <<>>
    BY DEF Cleanups
  <2>5. s.code = <<>> \o x.code /\ s.loops = x.loops
    BY <1>2, <2>2, <2>3, <2>4 DEF ReachedTop
  <2> QED
    BY <1>1, <2>5
<1>3. ASSUME ex = "return", be = "wasm"
      PROVE  \E dead \in Seq(Instr) : s.code = Cleanups(x.owed) \o (<<Ret>> \o dead)
  <2>1. <<>> \o x.owed = x.owed
    BY <1>1
  <2> QED
    BY <1>3, <2>1 DEF ReachedTop
<1> QED
  BY <1>2, <1>3 DEF AtEnd

\* A block ends, and with it the function or a part of the block around it.
LEMMA EndStep ==
  ASSUME NEW f \in Functions, NEW be \in {"native", "wasm"}, NEW fs \in Seq(Frame), fs # <<>>,
         NEW ex \in Exit, StackOK(f, be, fs, ex),
         ex = "next" => fs[1].next > Len(Parts(f, fs[1].block)), fs[1].pending = <<>>,
         NEW m, NEW r, NEW s \in States, Goal(f, be, fs, ex, m, r, s),
         ~(ex \in Leaving /\ Len(fs) > 1 /\ fs[2].again)
  PROVE  StackOK(f, be, Tail(fs), ex) /\ Keeps(f, be, Tail(fs), ex, m, r, s)
<1> DEFINE fr == fs[1]
           w == Tail(fs)
           g == fs[2]
<1>1. fr \in Frame /\ TopOK(f, be, fr, ex) /\ Lower(f, be, fs)
  BY DEF StackOK
<1>2. Lower(f, be, w) /\ w \in Seq(Frame) /\ (w # <<>> => Len(fs) > 1)
  BY <1>1, LowerPopped
<1>3. PICK x, u :
        /\ ReachedTop(f, be, fr, ex, s, x) /\ x \in Rest
        /\ Beneath(f, be, w, u) /\ Same(be, m, s.trace) /\ s.acc = r
        /\ w = <<>> => x = Bottom
        /\ w # <<>> => /\ w[1] = g /\ g \in Frame
                       /\ u[1] \in Rest /\ Over(f, be, g, x, u[1])
                       /\ LowerOK(f, be, fr.block, g)
  BY EndBelow
<1>4. /\ ex = "next" => s.code = x.code /\ s.loops = x.loops
      /\ ex = "return" /\ be = "wasm" =>
           \E dead \in Seq(Instr) : s.code = Cleanups(x.owed) \o (<<Ret>> \o dead)
  <2>1. AtEnd(be, ex, s, x)
    BY <1>1, <1>3, EndCode
  <2> QED
    BY <2>1 DEF AtEnd
<1>5. ex \in {"next", "return", "unwind", "break", "continue"}
  BY DEF Exit, Leaving
<1>6. CASE w = <<>>
  <2>1. x.code = <<Ret>> /\ x.loops = <<>> /\ x.owed = <<>>
    BY <1>3, <1>6 DEF Bottom, Going
  <2>2. Ret \in Instr /\ Ret.op = "ret"
    <3>1. 0 \in Nat
      OBVIOUS
    <3> QED
      BY <3>1, Single
  <2>3. Halts(s)
    <3>1. CASE ex = "next"
      <4>1. s.code = <<Ret>>
        BY <1>4, <2>1, <3>1
      <4> QED
        BY <2>2, <4>1, One DEF Halts
    <3>2. CASE ex = "return" /\ be = "wasm"
      <4>1. PICK dead \in Seq(Instr) : s.code = Cleanups(<<>>) \o (<<Ret>> \o dead)
        BY <1>4, <2>1, <3>2
      <4>2. Cleanups(<<>>) = <<>>
        BY DEF Cleanups
      <4> DEFINE z == <<Ret>> \o dead
      <4>3. z \in Seq(Instr) /\ z # <<>> /\ Head(z) = Ret
        BY <2>2, Prefixed
      <4>4. s.code = <<>> \o z
        BY <4>1, <4>2
      <4> HIDE DEF z
      <4>5. s.code = z
        BY <4>3, <4>4
      <4> QED
        BY <2>2, <4>3, <4>5 DEF Halts
    <3>3. CASE (ex = "return" /\ be = "native") \/ ex = "unwind"
      BY <1>3, <3>3 DEF ReachedTop
    <3>4. ~(ex \in {"break", "continue"})
      BY <1>3, <2>1 DEF ReachedTop, Leaving
    <3> QED
      BY <1>5, <3>1, <3>2, <3>3, <3>4
  <2>4. Goal(f, be, w, ex, m, r, s)
    BY <1>3, <1>6, <2>3 DEF Goal, Reached
  <2>5. StackOK(f, be, w, ex)
    BY <1>2, <1>6 DEF StackOK
  <2> QED
    BY <2>4, <2>5, KeepsStill
<1>7. CASE w # <<>>
  <2> DEFINE y == u[1]
  <2>1. /\ w[1] = g /\ g \in Frame /\ y \in Rest /\ LowerOK(f, be, fr.block, g)
        /\ x.owed = g.pending \o y.owed
        /\ x.loops = IF g.again THEN <<x.code>> \o y.loops ELSE y.loops
        /\ Alive(f, be, g) => x.code = RestOf(f, be, g, y.owed) \o y.code
    BY <1>3, <1>7 DEF Over
  <2>2. ex \in Leaving => ~g.again
    BY <1>2, <1>7
  <2>3. ex = "next" => Alive(f, be, g)
    <3> SUFFICES ASSUME ex = "next", be = "native", BlocksDying(f)[fr.block] PROVE FALSE
      BY <2>1 DEF LowerOK
    <3>1. FrameOK(f, fr) /\ Alive(f, be, fr) /\ fr.next > Len(Parts(f, fr.block))
      BY <1>1 DEF TopOK
    <3>2. fr.block \in DOMAIN f.blocks /\ DOMAIN Parts(f, fr.block) = 1 .. Len(Parts(f, fr.block))
          /\ fr.next \in Nat /\ Len(Parts(f, fr.block)) \in Nat
      BY <1>1, <3>1, PartOf
    <3>3. PICK i \in DOMAIN Parts(f, fr.block) : Dies(f, Parts(f, fr.block)[i])
      BY <3>2, BlockDies
    <3>4. i < fr.next
      BY <3>1, <3>2
    <3> QED
      BY <3>1, <3>3, <3>4 DEF Alive
  <2>4. StackOK(f, be, w, ex)
    <3>1. TopOK(f, be, g, ex)
      BY <2>1, <2>2, <2>3 DEF TopOK, LowerOK
    <3> QED
      BY <1>2, <2>1, <3>1 DEF StackOK
  <2>5. ReachedTop(f, be, g, ex, s, y)
    <3>1. CASE ex = "next"
      BY <1>4, <2>1, <2>3, <3>1 DEF ReachedTop, Leaving
    <3>2. CASE ex = "return" /\ be = "wasm"
      BY <1>4, <2>1, <3>2 DEF ReachedTop, Leaving
    <3>3. CASE (ex = "return" /\ be = "native") \/ ex = "unwind"
      BY <1>3, <3>3 DEF ReachedTop, Leaving
    <3>4. CASE ex \in {"break", "continue"}
      BY <1>3, <2>1, <2>2, <3>4 DEF ReachedTop, Leaving
    <3> QED
      BY <1>5, <3>1, <3>2, <3>3, <3>4
  <2>6. Goal(f, be, w, ex, m, r, s)
    BY <1>3, <1>7, <2>1, <2>5 DEF Goal, Reached
  <2> QED
    BY <2>4, <2>6, KeepsStill
<1> QED
  BY <1>6, <1>7

\* The body of a while is left by a break or continue.
LEMMA LoopStep ==
  ASSUME NEW f \in Functions, NEW be \in {"native", "wasm"}, NEW fs \in Seq(Frame), fs # <<>>,
         NEW ex \in Leaving, StackOK(f, be, fs, ex), fs[1].pending = <<>>,
         NEW m, NEW r, NEW s \in States, Goal(f, be, fs, ex, m, r, s),
         Len(fs) > 1, fs[2].again
  PROVE  /\ ex = "continue" => StackOK(f, be, Tail(fs), "next") /\ Keeps(f, be, Tail(fs), "next", m, r, s)
         /\ ex = "break" =>
              LET fs2 == <<Past(f, fs[2])>> \o Tail(Tail(fs))
              IN  StackOK(f, be, fs2, "next") /\ Keeps(f, be, fs2, "next", m, r, s)
<1> DEFINE fr == fs[1]
           w == Tail(fs)
           g == fs[2]
<1>1. Lower(f, be, fs)
  BY DEF StackOK
<1>2. Lower(f, be, w) /\ w \in Seq(Frame) /\ w # <<>>
  <2>1. Lower(f, be, w) /\ w \in Seq(Frame) /\ (w = <<>> <=> Len(fs) = 1)
    BY <1>1, LowerPopped
  <2>2. Len(fs) # 1
    OBVIOUS
  <2> QED
    BY <2>1, <2>2
<1>3. PICK x, u :
        /\ ReachedTop(f, be, fr, ex, s, x) /\ x \in Rest
        /\ Beneath(f, be, w, u) /\ Same(be, m, s.trace) /\ s.acc = r
        /\ w[1] = g /\ g \in Frame
        /\ u[1] \in Rest /\ Over(f, be, g, x, u[1])
        /\ LowerOK(f, be, fr.block, g)
  BY <1>2, EndBelow
<1> DEFINE y == u[1]
<1>4. FrameOK(f, g) /\ Settled(f, g) /\ Alive(f, be, g) /\ g.next <= Len(Parts(f, g.block))
      /\ Parts(f, g.block)[g.next].k = "while"
  BY <1>3 DEF LowerOK, FrameOK
<1>5. TopOK(f, be, g, "next")
  BY <1>4 DEF TopOK, Leaving
<1>6. /\ x.loops = <<x.code>> \o y.loops
      /\ x.code = RestOf(f, be, g, y.owed) \o y.code
      /\ y.loops \in Seq(Headers) /\ x.code \in Seq(Instr) /\ y.owed \in Seq(Nat)
  BY <1>3, <1>4, RestFields DEF Over
<1>7. StackOK(f, be, w, "next")
  BY <1>2, <1>3, <1>5 DEF StackOK
<1>8. PICK after : /\ AfterPart(f, be, g, Past(f, g), y, after)
                   /\ RestOf(f, be, g, y.owed) \o y.code = First(f, be, g, y.owed) \o after
  BY <1>3, <1>4, <1>5, AtPart
<1> DEFINE i == Again(Parts(f, g.block)[g.next].then,
                      Under(f, g.block, g.next, ContextOf(f, be, g, y.owed)))
<1>9. x.code = <<i>> \o after /\ after \in Seq(Instr)
  BY <1>6, <1>8 DEF First, AfterPart
<1>10. i \in Instr
  <2> DEFINE c == ContextOf(f, be, g, y.owed)
  <2>1. g.block \in DOMAIN f.blocks /\ g.next \in DOMAIN Parts(f, g.block) /\ c \in Context
    BY <1>3, <1>4, <1>6, PartOf, ContextOfType
  <2> HIDE DEF c
  <2>2. Under(f, g.block, g.next, c) \in Context /\ Parts(f, g.block)[g.next].then \in Nat
    BY <2>1, UnderType, PartType
  <2>3. 0 \in Nat
    OBVIOUS
  <2> QED
    BY <2>2, <2>3, Instructions DEF c
<1> HIDE DEF i
<1>11. x.code # <<>> /\ Tail(x.code) = after
  BY <1>9, <1>10, Prefixed
<1>12. x.loops # <<>> /\ Head(x.loops) = x.code /\ Tail(x.loops) = y.loops
  <2> DEFINE h == x.code
             l == y.loops
  <2>1. h \in Headers /\ l \in Seq(Headers)
    BY <1>6, <1>11 DEF Headers
  <2>0. x.loops = <<h>> \o l
    BY <1>6
  <2> HIDE DEF h, l
  <2>2. <<h>> \o l # <<>> /\ Head(<<h>> \o l) = h /\ Tail(<<h>> \o l) = l
    BY <2>1, Prefixed
  <2>3. x.loops # <<>> /\ Head(x.loops) = h /\ Tail(x.loops) = l
    BY <2>0, <2>2
  <2> QED
    BY <2>3 DEF h, l
<1>13. ASSUME ex = "continue" PROVE Keeps(f, be, w, "next", m, r, s)
  <2>1. s.code = x.code /\ s.loops = x.loops
    BY <1>3, <1>12, <1>13 DEF ReachedTop
  <2>2. ReachedTop(f, be, g, "next", s, y)
    BY <1>6, <2>1 DEF ReachedTop, Leaving
  <2>3. Goal(f, be, w, "next", m, r, s)
    BY <1>2, <1>3, <2>2 DEF Goal, Reached
  <2> QED
    BY <2>3, KeepsStill
<1>14. ASSUME ex = "break"
       PROVE  LET fs2 == <<Past(f, g)>> \o Tail(w)
              IN  StackOK(f, be, fs2, "next") /\ Keeps(f, be, fs2, "next", m, r, s)
  <2> DEFINE new == Past(f, g)
             fs2 == <<new>> \o Tail(w)
  <2>1. s.code = after /\ s.loops = y.loops
    BY <1>3, <1>11, <1>12, <1>14 DEF ReachedTop
  <2>2. new \in Frame /\ new.block = g.block /\ Alive(f, be, new) /\ TopOK(f, be, new, "next")
    <3>1. new \in Frame /\ new.block = g.block /\ Alive(f, be, new)
      BY <1>4, <1>8, WhileAlive DEF AfterPart
    <3> QED
      BY <1>8, <3>1, PastTop
  <2>3. StackOK(f, be, fs2, "next")
    BY <1>2, <1>3, <1>7, <2>2, StackTop
  <2>4. ReachedTop(f, be, new, "next", s, y)
    BY <1>8, <2>1, <2>2, PastReached
  <2> HIDE DEF new
  <2>5. Goal(f, be, fs2, "next", m, r, s)
    BY <1>2, <1>3, <2>2, <2>4, GoalTop
  <2> HIDE DEF fs2
  <2>6. Keeps(f, be, fs2, "next", m, r, s)
    BY <2>5, KeepsStill
  <2> QED
    BY <2>3, <2>6 DEF fs2, new
<1> QED
  BY <1>7, <1>13, <1>14

-----------------------------------------------------------------------------
(* The conditions. *)

\* The wasm back end knows no `?`.
LEMMA TryNative ==
  ASSUME NEW f \in Functions, NEW b \in DOMAIN f.blocks, NEW i \in DOMAIN Parts(f, b),
         NEW c \in Context, c.kind # "native", Parts(f, b)[i].k = "try"
  PROVE  PartCode(f, b, i, c) = <<Error>>
<1> DEFINE p == Parts(f, b)[i]
<1>1. Inner.kind = "inner" /\ c.kind \in ContextKind
  BY ContextFields DEF Inner, In
<1>2. Usual(p, Inner) = <<Error>>
  BY <1>1, UsualIs
<1>3. p.k = "try"
  OBVIOUS
<1> HIDE DEF p
<1>4. WasmTail(f, b, p) = <<Error>>
  BY <1>2 DEF WasmTail
<1>5. \A l : WasmStmt(p, l) = <<Error>>
  BY <1>2, <1>3 DEF WasmStmt
<1>6. \/ PartCode(f, b, i, c) = WasmTail(f, b, p)
      \/ PartCode(f, b, i, c) = Usual(p, Inner)
      \/ PartCode(f, b, i, c) = WasmStmt(p, Live(f, b, i - 1, c))
  BY <1>1 DEF PartCode, p, ContextKind
<1> QED
  BY <1>2, <1>4, <1>5, <1>6

\* The instruction of a condition.
AskedBy(f, be, fr, i, owed) ==
  LET p == Parts(f, fr.block)[fr.next]
      c == Under(f, fr.block, fr.next, ContextOf(f, be, fr, owed))
  IN  /\ i.then = p.then
      /\ p.k = "if" => i.op = "test" /\ i.else = p.else /\ i.under = c
      /\ p.k = "while" => i.op = (IF fr.again THEN "again" ELSE "loop") /\ i.under = c
      /\ p.k = "while" /\ fr.again => i = Again(p.then, c)
      /\ p.k = "try" => i.op = "try" /\ be = "native"

AskedAt(f, be, fs, s, below, after) ==
  /\ Opens(f, be, fs, s, below, after)
  /\ after \in Seq(Instr)
  /\ s.code # <<>> /\ Head(s.code) \in Instr /\ Tail(s.code) = after
  /\ AskedBy(f, be, fs[1], Head(s.code), below[1].owed)

LEMMA Asked ==
  ASSUME NEW f \in Functions, NEW be \in {"native", "wasm"}, NEW fs \in Seq(Frame), fs # <<>>,
         StackOK(f, be, fs, "next"), fs[1].next <= Len(Parts(f, fs[1].block)),
         NEW m, NEW r, NEW s \in States, Goal(f, be, fs, "next", m, r, s),
         Parts(f, fs[1].block)[fs[1].next].k \in Asks, ~Stuck(s)
  PROVE  \E below, after : AskedAt(f, be, fs, s, below, after)
<1> DEFINE fr == fs[1]
           p == Parts(f, fr.block)[fr.next]
<1>1. /\ fr \in Frame /\ FrameOK(f, fr)
      /\ fr.block \in DOMAIN f.blocks /\ fr.next \in DOMAIN Parts(f, fr.block)
  BY Opened
<1>2. PICK below, after : Opens(f, be, fs, s, below, after)
  BY Opened
<1> DEFINE y == below[1]
           c0 == ContextOf(f, be, fr, y.owed)
           c == Under(f, fr.block, fr.next, c0)
<1>3. y \in Rest /\ after \in Seq(Instr) /\ s.code = First(f, be, fr, y.owed) \o after
  BY <1>2 DEF Opens, AfterPart
<1>4. p.k \in {"if", "while", "try"} /\ p.then \in Nat /\ p.else \in Nat
      /\ (p.k = "try" => p.then = 0)
  <2>1. p.k \in {"if", "while", "try"}
    BY DEF Asks
  <2> QED
    BY <1>1, <2>1, PartType
<1>5. y.owed \in Seq(Nat) /\ c0 \in Context /\ (c0.kind = "native" <=> be = "native")
  BY <1>3, RestFields, ContextOfType
<1>6. c \in Context
  <2> HIDE DEF c0
  <2> QED
    BY <1>1, <1>5, UnderType
<1>7. First(f, be, fr, y.owed) # <<Error>>
  BY <1>3, Refused
<1>8. 0 \in Nat
  OBVIOUS
<1>9. ASSUME NEW i \in Instr, First(f, be, fr, y.owed) = <<i>>, AskedBy(f, be, fr, i, y.owed)
      PROVE  AskedAt(f, be, fs, s, below, after)
  <2>1. s.code # <<>> /\ Head(s.code) = i /\ Tail(s.code) = after
    BY <1>3, <1>9, Prefixed
  <2> QED
    BY <1>2, <1>3, <1>9, <2>1 DEF AskedAt
<1> HIDE DEF c0
<1>10. CASE fr.again
  <2> DEFINE i == Again(p.then, c)
  <2>1. First(f, be, fr, y.owed) = <<i>>
    BY <1>10 DEF First, c0
  <2>2. p.k = "while"
    BY <1>1, <1>10 DEF FrameOK
  <2> HIDE DEF p, c
  <2>3. i \in Instr /\ i.op = "again" /\ i.then = p.then /\ i.under = c
    BY <1>4, <1>6, <1>8, Instructions
  <2> HIDE DEF i
  <2>4. AskedBy(f, be, fr, i, y.owed)
    <3>1. i = Again(p.then, c)
      BY DEF i
    <3> QED
      BY <1>10, <2>2, <2>3, <3>1 DEF AskedBy, p, c, c0
  <2> QED
    BY <1>9, <2>1, <2>3, <2>4
<1>11. CASE ~fr.again
  <2>1. Written(f, fr.block, fr.next, c0, p) /\ First(f, be, fr, y.owed) = PartCode(f, fr.block, fr.next, c0)
    <3>1. p.k \notin {"defer", "return"}
      BY <1>4
    <3> QED
      BY <1>1, <1>5, <1>7, <1>11, <3>1, FirstWritten DEF c0
  <2>2. CASE p.k = "if"
    <3> DEFINE i == Branching(p.then, p.else, c)
    <3>1. First(f, be, fr, y.owed) = <<i>>
      BY <2>1, <2>2 DEF Written
    <3> HIDE DEF p, c
    <3>2. i \in Instr /\ i.op = "test" /\ i.then = p.then /\ i.else = p.else /\ i.under = c
      BY <1>4, <1>6, <1>8, Instructions
    <3> HIDE DEF i
    <3>3. AskedBy(f, be, fr, i, y.owed)
      BY <2>2, <3>2 DEF AskedBy, p, c, c0
    <3> QED
      BY <1>9, <3>1, <3>2, <3>3
  <2>3. CASE p.k = "while"
    <3> DEFINE i == Loop(p.then, c)
    <3>1. First(f, be, fr, y.owed) = <<i>>
      BY <2>1, <2>3 DEF Written
    <3> HIDE DEF p, c
    <3>2. i \in Instr /\ i.op = "loop" /\ i.then = p.then /\ i.under = c
      BY <1>4, <1>6, <1>8, Instructions
    <3> HIDE DEF i
    <3>3. AskedBy(f, be, fr, i, y.owed)
      BY <1>11, <2>3, <3>2 DEF AskedBy, p, c, c0
    <3> QED
      BY <1>9, <3>1, <3>2, <3>3
  <2>4. CASE p.k = "try"
    <3> DEFINE i == Sole("try")
    <3>1. First(f, be, fr, y.owed) = <<i>>
      BY <2>1, <2>4 DEF Written
    <3>2. i \in Instr /\ i.op = "try" /\ i.then = 0
      <4>1. "try" \in Op
        BY DEF Op, Conditions
      <4> QED
        BY <1>8, <4>1, Single
    <3>3. be = "native"
      <4> SUFFICES ASSUME be # "native" PROVE FALSE
        OBVIOUS
      <4>1. PartCode(f, fr.block, fr.next, c0) = <<Error>>
        BY <1>1, <1>5, <2>4, TryNative
      <4> QED
        BY <1>7, <2>1, <4>1
    <3> HIDE DEF i
    <3>4. AskedBy(f, be, fr, i, y.owed)
      BY <1>4, <2>4, <3>2, <3>3 DEF AskedBy
    <3> QED
      BY <1>9, <3>1, <3>2, <3>4
  <2> QED
    BY <1>4, <2>2, <2>3, <2>4
<1> QED
  BY <1>10, <1>11

Ends(f, be, fs, ex, m, r, t) == StackOK(f, be, fs, ex) /\ Goal(f, be, fs, ex, m, r, t)

\* A while, gone round.
Round(fr) == At(fr.block, fr.next, fr.place, fr.pending, TRUE)

LEMMA RoundFrame ==
  ASSUME NEW f, NEW be, NEW fr \in Frame, FrameOK(f, fr), Settled(f, fr), Alive(f, be, fr),
         fr.next <= Len(Parts(f, fr.block)), Parts(f, fr.block)[fr.next].k = "while"
  PROVE  /\ Round(fr) \in Frame /\ Round(fr).block = fr.block /\ Round(fr).next = fr.next
         /\ Round(fr).pending = fr.pending /\ Round(fr).place = fr.place /\ Round(fr).again
         /\ \A b : LowerOK(f, be, b, Round(fr))
<1> DEFINE g == Round(fr)
<1>1. /\ fr.block \in Nat /\ fr.next \in Nat /\ fr.place \in Place
      /\ fr.pending \in Seq(Nat) /\ fr.again \in BOOLEAN
  BY FrameFields
<1>2. /\ g \in Frame /\ g.block = fr.block /\ g.pending = fr.pending
      /\ g.next = fr.next /\ g.again = TRUE /\ g.place = fr.place
  BY <1>1 DEF Round, At, Frame
<1> HIDE DEF g
<1>3. FrameOK(f, g)
  BY <1>2 DEF FrameOK
<1>4. Alive(f, be, g) /\ Settled(f, g)
  BY <1>2 DEF Alive, Settled
<1> QED
  BY <1>2, <1>3, <1>4 DEF LowerOK, g

\* An arm of an if.
LEMMA ArmEnds ==
  ASSUME NEW f \in Functions, NEW be \in {"native", "wasm"}, NEW fs \in Seq(Frame), fs # <<>>,
         StackOK(f, be, fs, "next"), fs[1].next <= Len(Parts(f, fs[1].block)),
         NEW m, NEW r, NEW s \in States, Goal(f, be, fs, "next", m, r, s),
         Parts(f, fs[1].block)[fs[1].next].k = "if",
         NEW below, NEW after, AskedAt(f, be, fs, s, below, after),
         NEW b \in DOMAIN f.blocks,
         Dies(f, Parts(f, fs[1].block)[fs[1].next]) => BlocksDying(f)[b],
         NEW t, t.code = BlockCode(f, b, Head(s.code).under) \o after, t.loops = s.loops,
         t.trace = s.trace, t.acc = s.acc
  PROVE  Ends(f, be, Inside(fs, b, PlaceOf(f, fs[1]), Past(f, fs[1])), "next", m, r, t)
<1> DEFINE fr == fs[1]
           p == Parts(f, fr.block)[fr.next]
           new == Past(f, fr)
           y == below[1]
           x == Going(after, y.loops, fr.pending \o y.owed)
           c == ContextOf(f, be, fr, y.owed)
           place == PlaceOf(f, fr)
           fs2 == Inside(fs, b, place, new)
<1>1. /\ fr \in Frame /\ FrameOK(f, fr) /\ Settled(f, fr)
      /\ Same(be, m, s.trace) /\ s.acc = r
  BY Opened
<1>2. Opens(f, be, fs, s, below, after) /\ AskedBy(f, be, fr, Head(s.code), y.owed)
  BY DEF AskedAt
<1>3. /\ Beneath(f, be, fs, below) /\ y \in Rest /\ AfterPart(f, be, fr, new, y, after)
      /\ s.loops = IF fr.again THEN <<s.code>> \o y.loops ELSE y.loops
  BY <1>2 DEF Opens
<1>4. ~fr.again
  BY <1>1 DEF FrameOK
<1>5. x \in Rest /\ x.code = after /\ x.loops = y.loops /\ x.owed = fr.pending \o y.owed /\ Over(f, be, new, x, y)
  <2>1. fr.next <= Len(Parts(f, fr.block)) /\ Parts(f, fr.block)[fr.next].k # "defer"
    OBVIOUS
  <2>2. /\ fr \in Frame /\ FrameOK(f, fr) /\ Settled(f, fr)
        /\ y \in Rest /\ AfterPart(f, be, fr, Past(f, fr), y, after)
    BY <1>1, <1>3
  <2> HIDE DEF fr, y
  <2> QED
    BY <2>1, <2>2, PastOver
<1>6. /\ new \in Frame /\ new.block = fr.block
      /\ FrameOK(f, new) /\ Settled(f, new) /\ ~new.again
      /\ ~Alive(f, be, new) => be = "native" /\ Dies(f, p)
  BY <1>3 DEF AfterPart
<1>7. LowerOK(f, be, b, new)
  BY <1>6 DEF LowerOK
<1>8. y.owed \in Seq(Nat)
  BY <1>3, RestFields
<1>9. place \in {"statement", "value"}
      /\ ContextOf(f, be, Begun(b, place), x.owed) = Under(f, fr.block, fr.next, c)
  BY <1>1, <1>5, <1>8, ContextNested
<1>10. Head(s.code).under = Under(f, fr.block, fr.next, c)
  BY <1>2 DEF AskedBy
<1> HIDE DEF x, new, c, place
<1>11. Enters(f, be, fs, b, place, new, below, x, m, t)
  BY <1>1, <1>3, <1>4, <1>5, <1>6, <1>7, <1>9, <1>10 DEF Enters
<1>12. Lower(f, be, fs)
  BY DEF StackOK
<1>13. StackOK(f, be, fs2, "next") /\ Goal(f, be, fs2, "next", m, t.acc, t)
  BY <1>3, <1>11, <1>12, EnterReached
<1> QED
  BY <1>1, <1>13 DEF Ends, place, new

\* Once round a while.
LEMMA RoundEnds ==
  ASSUME NEW f \in Functions, NEW be \in {"native", "wasm"}, NEW fs \in Seq(Frame), fs # <<>>,
         StackOK(f, be, fs, "next"), fs[1].next <= Len(Parts(f, fs[1].block)),
         NEW m, NEW r, NEW s \in States, Goal(f, be, fs, "next", m, r, s),
         Parts(f, fs[1].block)[fs[1].next].k = "while",
         NEW below, NEW after, AskedAt(f, be, fs, s, below, after),
         NEW h \in Seq(Instr), h = Header(Head(s.code), after), h # <<>>,
         NEW t, t.code = BlockCode(f, Head(s.code).then, Head(s.code).under) \o h,
         t.loops = <<h>> \o below[1].loops, t.trace = s.trace, t.acc = s.acc
  PROVE  Ends(f, be, Inside(fs, Parts(f, fs[1].block)[fs[1].next].then, PlaceOf(f, fs[1]), Round(fs[1])),
              "next", m, r, t)
<1> DEFINE fr == fs[1]
           p == Parts(f, fr.block)[fr.next]
           b == p.then
           new == Round(fr)
           y == below[1]
           o == fr.pending \o y.owed
           l == <<h>> \o y.loops
           x == Going(h, l, o)
           c == ContextOf(f, be, fr, y.owed)
           place == PlaceOf(f, fr)
           fs2 == Inside(fs, b, place, new)
<1>1. /\ fr \in Frame /\ FrameOK(f, fr) /\ Settled(f, fr) /\ Alive(f, be, fr)
      /\ fr.block \in DOMAIN f.blocks /\ fr.next \in DOMAIN Parts(f, fr.block)
      /\ Same(be, m, s.trace) /\ s.acc = r
  BY Opened
<1>2. Opens(f, be, fs, s, below, after) /\ AskedBy(f, be, fr, Head(s.code), y.owed)
  BY DEF AskedAt
<1>3. /\ Beneath(f, be, fs, below) /\ y \in Rest /\ AfterPart(f, be, fr, Past(f, fr), y, after)
  BY <1>2 DEF Opens
<1>4. b \in DOMAIN f.blocks
  BY <1>1, PartType
<1>5. y.owed \in Seq(Nat) /\ y.loops \in Seq(Headers) /\ y.code \in Seq(Instr) /\ o \in Seq(Nat)
  BY <1>1, <1>3, RestFields, FrameFields, ConcatenationAt
<1>6. l \in Seq(Headers)
  BY <1>5, Prefixed DEF Headers
<1>7. x \in Rest /\ x.code = h /\ x.loops = l /\ x.owed = o
  <2> HIDE DEF l, o
  <2> QED
    BY <1>5, <1>6, GoingType
<1>8. /\ new \in Frame /\ new.block = fr.block /\ new.next = fr.next
      /\ new.pending = fr.pending /\ new.place = fr.place /\ new.again
      /\ LowerOK(f, be, b, new)
  BY <1>1, RoundFrame
<1>9. /\ Head(s.code).then = b /\ Head(s.code).under = Under(f, fr.block, fr.next, c)
  BY <1>2 DEF AskedBy
\* The header is the code of the frame gone round.
<1>10. h = RestOf(f, be, new, y.owed) \o y.code
  <2> DEFINE i == Again(b, Under(f, fr.block, fr.next, c))
             q == RestOf(f, be, Past(f, fr), y.owed)
  <2>1. h = <<i>> \o after
    BY <1>9 DEF Header
  <2>2. Alive(f, be, Past(f, fr))
    BY <1>3, WhileAlive DEF AfterPart
  <2>3. after = q \o y.code
    BY <1>3, <2>2 DEF AfterPart
  <2>4. q = From(f, fr.block, fr.next + 1, c)
    BY <1>1, <1>5, Advanced
  <2>5. ContextOf(f, be, new, y.owed) = c
    <3> HIDE DEF new
    <3> QED
      BY <1>8 DEF ContextOf
  <2>6. RestOf(f, be, new, y.owed) = <<i>> \o q
    <3> HIDE DEF new, c, q
    <3> QED
      BY <1>8, <2>4, <2>5 DEF RestOf
  <2>7. q \in Seq(Instr)
    <3>1. c \in Context /\ fr.next + 1 \in 1 .. Len(Parts(f, fr.block)) + 1
      BY <1>1, <1>5, ContextOfType, PartOf
    <3> HIDE DEF c, q
    <3> QED
      BY <1>1, <2>4, <3>1, FromSteps
  <2>8. i \in Instr
    <3>1. c \in Context
      BY <1>1, <1>5, ContextOfType
    <3> HIDE DEF c
    <3>2. Under(f, fr.block, fr.next, c) \in Context /\ b \in Nat
      BY <1>1, <3>1, UnderType, PartType
    <3>3. 0 \in Nat
      OBVIOUS
    <3> HIDE DEF b
    <3> QED
      BY <3>2, <3>3, Instructions
  <2> DEFINE one == <<i>>
  <2> HIDE DEF i, q
  <2>9. one \in Seq(Instr)
    BY <2>8, One
  <2> HIDE DEF one
  <2>10. (one \o q) \o y.code = one \o (q \o y.code)
    <3> DEFINE z == y.code
    <3>1. z \in Seq(Instr)
      BY <1>5
    <3> HIDE DEF z
    <3>2. Three(one, q, z)
      BY <2>7, <2>9, <3>1, AssociativeThree
    <3> QED
      BY <3>2 DEF z, Three
  <2> QED
    BY <2>1, <2>3, <2>6, <2>10 DEF one
<1> HIDE DEF l, o
<1>11. Over(f, be, new, x, y)
  <2> HIDE DEF x, new
  <2> QED
    BY <1>7, <1>8, <1>10 DEF Over, l, o
<1>12. place \in {"statement", "value"}
       /\ ContextOf(f, be, Begun(b, place), x.owed) = Under(f, fr.block, fr.next, c)
  <2>1. x.owed = fr.pending \o y.owed
    BY <1>7 DEF o
  <2> HIDE DEF x
  <2> QED
    BY <1>1, <1>4, <1>5, <2>1, ContextNested
<1> HIDE DEF x, new, c, place
<1>13. Enters(f, be, fs, b, place, new, below, x, m, t)
  <2> HIDE DEF b
  <2>1. t.loops = x.loops
    BY <1>7 DEF l
  <2> QED
    BY <1>1, <1>4, <1>7, <1>8, <1>9, <1>11, <1>12, <2>1 DEF Enters
<1>14. Lower(f, be, fs)
  BY DEF StackOK
<1>15. StackOK(f, be, fs2, "next") /\ Goal(f, be, fs2, "next", m, t.acc, t)
  BY <1>3, <1>13, <1>14, EnterReached
<1> QED
  BY <1>1, <1>15 DEF Ends, place, new

\* On to the next part.
LEMMA PastEnds ==
  ASSUME NEW f \in Functions, NEW be \in {"native", "wasm"}, NEW fs \in Seq(Frame), fs # <<>>,
         StackOK(f, be, fs, "next"), fs[1].next <= Len(Parts(f, fs[1].block)),
         NEW m, NEW r, NEW s \in States, Goal(f, be, fs, "next", m, r, s),
         NEW below, NEW after, AskedAt(f, be, fs, s, below, after),
         NEW t, t.trace = s.trace, t.acc = s.acc
  PROVE  /\ /\ ~Dies(f, Parts(f, fs[1].block)[fs[1].next])
            /\ t.code = after
            /\ t.loops = below[1].loops
            => Ends(f, be, <<Past(f, fs[1])>> \o Tail(fs), "next", m, r, t)
         /\ be = "native" /\ Halts(t) => Ends(f, be, <<Past(f, fs[1])>> \o Tail(fs), "return", m, r, t)
<1> DEFINE fr == fs[1]
           p == Parts(f, fr.block)[fr.next]
           new == Past(f, fr)
           y == below[1]
           fs2 == <<new>> \o Tail(fs)
<1>1. fr \in Frame /\ Same(be, m, s.trace) /\ s.acc = r
  BY Opened
<1>2. Opens(f, be, fs, s, below, after)
  BY DEF AskedAt
<1>3. /\ Beneath(f, be, fs, below) /\ AfterPart(f, be, fr, new, y, after)
  BY <1>2 DEF Opens
<1>4. new \in Frame /\ new.block = fr.block
  BY <1>3 DEF AfterPart
<1>5. ASSUME ~Dies(f, p), t.code = after, t.loops = y.loops
      PROVE  Ends(f, be, fs2, "next", m, r, t)
  <2>1. Alive(f, be, new)
    BY <1>3, <1>5 DEF AfterPart
  <2>2. TopOK(f, be, new, "next")
    BY <1>3, <2>1, PastTop
  <2>3. ReachedTop(f, be, new, "next", t, y)
    BY <1>3, <1>5, <2>1, PastReached
  <2> HIDE DEF new
  <2>4. StackOK(f, be, fs2, "next")
    BY <1>4, <2>2, StackTop
  <2>5. Same(be, m, t.trace)
    BY <1>1
  <2>6. Goal(f, be, fs2, "next", m, t.acc, t)
    BY <1>3, <1>4, <2>3, <2>5, GoalTop
  <2> QED
    BY <1>1, <2>4, <2>6 DEF Ends
<1>6. ASSUME be = "native", Halts(t)
      PROVE  Ends(f, be, fs2, "return", m, r, t)
  <2>1. TopOK(f, be, new, "return")
    BY <1>3, PastTop
  <2>2. ReachedTop(f, be, new, "return", t, y)
    BY <1>6 DEF ReachedTop, Leaving
  <2> HIDE DEF new
  <2>3. StackOK(f, be, fs2, "return")
    BY <1>4, <2>1, StackTop
  <2>4. Same(be, m, t.trace)
    BY <1>1
  <2>5. Goal(f, be, fs2, "return", m, t.acc, t)
    BY <1>3, <1>4, <2>2, <2>4, GoalTop
  <2> QED
    BY <1>1, <2>3, <2>5 DEF Ends
<1> QED
  BY <1>5, <1>6

LEMMA BlockCodeType ==
  ASSUME NEW f \in Functions, NEW b \in DOMAIN f.blocks, NEW c \in Context, NEW z \in Seq(Instr)
  PROVE  BlockCode(f, b, c) \o z \in Seq(Instr)
<1>1. 1 \in 1 .. Len(Parts(f, b)) + 1
  BY FunctionType
<1>2. BlockCode(f, b, c) \in Seq(Instr)
  BY <1>1, FromSteps DEF BlockCode
<1> QED
  BY <1>2, ConcatenationAt

LEMMA HeaderType ==
  ASSUME NEW i \in Instr, NEW z \in Seq(Instr)
  PROVE  Header(i, z) \in Headers /\ Header(i, z) \in Seq(Instr) /\ Header(i, z) # <<>>
<1>1. Again(i.then, i.under) \in Instr
  <2>1. i.then \in Nat /\ i.under \in Context /\ 0 \in Nat
    BY InstrFields
  <2> QED
    BY <2>1, Instructions
<1> DEFINE h == <<Again(i.then, i.under)>> \o z
<1>2. h \in Seq(Instr) /\ h # <<>>
  BY <1>1, Prefixed
<1> HIDE DEF h
<1>3. h \in Headers
  BY <1>2 DEF Headers
<1> QED
  BY <1>2, <1>3 DEF h, Header

\* The state of the code after a condition.
After(f, s, yes) ==
  St(Taken(f, Head(s.code), Tail(s.code), yes),
     Around(Head(s.code), Tail(s.code), yes, s.loops), s.trace, s.acc)

\* What a condition does to the source, as a relation of frames and exits.
Answers(f, be, fs, p, yes, m, r, t) ==
  LET fr == fs[1]
      onward == <<Past(f, fr)>> \o Tail(fs)
      nested(b, new) == Inside(fs, b, PlaceOf(f, fr), new)
  IN  /\ p.k = "if" /\ yes => Ends(f, be, nested(p.then, Past(f, fr)), "next", m, r, t)
      /\ p.k = "if" /\ ~yes /\ p.else # 0 =>
           Ends(f, be, nested(p.else, Past(f, fr)), "next", m, r, t)
      /\ p.k = "if" /\ ~yes /\ p.else = 0 => Ends(f, be, onward, "next", m, r, t)
      /\ p.k = "while" /\ yes => Ends(f, be, nested(p.then, Round(fr)), "next", m, r, t)
      /\ p.k = "while" /\ ~yes => Ends(f, be, onward, "next", m, r, t)
      /\ p.k = "try" /\ yes => Ends(f, be, onward, "next", m, r, t)
      /\ p.k = "try" /\ ~yes => Ends(f, be, onward, "return", m, r, t)

LEMMA AnswerStep ==
  ASSUME NEW f \in Functions, NEW be \in {"native", "wasm"}, NEW fs \in Seq(Frame), fs # <<>>,
         StackOK(f, be, fs, "next"), fs[1].next <= Len(Parts(f, fs[1].block)),
         NEW m, NEW r, NEW s \in States, Goal(f, be, fs, "next", m, r, s),
         Parts(f, fs[1].block)[fs[1].next].k \in Asks, ~Stuck(s), NEW yes \in BOOLEAN
  PROVE  /\ Head(s.code).then = Parts(f, fs[1].block)[fs[1].next].then
         /\ After(f, s, yes) \in States
         /\ Answers(f, be, fs, Parts(f, fs[1].block)[fs[1].next], yes, m, r, After(f, s, yes))
<1> DEFINE fr == fs[1]
           p == Parts(f, fr.block)[fr.next]
           i == Head(s.code)
           t == After(f, s, yes)
<1>1. /\ fr \in Frame /\ FrameOK(f, fr)
      /\ fr.block \in DOMAIN f.blocks /\ fr.next \in DOMAIN Parts(f, fr.block)
  BY Opened
<1>2. PICK below, after : AskedAt(f, be, fs, s, below, after)
  BY Asked
<1> DEFINE y == below[1]
           ll == s.loops
           code1 == Taken(f, i, after, yes)
           loops1 == Around(i, after, yes, ll)
           h == Header(i, after)
<1>3. /\ after \in Seq(Instr) /\ s.code # <<>> /\ i \in Instr /\ Tail(s.code) = after
      /\ AskedBy(f, be, fr, i, y.owed) /\ Opens(f, be, fs, s, below, after)
  BY <1>2 DEF AskedAt
<1>4. y \in Rest /\ ll = IF fr.again THEN <<s.code>> \o y.loops ELSE y.loops
  BY <1>3 DEF Opens
<1>5. y.loops \in Seq(Headers) /\ ll \in Seq(Headers) /\ s.trace \in Seq(Nat) /\ s.acc \in Nat
      /\ s.code \in Seq(Instr)
  BY <1>4, RestFields, StateFields
<1>6. /\ p.k \in {"if", "while", "try"}
      /\ p.k \in {"if", "while"} => p.then \in DOMAIN f.blocks
      /\ p.k = "if" /\ p.else # 0 => p.else \in DOMAIN f.blocks
  <2>1. p.k \in {"if", "while", "try"}
    BY DEF Asks
  <2> QED
    BY <1>1, <2>1, PartType
<1>7. i.then = p.then /\ i.under \in Context
      /\ (p.k = "if" => i.op = "test" /\ i.else = p.else)
      /\ (p.k = "while" => i.op = IF fr.again THEN "again" ELSE "loop")
      /\ (p.k = "try" => i.op = "try" /\ be = "native")
  BY <1>3, InstrFields DEF AskedBy
<1>8. h \in Headers /\ h \in Seq(Instr) /\ h # <<>>
  <2> HIDE DEF i
  <2> QED
    BY <1>3, HeaderType
<1>9. /\ p.k = "if" /\ yes => code1 = BlockCode(f, p.then, i.under) \o after
      /\ p.k = "if" /\ ~yes /\ p.else # 0 => code1 = BlockCode(f, p.else, i.under) \o after
      /\ p.k = "if" /\ ~yes /\ p.else = 0 => code1 = after
      /\ p.k = "while" /\ yes => code1 = BlockCode(f, p.then, i.under) \o h
      /\ p.k = "while" /\ ~yes => code1 = after
      /\ p.k = "try" /\ yes => code1 = after
      /\ p.k = "try" /\ ~yes => code1 = <<Ret>>
  <2> HIDE DEF i, p, h
  <2> QED
    BY <1>6, <1>7 DEF Taken, h
<1>10. /\ p.k \in {"if", "try"} => loops1 = y.loops
       /\ p.k = "while" /\ yes => loops1 = <<h>> \o y.loops
       /\ p.k = "while" /\ ~yes => loops1 = y.loops
  <2>1. p.k \in {"if", "try"} => ~fr.again
    BY <1>1 DEF FrameOK
  <2>2. p.k \in {"if", "try"} => loops1 = y.loops
    <3> HIDE DEF i, p
    <3> QED
      BY <1>4, <1>7, <2>1 DEF Around
  <2>3. p.k = "while" /\ ~fr.again => loops1 = IF yes THEN <<h>> \o y.loops ELSE y.loops
    <3> HIDE DEF i, p, h
    <3> QED
      BY <1>4, <1>7 DEF Around, h
  <2>4. ASSUME p.k = "while", fr.again
        PROVE  loops1 = IF yes THEN <<h>> \o y.loops ELSE y.loops
    <3>1. i.op = "again" /\ ll = <<s.code>> \o y.loops
      BY <1>4, <1>7, <2>4
    <3>2. s.code = h
      <4>1. i = Again(p.then, Under(f, fr.block, fr.next, ContextOf(f, be, fr, y.owed)))
            /\ i.under = Under(f, fr.block, fr.next, ContextOf(f, be, fr, y.owed))
        BY <1>3, <2>4 DEF AskedBy
      <4>2. i = Again(i.then, i.under)
        BY <1>7, <4>1
      <4>3. s.code = <<i>> \o after
        BY <1>3, <1>5, Uncons
      <4> HIDE DEF i
      <4> QED
        BY <4>2, <4>3 DEF Header, h
    <3>3. Tail(<<h>> \o y.loops) = y.loops
      <4> DEFINE l == y.loops
      <4>1. l \in Seq(Headers) /\ h \in Headers
        BY <1>5, <1>8
      <4> HIDE DEF h, l
      <4>2. Tail(<<h>> \o l) = l
        BY <4>1, Prefixed
      <4> QED
        BY <4>2 DEF l
    <3> HIDE DEF i, h
    <3> QED
      BY <3>1, <3>2, <3>3 DEF Around
  <2> QED
    BY <2>2, <2>3, <2>4
<1>11. code1 \in Seq(Instr)
  <2>1. p.k \in {"if", "while"} => BlockCode(f, p.then, i.under) \o after \in Seq(Instr)
                                   /\ BlockCode(f, p.then, i.under) \o h \in Seq(Instr)
    <3> HIDE DEF p, i, h
    <3> QED
      BY <1>3, <1>6, <1>7, <1>8, BlockCodeType
  <2>2. p.k = "if" /\ p.else # 0 => BlockCode(f, p.else, i.under) \o after \in Seq(Instr)
    <3> HIDE DEF p, i
    <3> QED
      BY <1>3, <1>6, <1>7, BlockCodeType
  <2>3. <<Ret>> \in Seq(Instr)
    <3>1. 0 \in Nat
      OBVIOUS
    <3> QED
      BY <3>1, Single, One
  <2> HIDE DEF p, i, code1, h
  <2> QED
    BY <1>3, <1>6, <1>9, <2>1, <2>2, <2>3
<1>12. loops1 \in Seq(Headers)
  <2>1. <<h>> \o y.loops \in Seq(Headers)
    <3> HIDE DEF h
    <3> QED
      BY <1>5, <1>8, Prefixed
  <2> HIDE DEF loops1, p, h
  <2> QED
    BY <1>5, <1>6, <1>10, <2>1
<1>13. t = St(code1, loops1, s.trace, s.acc)
  BY <1>3 DEF After
<1> HIDE DEF t, code1, loops1
<1>14. t \in States /\ t.code = code1 /\ t.loops = loops1 /\ t.trace = s.trace /\ t.acc = s.acc
  BY <1>5, <1>11, <1>12, <1>13, StateType
<1> DEFINE onward == <<Past(f, fr)>> \o Tail(fs)
<1>15. ~Dies(f, p) /\ t.code = after /\ t.loops = y.loops => Ends(f, be, onward, "next", m, r, t)
  BY <1>2, <1>14, PastEnds
<1>16. be = "native" /\ Halts(t) => Ends(f, be, onward, "return", m, r, t)
  BY <1>2, <1>14, PastEnds
<1>17. ASSUME NEW b \in DOMAIN f.blocks, p.k = "if", Dies(f, p) => BlocksDying(f)[b],
              code1 = BlockCode(f, b, i.under) \o after
       PROVE  Ends(f, be, Inside(fs, b, PlaceOf(f, fr), Past(f, fr)), "next", m, r, t)
  <2>1. t.loops = s.loops
    <3>1. ~fr.again
      BY <1>1, <1>17 DEF FrameOK
    <3> QED
      BY <1>4, <1>10, <1>14, <1>17, <3>1
  <2> QED
    BY <1>2, <1>14, <1>17, <2>1, ArmEnds
<1>18. p.k = "if" => /\ Dies(f, p) => BlocksDying(f)[p.then] /\ BlocksDying(f)[p.else]
                     /\ p.else = 0 => ~Dies(f, p)
  BY DEF Dies, DiesIn, Leaving
<1>19. p.k = "if" /\ yes => Ends(f, be, Inside(fs, p.then, PlaceOf(f, fr), Past(f, fr)), "next", m, r, t)
  <2> HIDE DEF p, i
  <2> QED
    BY <1>6, <1>9, <1>17, <1>18
<1>20. p.k = "if" /\ ~yes /\ p.else # 0 =>
         Ends(f, be, Inside(fs, p.else, PlaceOf(f, fr), Past(f, fr)), "next", m, r, t)
  <2> HIDE DEF p, i
  <2> QED
    BY <1>6, <1>9, <1>17, <1>18
<1>21. p.k = "if" /\ ~yes /\ p.else = 0 => Ends(f, be, onward, "next", m, r, t)
  <2> HIDE DEF p, onward
  <2> QED
    BY <1>9, <1>10, <1>14, <1>15, <1>18
<1>22. p.k = "while" /\ yes =>
         Ends(f, be, Inside(fs, p.then, PlaceOf(f, fr), Round(fr)), "next", m, r, t)
  <2> SUFFICES ASSUME p.k = "while", yes
               PROVE  Ends(f, be, Inside(fs, p.then, PlaceOf(f, fr), Round(fr)), "next", m, r, t)
    OBVIOUS
  <2>1. t.loops = <<h>> \o y.loops /\ t.code = BlockCode(f, i.then, i.under) \o h
    <3> HIDE DEF i, p, h
    <3> QED
      BY <1>7, <1>9, <1>10, <1>14
  <2>2. h = Header(Head(s.code), after)
    OBVIOUS
  <2> HIDE DEF h
  <2> QED
    BY <1>2, <1>8, <1>14, <2>1, <2>2, RoundEnds
<1>23. (p.k = "while" /\ ~yes) \/ (p.k = "try" /\ yes) => Ends(f, be, onward, "next", m, r, t)
  <2>1. p.k \in {"while", "try"} => ~Dies(f, p)
    BY WhileAlive
  <2> HIDE DEF p, onward
  <2> QED
    BY <1>9, <1>10, <1>14, <1>15, <2>1
<1>24. p.k = "try" /\ ~yes => Ends(f, be, onward, "return", m, r, t)
  <2>1. Ret \in Instr /\ Ret.op = "ret"
    <3>1. 0 \in Nat
      OBVIOUS
    <3> QED
      BY <3>1, Single
  <2>2. t.code = <<Ret>> => Halts(t)
    BY <2>1, One DEF Halts
  <2> HIDE DEF p, onward
  <2> QED
    BY <1>7, <1>9, <1>14, <1>16, <2>2
<1>25. Answers(f, be, fs, p, yes, m, r, t)
  <2> HIDE DEF p
  <2> QED
    BY <1>19, <1>20, <1>21, <1>22, <1>23, <1>24 DEF Answers
<1> QED
  BY <1>7, <1>14, <1>25 DEF t

-----------------------------------------------------------------------------
(* The code and the source together. *)

\* The code will come, or has come, to where the source is.
Abreast(f, be, fs, ex, m, r, s) ==
  /\ ex \in Exit /\ m \in Seq(Meaning) /\ r \in Nat
  /\ StackOK(f, be, fs, ex)
  /\ Goal(f, be, fs, ex, m, r, s)

Now == St(code, loops, trace, acc)

ExitsInv ==
  /\ function \in Functions
  /\ backend \in {"native", "wasm"}
  /\ stage = "source" => /\ loops = <<>> /\ trace = <<>> /\ acc = 0
                         /\ exit = "next" /\ meant = <<>> /\ result = 0
  /\ stage = "running" =>
       /\ Now \in States
       /\ \E s \in States :
            /\ Reach(function, Now, s)
            /\ Stuck(s) \/ Abreast(function, backend, frames, exit, meant, result, s)
  /\ RunsAsMeant

LEMMA NowFields ==
  Now.code = code /\ Now.loops = loops /\ Now.trace = trace /\ Now.acc = acc
BY DEF Now, St

\* Code that the source is waiting for is at a condition or at its end.
LEMMA RestingCode ==
  ASSUME NEW f \in Functions, NEW be \in {"native", "wasm"}, NEW fs, NEW ex, NEW m, NEW r,
         NEW s \in States, Abreast(f, be, fs, ex, m, r, s), ~Stuck(s),
         \/ fs = <<>>
         \/ /\ fs # <<>> /\ ex = "next" /\ fs[1].next <= Len(Parts(f, fs[1].block))
            /\ Parts(f, fs[1].block)[fs[1].next].k \in Asks
  PROVE  /\ fs = <<>> => Halts(s)
         /\ fs # <<>> => s.code # <<>> /\ Head(s.code).op \in Conditions
<1>1. /\ fs \in Seq(Frame) /\ StackOK(f, be, fs, ex) /\ Goal(f, be, fs, ex, m, r, s)
  BY DEF Abreast, StackOK
<1>2. fs = <<>> => Halts(s)
  BY <1>1 DEF Goal, Reached
<1>3. ASSUME fs # <<>> PROVE s.code # <<>> /\ Head(s.code).op \in Conditions
  <2>1. PICK below, after : AskedAt(f, be, fs, s, below, after)
    BY <1>1, <1>3, Asked
  <2> DEFINE p == Parts(f, fs[1].block)[fs[1].next]
  <2>2. p.k \in {"if", "while", "try"}
    BY <1>3 DEF Asks
  <2>3. AskedBy(f, be, fs[1], Head(s.code), below[1].owed) /\ s.code # <<>>
    BY <2>1 DEF AskedAt
  <2>4. /\ p.k = "if" => Head(s.code).op = "test"
        /\ p.k = "while" => Head(s.code).op = IF fs[1].again THEN "again" ELSE "loop"
        /\ p.k = "try" => Head(s.code).op = "try"
    BY <2>3 DEF AskedBy
  <2> HIDE DEF p
  <2> QED
    BY <2>2, <2>3, <2>4 DEF Conditions
<1> QED
  BY <1>2, <1>3

\* Where the code does not go on by itself.
LEMMA NoStep ==
  ASSUME NEW f, NEW s, \/ Stuck(s) \/ Halts(s) \/ Head(s.code).op \in Conditions
  PROVE  \A v : ~Follows(f, s, v)
BY DEF Follows, Stuck, Halts, Conditions, Leaving

\* A condition, or the end, is not reached before the source has come to it.
LEMMA AtSource ==
  ASSUME ExitsInv, stage = "running", code # <<>>, Head(code).op \in Conditions \cup {"ret"}
  PROVE  Now \in States /\ ~Stuck(Now) /\ Abreast(function, backend, frames, exit, meant, result, Now)
<1>1. PICK s \in States :
        /\ Reach(function, Now, s)
        /\ Stuck(s) \/ Abreast(function, backend, frames, exit, meant, result, s)
  BY DEF ExitsInv
<1>2. Now \in States /\ Now.code = code
  BY NowFields DEF ExitsInv
<1>3. Head(Now.code).op \in Conditions \/ Halts(Now)
  BY <1>2 DEF Halts
<1>4. \A v \in States : ~Follows(function, Now, v)
  BY <1>3, NoStep
<1>5. Now = s
  BY <1>1, <1>2, <1>4, ReachLast
<1>6. ~Stuck(Now)
  BY <1>2 DEF Stuck, Conditions, Leaving
<1> QED
  BY <1>1, <1>2, <1>5, <1>6

\* The code goes on by itself.
LEMMA CodeMoves ==
  ASSUME ExitsInv, stage = "running", Resting, Follows(function, Now, Now'),
         UNCHANGED <<function, backend, stage, source>>
  PROVE  ExitsInv'
<1>1. PICK s \in States :
        /\ Reach(function, Now, s)
        /\ Stuck(s) \/ Abreast(function, backend, frames, exit, meant, result, s)
  BY DEF ExitsInv
<1>2. Now \in States /\ function \in Functions /\ backend \in {"native", "wasm"}
  BY DEF ExitsInv
<1>3. Now # s
  <2> SUFFICES ASSUME Now = s PROVE FALSE
    OBVIOUS
  <2>1. ~Stuck(s)
    BY NoStep
  <2>2. Abreast(function, backend, frames, exit, meant, result, s)
    BY <1>1, <2>1
  <2>3. \/ frames = <<>>
        \/ /\ frames # <<>> /\ exit = "next" /\ frames[1].next <= Len(Parts(function, frames[1].block))
           /\ Parts(function, frames[1].block)[frames[1].next].k \in Asks
    BY DEF Resting, Asking, Evaluating, Here, Top
  <2>4. Halts(s) \/ Head(s.code).op \in Conditions
    BY <1>2, <2>1, <2>2, <2>3, RestingCode
  <2> QED
    BY <2>4, NoStep
<1>4. PICK v \in States : Follows(function, Now, v)
  BY <1>1, <1>2, <1>3, ReachLast
<1>5. Now' = v
  BY <1>4, Determined
<1>6. Reach(function, v, s)
  BY <1>1, <1>2, <1>3, <1>4, ReachFirst
<1>7. Reach(function', Now', s) /\ Now' \in States
  BY <1>5, <1>6
<1>8. Stuck(s) \/ Abreast(function, backend, frames, exit, meant, result, s)'
  <2>1. UNCHANGED <<frames, exit, meant, result, function, backend>>
    BY DEF source
  <2> QED
    BY <1>1, <2>1
<1>9. RunsAsMeant' /\ stage' = "running"
  BY DEF RunsAsMeant
<1> QED
  BY <1>1, <1>2, <1>7, <1>8, <1>9 DEF ExitsInv

\* The source goes on.
LEMMA SourceMoves ==
  ASSUME ExitsInv, stage = "running", UNCHANGED <<function, backend, stage, target>>,
         \A s \in States :
            Abreast(function, backend, frames, exit, meant, result, s) =>
              /\ exit' \in Exit /\ meant' \in Seq(Meaning) /\ result' \in Nat
              /\ StackOK(function, backend, frames', exit')
              /\ Keeps(function, backend, frames', exit', meant', result', s)
  PROVE  ExitsInv'
<1>1. PICK s \in States :
        /\ Reach(function, Now, s)
        /\ Stuck(s) \/ Abreast(function, backend, frames, exit, meant, result, s)
  BY DEF ExitsInv
<1>2. Now \in States /\ Now' = Now
  BY DEF ExitsInv, Now, target
<1>3. \E t \in States :
        /\ Reach(function, Now, t)
        /\ Stuck(t) \/ Abreast(function, backend, frames', exit', meant', result', t)
  <2>1. CASE Stuck(s)
    BY <1>1, <2>1
  <2>2. CASE ~Stuck(s)
    <3>1. /\ exit' \in Exit /\ meant' \in Seq(Meaning) /\ result' \in Nat
          /\ StackOK(function, backend, frames', exit')
          /\ Keeps(function, backend, frames', exit', meant', result', s)
      BY <1>1, <2>2
    <3>2. PICK t \in States :
            /\ t = s \/ Follows(function, s, t)
            /\ Stuck(t) \/ Goal(function, backend, frames', exit', meant', result', t)
      BY <3>1 DEF Keeps
    <3>3. Reach(function, Now, t)
      BY <1>1, <1>2, <3>2, ReachMore
    <3>4. Stuck(t) \/ Abreast(function, backend, frames', exit', meant', result', t)
      BY <3>1, <3>2 DEF Abreast
    <3> QED
      BY <3>3, <3>4
  <2> QED
    BY <2>1, <2>2
<1>4. RunsAsMeant' /\ stage' = "running"
  BY DEF RunsAsMeant
<1>5. function' = function /\ backend' = backend /\ function \in Functions /\ backend \in {"native", "wasm"}
  BY DEF ExitsInv
<1>6. PICK t \in States :
        /\ Reach(function, Now, t)
        /\ Stuck(t) \/ Abreast(function, backend, frames', exit', meant', result', t)
  BY <1>3
<1>7. Reach(function, Now, t)' /\ (Stuck(t) \/ Abreast(function, backend, frames, exit, meant, result, t)')
  BY <1>2, <1>5, <1>6
<1> QED
  BY <1>2, <1>4, <1>5, <1>7 DEF ExitsInv

-----------------------------------------------------------------------------
(* The steps. *)

LEMMA InvTypes ==
  ASSUME ExitsInv PROVE function \in Functions /\ backend \in {"native", "wasm"}
BY DEF ExitsInv

\* The source at a part.
LEMMA AtHere ==
  ASSUME ExitsInv, Evaluating, NEW s, Abreast(function, backend, frames, exit, meant, result, s)
  PROVE  /\ frames \in Seq(Frame) /\ frames # <<>> /\ exit = "next"
         /\ Top = frames[1] /\ Top \in Frame /\ Top.next <= Len(Parts(function, Top.block))
         /\ Here = Parts(function, Top.block)[Top.next]
         /\ Here.n \in Nat
         /\ StackOK(function, backend, frames, "next")
         /\ Goal(function, backend, frames, "next", meant, result, s)
         /\ meant \in Seq(Meaning) /\ result \in Nat
         /\ Here.k = "defer" => Past(function, Top) = At(Top.block, Top.next + 1, Top.place,
                                                         <<Here.n>> \o Top.pending, FALSE)
         /\ Here.k # "defer" => Past(function, Top) = Onward(Top)
<1>1. function \in Functions
  BY InvTypes
<1>2. /\ frames # <<>> /\ exit = "next" /\ Top = frames[1]
      /\ Top.next <= Len(Parts(function, Top.block))
      /\ Here = Parts(function, Top.block)[Top.next]
  BY DEF Evaluating, Top, Here
<1>3. /\ frames \in Seq(Frame) /\ meant \in Seq(Meaning) /\ result \in Nat
      /\ StackOK(function, backend, frames, "next")
      /\ Goal(function, backend, frames, "next", meant, result, s)
      /\ TopOK(function, backend, Top, "next")
  BY <1>2 DEF Abreast, StackOK
<1>4. Top \in Frame
  BY <1>2, <1>3
<1>5. FrameOK(function, Top) /\ Settled(function, Top)
  BY <1>2, <1>3 DEF TopOK
<1>6. Here.n \in Nat
  <2>1. Top.block \in DOMAIN function.blocks /\ Top.next \in DOMAIN Parts(function, Top.block)
    BY <1>1, <1>2, <1>4, <1>5, PartOf
  <2> QED
    BY <1>1, <1>2, <2>1, PartType
<1>7. /\ Here.k = "defer" => Past(function, Top) = At(Top.block, Top.next + 1, Top.place,
                                                      <<Here.n>> \o Top.pending, FALSE)
      /\ Here.k # "defer" => Past(function, Top) = Onward(Top)
  BY <1>1, <1>2, <1>4, <1>5, PastPending
<1> QED
  BY <1>2, <1>3, <1>4, <1>6, <1>7

LEMMA CallMoves ==
  ASSUME ExitsInv, SourceCall PROVE ExitsInv'
<1>1. /\ stage = "running" /\ Evaluating /\ Here.k = "act"
      /\ meant' = Append(meant, MeaningOf(Here.n, "next")) /\ result' = Here.n
      /\ frames' = <<Onward(Top)>> \o Tail(frames)
      /\ exit' = exit /\ UNCHANGED <<function, backend, stage, target>>
  BY DEF SourceCall, Evaluates, Called, Replace, MeaningOf
<1>2. ASSUME NEW s \in States, Abreast(function, backend, frames, exit, meant, result, s)
      PROVE  /\ exit' \in Exit /\ meant' \in Seq(Meaning) /\ result' \in Nat
             /\ StackOK(function, backend, frames', exit')
             /\ Keeps(function, backend, frames', exit', meant', result', s)
  <2>1. /\ frames \in Seq(Frame) /\ frames # <<>> /\ exit = "next"
        /\ Top = frames[1] /\ Top.next <= Len(Parts(function, Top.block))
        /\ Here = Parts(function, Top.block)[Top.next]
        /\ Here.n \in Nat
        /\ StackOK(function, backend, frames, "next")
        /\ Goal(function, backend, frames, "next", meant, result, s)
        /\ meant \in Seq(Meaning) /\ result \in Nat
        /\ Past(function, Top) = Onward(Top)
    BY <1>1, <1>2, AtHere
  <2>2. LET n == Parts(function, frames[1].block)[frames[1].next].n
            fs2 == <<Past(function, frames[1])>> \o Tail(frames)
        IN  /\ StackOK(function, backend, fs2, "next")
            /\ Keeps(function, backend, fs2, "next", Append(meant, MeaningOf(n, "next")), n, s)
    BY <1>1, <2>1, InvTypes, ActStep
  <2>3. meant' \in Seq(Meaning)
    <3>1. MeaningOf(Here.n, "next") \in Meaning
      BY <2>1, MeaningType DEF Exit
    <3> QED
      BY <1>1, <2>1, <3>1, Appended
  <2> QED
    BY <1>1, <2>1, <2>2, <2>3 DEF Exit
<1> QED
  BY <1>1, <1>2, SourceMoves

LEMMA DeferMoves ==
  ASSUME ExitsInv, SourceDefer PROVE ExitsInv'
<1>1. /\ stage = "running" /\ Evaluating /\ Here.k = "defer"
      /\ meant' = meant /\ result' = result /\ exit' = exit
      /\ frames' = <<At(Top.block, Top.next + 1, Top.place, <<Here.n>> \o Top.pending, FALSE)>>
                      \o Tail(frames)
      /\ UNCHANGED <<function, backend, stage, target>>
  BY DEF SourceDefer, Evaluates, Replace
<1>2. ASSUME NEW s \in States, Abreast(function, backend, frames, exit, meant, result, s)
      PROVE  /\ exit' \in Exit /\ meant' \in Seq(Meaning) /\ result' \in Nat
             /\ StackOK(function, backend, frames', exit')
             /\ Keeps(function, backend, frames', exit', meant', result', s)
  <2>1. /\ frames \in Seq(Frame) /\ frames # <<>> /\ exit = "next"
        /\ Top = frames[1] /\ Top.next <= Len(Parts(function, Top.block))
        /\ Here = Parts(function, Top.block)[Top.next]
        /\ StackOK(function, backend, frames, "next")
        /\ Goal(function, backend, frames, "next", meant, result, s)
        /\ meant \in Seq(Meaning) /\ result \in Nat
        /\ Past(function, Top) = At(Top.block, Top.next + 1, Top.place,
                                    <<Here.n>> \o Top.pending, FALSE)
    BY <1>1, <1>2, AtHere
  <2>2. LET fs2 == <<Past(function, frames[1])>> \o Tail(frames)
        IN  StackOK(function, backend, fs2, "next") /\ Keeps(function, backend, fs2, "next", meant, result, s)
    BY <1>1, <2>1, InvTypes, DeferStep
  <2> QED
    BY <1>1, <2>1, <2>2 DEF Exit
<1> QED
  BY <1>1, <1>2, SourceMoves

LEMMA ReturnMoves ==
  ASSUME ExitsInv, SourceReturn PROVE ExitsInv'
<1>1. /\ stage = "running" /\ Evaluating /\ Here.k = "return"
      /\ meant' = Returns(meant, Here) /\ result' = Returned(result, Here)
      /\ exit' = Way(function, Top) /\ frames' = frames
      /\ UNCHANGED <<function, backend, stage, target>>
  BY DEF SourceReturn, Evaluates, Called, Returns, Returned, Way, MeaningOf
<1>2. ASSUME NEW s \in States, Abreast(function, backend, frames, exit, meant, result, s)
      PROVE  /\ exit' \in Exit /\ meant' \in Seq(Meaning) /\ result' \in Nat
             /\ StackOK(function, backend, frames', exit')
             /\ Keeps(function, backend, frames', exit', meant', result', s)
  <2>1. /\ frames \in Seq(Frame) /\ frames # <<>> /\ exit = "next"
        /\ Top = frames[1] /\ Top.next <= Len(Parts(function, Top.block))
        /\ Here = Parts(function, Top.block)[Top.next]
        /\ Here.n \in Nat
        /\ StackOK(function, backend, frames, "next")
        /\ Goal(function, backend, frames, "next", meant, result, s)
        /\ meant \in Seq(Meaning) /\ result \in Nat
    BY <1>1, <1>2, AtHere
  <2>2. LET p == Parts(function, frames[1].block)[frames[1].next]
            ex == Way(function, frames[1])
        IN  /\ StackOK(function, backend, frames, ex)
            /\ Keeps(function, backend, frames, ex, Returns(meant, p), Returned(result, p), s)
    BY <1>1, <2>1, InvTypes, ReturnStep
  <2>3. meant' \in Seq(Meaning) /\ result' \in Nat
    <3>1. MeaningOf(Here.n, "next") \in Meaning
      BY <2>1, MeaningType DEF Exit
    <3>2. Append(meant, MeaningOf(Here.n, "next")) \in Seq(Meaning)
      BY <2>1, <3>1, Appended
    <3> QED
      BY <1>1, <2>1, <3>2 DEF Returns, Returned
  <2>4. exit' \in Exit
    BY <1>1 DEF Way, Exit
  <2> QED
    BY <1>1, <2>1, <2>2, <2>3, <2>4
<1> QED
  BY <1>1, <1>2, SourceMoves

LEMMA LeaveMoves ==
  ASSUME ExitsInv, SourceLeave PROVE ExitsInv'
<1>1. /\ stage = "running" /\ Evaluating /\ Here.k \in Leaving
      /\ meant' = meant /\ result' = result /\ exit' = Here.k /\ frames' = frames
      /\ UNCHANGED <<function, backend, stage, target>>
  BY DEF SourceLeave, Evaluates
<1>2. ASSUME NEW s \in States, Abreast(function, backend, frames, exit, meant, result, s)
      PROVE  /\ exit' \in Exit /\ meant' \in Seq(Meaning) /\ result' \in Nat
             /\ StackOK(function, backend, frames', exit')
             /\ Keeps(function, backend, frames', exit', meant', result', s)
  <2>1. /\ frames \in Seq(Frame) /\ frames # <<>> /\ exit = "next"
        /\ Top = frames[1] /\ Top.next <= Len(Parts(function, Top.block))
        /\ Here = Parts(function, Top.block)[Top.next]
        /\ StackOK(function, backend, frames, "next")
        /\ Goal(function, backend, frames, "next", meant, result, s)
        /\ meant \in Seq(Meaning) /\ result \in Nat
    BY <1>1, <1>2, AtHere
  <2>2. LET k == Parts(function, frames[1].block)[frames[1].next].k
        IN  StackOK(function, backend, frames, k) /\ Keeps(function, backend, frames, k, meant, result, s)
    BY <1>1, <2>1, InvTypes, LeaveStep
  <2> QED
    BY <1>1, <2>1, <2>2 DEF Exit
<1> QED
  BY <1>1, <1>2, SourceMoves

LEMMA BlockMoves ==
  ASSUME ExitsInv, SourceBlock PROVE ExitsInv'
<1>1. /\ stage = "running" /\ Evaluating /\ Here.k = "block"
      /\ meant' = meant /\ result' = result /\ exit' = exit
      /\ frames' = <<Begun(Here.then, "value")>> \o (<<Onward(Top)>> \o Tail(frames))
      /\ UNCHANGED <<function, backend, stage, target>>
  BY DEF SourceBlock, Evaluates, Replace
<1>2. ASSUME NEW s \in States, Abreast(function, backend, frames, exit, meant, result, s)
      PROVE  /\ exit' \in Exit /\ meant' \in Seq(Meaning) /\ result' \in Nat
             /\ StackOK(function, backend, frames', exit')
             /\ Keeps(function, backend, frames', exit', meant', result', s)
  <2>1. /\ frames \in Seq(Frame) /\ frames # <<>> /\ exit = "next"
        /\ Top = frames[1] /\ Top.next <= Len(Parts(function, Top.block))
        /\ Here = Parts(function, Top.block)[Top.next]
        /\ StackOK(function, backend, frames, "next")
        /\ Goal(function, backend, frames, "next", meant, result, s)
        /\ meant \in Seq(Meaning) /\ result \in Nat
        /\ Past(function, Top) = Onward(Top)
    BY <1>1, <1>2, AtHere
  <2>2. LET fs2 == Inside(frames, Parts(function, frames[1].block)[frames[1].next].then, "value",
                          Past(function, frames[1]))
        IN  StackOK(function, backend, fs2, "next") /\ Keeps(function, backend, fs2, "next", meant, result, s)
    BY <1>1, <2>1, InvTypes, BlockStep
  <2>3. frames' = Inside(frames, Parts(function, frames[1].block)[frames[1].next].then, "value",
                         Past(function, frames[1]))
    BY <1>1, <2>1 DEF Inside
  <2> QED
    BY <1>1, <2>1, <2>2, <2>3 DEF Exit
<1> QED
  BY <1>1, <1>2, SourceMoves

\* The source at the end of a block, or on its way out of it.
LEMMA AtEndHere ==
  ASSUME ExitsInv, Closing, NEW s, Abreast(function, backend, frames, exit, meant, result, s)
  PROVE  /\ frames \in Seq(Frame) /\ frames # <<>> /\ Top = frames[1] /\ Top \in Frame
         /\ exit \in Exit /\ meant \in Seq(Meaning) /\ result \in Nat
         /\ exit = "next" => Top.next > Len(Parts(function, Top.block))
         /\ StackOK(function, backend, frames, exit)
         /\ Goal(function, backend, frames, exit, meant, result, s)
         /\ FrameOK(function, Top)
<1>1. function \in Functions
  BY InvTypes
<1>2. frames # <<>> /\ Top = frames[1] /\ ~Evaluating
  BY DEF Closing, Top
<1>3. /\ exit \in Exit /\ meant \in Seq(Meaning) /\ result \in Nat
      /\ frames \in Seq(Frame)
      /\ StackOK(function, backend, frames, exit)
      /\ Goal(function, backend, frames, exit, meant, result, s)
      /\ TopOK(function, backend, Top, exit)
  BY <1>2 DEF Abreast, StackOK
<1>4. Top \in Frame
  BY <1>2, <1>3
<1>5. FrameOK(function, Top)
  BY <1>3 DEF TopOK
<1>6. ASSUME exit = "next" PROVE Top.next > Len(Parts(function, Top.block))
  <2>1. ~(Top.next <= Len(Parts(function, Top.block)))
    BY <1>2, <1>6 DEF Evaluating
  <2>2. Top.next \in Nat /\ Len(Parts(function, Top.block)) \in Nat
    BY <1>1, <1>4, <1>5, PartOf
  <2> QED
    BY <2>1, <2>2
<1> QED
  BY <1>2, <1>3, <1>4, <1>5, <1>6

LEMMA CleanupMoves ==
  ASSUME ExitsInv, SourceCleanup PROVE ExitsInv'
<1>1. /\ stage = "running" /\ Closing /\ Top.pending # <<>>
      /\ meant' = Append(meant, MeaningOf(Head(Top.pending), exit))
      /\ result' = result /\ exit' = exit
      /\ frames' = <<Drained(Top)>> \o Tail(frames)
      /\ UNCHANGED <<function, backend, stage, target>>
  BY DEF SourceCleanup, Closing, Replace, Drained, MeaningOf
<1>2. ASSUME NEW s \in States, Abreast(function, backend, frames, exit, meant, result, s)
      PROVE  /\ exit' \in Exit /\ meant' \in Seq(Meaning) /\ result' \in Nat
             /\ StackOK(function, backend, frames', exit')
             /\ Keeps(function, backend, frames', exit', meant', result', s)
  <2>1. /\ frames \in Seq(Frame) /\ frames # <<>> /\ Top = frames[1] /\ Top \in Frame
        /\ exit \in Exit /\ meant \in Seq(Meaning) /\ result \in Nat
        /\ exit = "next" => Top.next > Len(Parts(function, Top.block))
        /\ StackOK(function, backend, frames, exit)
        /\ Goal(function, backend, frames, exit, meant, result, s)
    BY <1>1, <1>2, AtEndHere
  <2>2. LET fs2 == <<Drained(frames[1])>> \o Tail(frames)
        IN  /\ StackOK(function, backend, fs2, exit)
            /\ Keeps(function, backend, fs2, exit,
                     Append(meant, MeaningOf(Head(frames[1].pending), exit)), result, s)
    BY <1>1, <2>1, InvTypes, CleanupStep
  <2>3. meant' \in Seq(Meaning)
    <3>1. Top.pending \in Seq(Nat)
      BY <2>1, FrameFields
    <3>2. Head(Top.pending) \in Nat
      BY <1>1, <3>1, Uncons
    <3>3. MeaningOf(Head(Top.pending), exit) \in Meaning
      BY <2>1, <3>2, MeaningType
    <3> QED
      BY <1>1, <2>1, <3>3, Appended
  <2> QED
    BY <1>1, <2>1, <2>2, <2>3
<1> QED
  BY <1>1, <1>2, SourceMoves

LEMMA EndMoves ==
  ASSUME ExitsInv, SourceEnd PROVE ExitsInv'
<1> DEFINE ends == exit \in Leaving /\ Len(frames) > 1 /\ frames[2].again
<1>1. /\ stage = "running" /\ Closing /\ Top.pending = <<>>
      /\ meant' = meant /\ result' = result
      /\ UNCHANGED <<function, backend, stage, target>>
  BY DEF SourceEnd, Closing
<1>2. /\ ends /\ exit = "break" => exit' = "next" /\ frames' = <<Onward(frames[2])>> \o Tail(Tail(frames))
      /\ ends /\ exit # "break" => exit' = "next" /\ frames' = Tail(frames)
      /\ ~ends => exit' = exit /\ frames' = Tail(frames)
  BY DEF SourceEnd
<1>3. ASSUME NEW s \in States, Abreast(function, backend, frames, exit, meant, result, s)
      PROVE  /\ exit' \in Exit /\ meant' \in Seq(Meaning) /\ result' \in Nat
             /\ StackOK(function, backend, frames', exit')
             /\ Keeps(function, backend, frames', exit', meant', result', s)
  <2>1. /\ frames \in Seq(Frame) /\ frames # <<>> /\ Top = frames[1] /\ Top \in Frame
        /\ exit \in Exit /\ meant \in Seq(Meaning) /\ result \in Nat
        /\ exit = "next" => Top.next > Len(Parts(function, Top.block))
        /\ StackOK(function, backend, frames, exit)
        /\ Goal(function, backend, frames, exit, meant, result, s)
    BY <1>1, <1>3, AtEndHere
  <2>2. CASE ~ends
    <3>1. StackOK(function, backend, Tail(frames), exit) /\ Keeps(function, backend, Tail(frames), exit, meant, result, s)
      BY <1>1, <2>1, <2>2, InvTypes, EndStep
    <3> QED
      BY <1>1, <1>2, <2>1, <2>2, <3>1
  <2>3. CASE ends /\ exit = "continue"
    <3>1. StackOK(function, backend, Tail(frames), "next") /\ Keeps(function, backend, Tail(frames), "next", meant, result, s)
      BY <1>1, <2>1, <2>3, InvTypes, LoopStep
    <3> QED
      BY <1>1, <1>2, <2>1, <2>3, <3>1 DEF Exit
  <2>4. CASE ends /\ exit = "break"
    <3>1. LET fs2 == <<Past(function, frames[2])>> \o Tail(Tail(frames))
          IN  StackOK(function, backend, fs2, "next") /\ Keeps(function, backend, fs2, "next", meant, result, s)
      BY <1>1, <2>1, <2>4, InvTypes, LoopStep
    <3>2. Past(function, frames[2]) = Onward(frames[2])
      <4>0. function \in Functions /\ Lower(function, backend, frames)
        BY <2>1, InvTypes DEF StackOK
      <4>1. frames[2] \in Frame /\ LowerOK(function, backend, frames[1].block, frames[2])
        <5>1. Len(frames) \in Nat /\ Len(frames) > 1
          BY <2>1, <2>4
        <5>2. Tail(frames) = <<>> <=> Len(frames) = 1
          BY <2>1, <4>0, LowerPopped
        <5>3. Tail(frames) # <<>>
          BY <5>1, <5>2
        <5> QED
          BY <2>1, <4>0, <5>3, LowerPopped
      <4>2. FrameOK(function, frames[2]) /\ Settled(function, frames[2])
        BY <4>1 DEF LowerOK
      <4>3. /\ frames[2].next <= Len(Parts(function, frames[2].block))
            /\ Parts(function, frames[2].block)[frames[2].next].k = "while"
        BY <2>4, <4>2 DEF FrameOK
      <4> QED
        BY <4>0, <4>1, <4>2, <4>3, PastPending
    <3>3. frames' = <<Past(function, frames[2])>> \o Tail(Tail(frames)) /\ exit' = "next"
      BY <1>2, <2>4, <3>2
    <3> QED
      BY <1>1, <2>1, <3>1, <3>3 DEF Exit
  <2> QED
    BY <2>2, <2>3, <2>4 DEF Leaving
<1> QED
  BY <1>1, <1>3, SourceMoves

LEMMA RestWaits ==
  ASSUME Resting
  PROVE  \/ frames = <<>>
         \/ /\ frames # <<>> /\ exit = "next"
            /\ frames[1].next <= Len(Parts(function, frames[1].block))
            /\ Parts(function, frames[1].block)[frames[1].next].k \in Asks
BY DEF Resting, Asking, Evaluating, Here, Top

LEMMA EnterMoves ==
  ASSUME ExitsInv, EnterBlock PROVE ExitsInv'
<1>1. /\ stage = "running" /\ Resting /\ code # <<>> /\ Head(code).op = "enter"
      /\ code' = BlockCode(function, Head(code).then, Head(code).under) \o Tail(code)
      /\ loops' = loops /\ trace' = trace /\ acc' = acc
      /\ UNCHANGED <<function, backend, stage, source>>
  BY DEF EnterBlock, Ready
<1>2. Follows(function, Now, Now')
  BY <1>1, NowFields DEF Follows, Now
<1> QED
  BY <1>1, <1>2, CodeMoves

LEMMA CallingMoves ==
  ASSUME ExitsInv, Call PROVE ExitsInv'
<1>1. /\ stage = "running" /\ Resting /\ code # <<>> /\ Head(code).op \in {"do", "clean"}
      /\ code' = Tail(code) /\ loops' = loops /\ trace' = Append(trace, Head(code).n)
      /\ acc' = IF Head(code).op = "do" THEN Head(code).n ELSE acc
      /\ UNCHANGED <<function, backend, stage, source>>
  BY DEF Call, Ready
<1>2. Follows(function, Now, Now')
  BY <1>1, NowFields DEF Follows, Now
<1> QED
  BY <1>1, <1>2, CodeMoves

LEMMA JumpMoves ==
  ASSUME ExitsInv, Jump PROVE ExitsInv'
<1>1. /\ stage = "running" /\ Resting /\ code # <<>> /\ Head(code).op \in {"break", "continue"}
      /\ loops # <<>> /\ trace' = trace /\ acc' = acc
      /\ IF Head(code).op = "break" THEN code' = Tail(Head(loops)) /\ loops' = Tail(loops)
         ELSE code' = Head(loops) /\ loops' = loops
      /\ UNCHANGED <<function, backend, stage, source>>
  BY DEF Jump, Ready, Leaving
<1>2. Follows(function, Now, Now')
  BY <1>1, NowFields DEF Follows, Now
<1> QED
  BY <1>1, <1>2, CodeMoves

-----------------------------------------------------------------------------
(* At a condition and at the end. *)

\* Code at a condition finds the source at one.
LEMMA ConditionAsked ==
  ASSUME ExitsInv, Ready(Conditions)
  PROVE  /\ Asking /\ Now \in States /\ ~Stuck(Now)
         /\ Abreast(function, backend, frames, exit, meant, result, Now)
<1>1. stage = "running" /\ Resting /\ code # <<>> /\ Head(code).op \in Conditions
  BY DEF Ready
<1>2. /\ Now \in States /\ ~Stuck(Now)
      /\ Abreast(function, backend, frames, exit, meant, result, Now)
  BY <1>1, AtSource
<1>3. frames # <<>>
  <2> SUFFICES ASSUME frames = <<>> PROVE FALSE
    OBVIOUS
  <2>1. Halts(Now)
    BY <1>2, InvTypes, RestingCode
  <2> QED
    BY <1>1, <2>1, NowFields DEF Halts, Conditions
<1> QED
  BY <1>1, <1>2, <1>3 DEF Resting

LEMMA SameIs ==
  ASSUME NEW calls PROVE SameCalls(calls) <=> Same(backend, meant, calls)
BY DEF SameCalls, Same, Kept

\* There it has made the calls of the source, and is at the same condition.
LEMMA ConditionSame ==
  ASSUME ExitsInv, Ready(Conditions)
  PROVE  /\ Head(code).then = Here.then
         /\ SameCalls(trace) /\ acc = result
         /\ \A yes \in BOOLEAN : /\ After(function, Now, yes) \in States
                                 /\ Answers(function, backend, frames, Here, yes, meant, result,
                                            After(function, Now, yes))
<1>1. /\ Asking /\ Now \in States /\ ~Stuck(Now)
      /\ Abreast(function, backend, frames, exit, meant, result, Now)
  BY ConditionAsked
<1>2. /\ frames \in Seq(Frame) /\ frames # <<>> /\ exit = "next" /\ Top = frames[1]
      /\ Top.next <= Len(Parts(function, Top.block))
      /\ Here = Parts(function, Top.block)[Top.next]
      /\ StackOK(function, backend, frames, "next")
      /\ Goal(function, backend, frames, "next", meant, result, Now)
  BY <1>1, AtHere DEF Asking
<1>3. Here.k \in Asks
  BY <1>1 DEF Asking
<1>4. ASSUME NEW yes \in BOOLEAN
      PROVE  /\ Head(Now.code).then = Parts(function, frames[1].block)[frames[1].next].then
             /\ After(function, Now, yes) \in States
             /\ Answers(function, backend, frames, Parts(function, frames[1].block)[frames[1].next],
                        yes, meant, result, After(function, Now, yes))
  BY <1>1, <1>2, <1>3, InvTypes, AnswerStep
<1>5. Head(code).then = Here.then
  <2>1. TRUE \in BOOLEAN
    OBVIOUS
  <2> QED
    BY <1>2, <1>4, <2>1, NowFields
<1>6. SameCalls(trace) /\ acc = result
  BY <1>2, NowFields, SameIs DEF Goal
<1> QED
  BY <1>2, <1>4, <1>5, <1>6

\* The frames of the source after a condition.
LEMMA AnswerFrames ==
  ASSUME ExitsInv, Ready(Conditions), NEW yes \in BOOLEAN, Answer(yes), NEW t,
         Answers(function, backend, frames, Here, yes, meant, result, t)
  PROVE  /\ Ends(function, backend, frames', exit', meant, result, t)
         /\ meant' = meant /\ result' = result /\ exit' \in {"next", "return"}
<1>1. Asking /\ Abreast(function, backend, frames, exit, meant, result, Now)
  BY ConditionAsked
<1>2. Here.k \in {"if", "while", "try"}
  BY <1>1 DEF Asking, Asks
<1>3. Top = frames[1] /\ Past(function, Top) = Onward(Top)
  BY <1>1, <1>2, AtHere DEF Asking
<1> DEFINE nested(b, fr) == <<Begun(b, PlaceOf(function, Top))>> \o Replace(fr)
           onward == Replace(Onward(Top))
<1>4. /\ frames' =
            CASE Here.k = "if" /\ yes -> nested(Here.then, Onward(Top))
              [] Here.k = "if" /\ ~yes /\ Here.else # 0 -> nested(Here.else, Onward(Top))
              [] Here.k = "while" /\ yes -> nested(Here.then, Round(Top))
              [] OTHER -> onward
      /\ exit' = IF Here.k = "try" /\ ~yes THEN "return" ELSE "next"
      /\ meant' = meant /\ result' = result
  BY DEF Answer, Round
<1>5. onward = <<Past(function, frames[1])>> \o Tail(frames)
  BY <1>3 DEF Replace
<1>6. \A b, fr : nested(b, fr) = Inside(frames, b, PlaceOf(function, frames[1]), fr)
  BY <1>3 DEF Replace, Inside
<1> HIDE DEF nested, onward
<1>7. /\ Here.k = "if" /\ yes => frames' = nested(Here.then, Past(function, frames[1])) /\ exit' = "next"
      /\ Here.k = "if" /\ ~yes /\ Here.else # 0 =>
           frames' = nested(Here.else, Past(function, frames[1])) /\ exit' = "next"
      /\ Here.k = "if" /\ ~yes /\ Here.else = 0 => frames' = onward /\ exit' = "next"
      /\ Here.k = "while" /\ yes => frames' = nested(Here.then, Round(frames[1])) /\ exit' = "next"
      /\ Here.k = "while" /\ ~yes => frames' = onward /\ exit' = "next"
      /\ Here.k = "try" /\ yes => frames' = onward /\ exit' = "next"
      /\ Here.k = "try" /\ ~yes => frames' = onward /\ exit' = "return"
  BY <1>3, <1>4
<1>8. Ends(function, backend, frames', exit', meant, result, t)
  <2>1. CASE Here.k = "if" /\ yes
    BY <1>6, <1>7, <2>1 DEF Answers
  <2>2. CASE Here.k = "if" /\ ~yes /\ Here.else # 0
    BY <1>6, <1>7, <2>2 DEF Answers
  <2>3. CASE Here.k = "if" /\ ~yes /\ Here.else = 0
    BY <1>5, <1>7, <2>3 DEF Answers
  <2>4. CASE Here.k = "while" /\ yes
    BY <1>6, <1>7, <2>4 DEF Answers
  <2>5. CASE Here.k = "while" /\ ~yes
    BY <1>5, <1>7, <2>5 DEF Answers
  <2>6. CASE Here.k = "try"
    BY <1>5, <1>7, <2>6 DEF Answers
  <2> QED
    BY <1>2, <2>1, <2>2, <2>3, <2>4, <2>5, <2>6
<1> QED
  BY <1>4, <1>8

LEMMA BranchMoves ==
  ASSUME ExitsInv, Branch PROVE ExitsInv'
<1>1. Ready(Conditions) /\ stage = "running" /\ UNCHANGED <<function, backend, stage, trace, acc>>
  BY DEF Branch, Ready
<1>2. Asking
  BY <1>1, ConditionAsked
<1>3. PICK yes \in BOOLEAN :
        /\ code' = Taken(function, Head(code), Tail(code), yes)
        /\ loops' = Around(Head(code), Tail(code), yes, loops)
        /\ Answer(yes)
  BY <1>2 DEF Branch
<1>4. /\ After(function, Now, yes) \in States
      /\ Answers(function, backend, frames, Here, yes, meant, result, After(function, Now, yes))
  BY <1>1, ConditionSame
<1>5. Now' = After(function, Now, yes)
  BY <1>1, <1>3, NowFields DEF After, Now
<1>6. /\ Ends(function, backend, frames', exit', meant, result, Now')
      /\ meant' = meant /\ result' = result /\ exit' \in {"next", "return"}
  BY <1>1, <1>3, <1>4, <1>5, AnswerFrames
<1>7. meant \in Seq(Meaning) /\ result \in Nat
  BY <1>1, ConditionAsked DEF Abreast
<1>8. Abreast(function, backend, frames', exit', meant', result', Now')
  BY <1>6, <1>7 DEF Ends, Abreast, Exit
<1>9. Reach(function, Now', Now') /\ Now' \in States
  BY <1>4, <1>5, ReachSelf
<1>10. RunsAsMeant' /\ stage' = "running"
  BY <1>1 DEF RunsAsMeant
<1>11. function' = function /\ backend' = backend /\ function \in Functions /\ backend \in {"native", "wasm"}
  BY <1>1, InvTypes
<1> QED
  BY <1>8, <1>9, <1>10, <1>11 DEF ExitsInv

LEMMA ReturnEnds ==
  ASSUME ExitsInv, Return PROVE ExitsInv'
<1>1. /\ stage = "running" /\ Resting /\ code # <<>> /\ Head(code).op = "ret"
      /\ stage' = "done" /\ UNCHANGED <<function, backend, trace, acc, source>>
  BY DEF Return, Ready
<1>2. /\ Now \in States /\ ~Stuck(Now)
      /\ Abreast(function, backend, frames, exit, meant, result, Now)
  BY <1>1, AtSource
<1>3. frames = <<>>
  <2> SUFFICES ASSUME frames # <<>> PROVE FALSE
    OBVIOUS
  <2>1. Head(Now.code).op \in Conditions
    BY <1>1, <1>2, InvTypes, RestWaits, RestingCode
  <2> QED
    BY <1>1, <2>1, NowFields DEF Conditions
<1>4. SameCalls(trace) /\ acc = result
  BY <1>2, NowFields, SameIs DEF Abreast, Goal
<1>5. RunsAsMeant'
  BY <1>1, <1>3, <1>4 DEF RunsAsMeant, SameCalls, source
<1> QED
  BY <1>1, <1>5, InvTypes DEF ExitsInv

\* The body of the function, and where it stands.
LEMMA BodyBegun ==
  ASSUME function \in Functions, backend \in {"native", "wasm"}, NEW place,
         place = IF function.void THEN "statement" ELSE "function"
  PROVE  /\ Begun(1, place) \in Frame
         /\ TopOK(function, backend, Begun(1, place), "next")
         /\ ~Begun(1, place).again
         /\ RestOf(function, backend, Begun(1, place), <<>>) = BlockCode(function, 1, BodyContext)
         /\ BodyContext \in Context
<1>1. place \in Place /\ (place = "function" => ~function.void)
  BY DEF Place
<1>2. 1 \in DOMAIN function.blocks /\ <<>> \in Seq(Nat)
  BY FunctionType
<1> DEFINE new == Begun(1, place)
<1> DEFINE nothing == <<>>
<1>0. nothing \in Seq(Nat)
  BY <1>2
<1> HIDE DEF nothing
<1>3. /\ new \in Frame /\ FrameOK(function, new) /\ Settled(function, new) /\ ~new.again
      /\ new.place = place
      /\ Alive(function, backend, new)
      /\ RestOf(function, backend, new, nothing) =
           BlockCode(function, 1, ContextOf(function, backend, new, nothing))
  BY <1>0, <1>1, <1>2, BegunFrame
<1> USE DEF nothing
<1> HIDE DEF new
<1>4. ContextOf(function, backend, new, <<>>) = BodyContext
  BY <1>1, <1>3 DEF ContextOf, BodyContext
<1>5. BodyContext \in Context
  BY <1>2, <1>4, ContextOfType
<1>6. TopOK(function, backend, new, "next")
  BY <1>3 DEF TopOK, Leaving
<1> QED
  BY <1>3, <1>4, <1>5, <1>6 DEF new

\* The code of a function that calls nothing yet.
LEMMA NothingYet ==
  ASSUME NEW be PROVE Same(be, <<>>, <<>>)
<1>1. Kept(be, <<>>) = {}
  BY DEF Kept
<1>2. Cardinality({}) = 0
  BY FS_EmptySet
<1> QED
  BY <1>1, <1>2 DEF Same

LEMMA CompileStarts ==
  ASSUME ExitsInv, Compile PROVE ExitsInv'
<1> DEFINE place == IF function.void THEN "statement" ELSE "function"
           new == Begun(1, place)
           body == BlockCode(function, 1, BodyContext)
<1>1. /\ stage = "source" /\ code' = Append(body, Ret) /\ frames' = <<new>>
      /\ stage' \in {"running", "refused"}
      /\ UNCHANGED <<function, backend, loops, trace, acc, exit, meant, result>>
  BY DEF Compile
<1>2. /\ loops = <<>> /\ trace = <<>> /\ acc = 0 /\ exit = "next" /\ meant = <<>> /\ result = 0
  BY <1>1 DEF ExitsInv
<1>3. /\ new \in Frame /\ TopOK(function, backend, new, "next") /\ ~new.again
      /\ RestOf(function, backend, new, <<>>) = body
      /\ BodyContext \in Context
  BY InvTypes, BodyBegun
<1>4. 0 \in Nat /\ <<>> \in Seq(Headers) /\ <<>> \in Seq(Nat) /\ <<>> \in Seq(Meaning)
  OBVIOUS
<1>5. Ret \in Instr /\ <<Ret>> \in Seq(Instr)
  BY <1>4, Single, One
<1>6. body \o <<>> \in Seq(Instr)
  <2>1. 1 \in DOMAIN function.blocks /\ <<>> \in Seq(Instr)
    BY InvTypes, FunctionType
  <2> QED
    BY <1>3, <2>1, InvTypes, BlockCodeType
<1>7. body \in Seq(Instr)
  <2>1. 1 \in DOMAIN function.blocks /\ 1 \in 1 .. Len(Parts(function, 1)) + 1
    <3>1. 1 \in DOMAIN function.blocks
      BY InvTypes, FunctionType
    <3>2. Parts(function, 1) \in Seq(Part)
      BY <3>1, InvTypes, FunctionType
    <3> QED
      BY <3>1, <3>2
  <2> QED
    BY <1>3, <2>1, InvTypes, FromSteps DEF BlockCode
<1> HIDE DEF place, new, body
<1>8. code' = body \o <<Ret>> /\ code' \in Seq(Instr)
  <2>1. Append(body, Ret) = body \o <<Ret>> /\ body \o <<Ret>> \in Seq(Instr)
    BY <1>5, <1>7
  <2> QED
    BY <1>1, <2>1
<1>9. Now' \in States /\ Now'.code = code' /\ Now'.loops = <<>> /\ Now'.trace = <<>> /\ Now'.acc = 0
  <2>1. code' \in Seq(Instr) /\ loops' \in Seq(Headers) /\ trace' \in Seq(Nat) /\ acc' \in Nat
    BY <1>1, <1>2, <1>4, <1>8
  <2>2. LET t == St(code', loops', trace', acc')
        IN  t \in States /\ t.code = code' /\ t.loops = loops' /\ t.trace = trace' /\ t.acc = acc'
    BY <2>1, StateType
  <2>3. Now' = St(code', loops', trace', acc')
    BY DEF Now
  <2> QED
    BY <1>1, <1>2, <2>2, <2>3
<1>10. StackOK(function, backend, frames', "next")
  <2>1. frames' \in Seq(Frame) /\ frames'[1] = new /\ Len(frames') = 1
    BY <1>1, <1>3
  <2>2. Lower(function, backend, frames')
    BY <2>1 DEF Lower
  <2> QED
    BY <1>3, <2>1, <2>2 DEF StackOK
<1>11. Goal(function, backend, frames', "next", <<>>, 0, Now')
  <2> DEFINE below == <<Bottom>>
  <2>1. /\ Bottom \in Rest /\ Bottom.code = <<Ret>> /\ Bottom.loops = <<>> /\ Bottom.owed = <<>>
    <3> DEFINE nothing == <<>>
               end == <<Ret>>
    <3>1. nothing \in Seq(Headers) /\ nothing \in Seq(Nat) /\ end \in Seq(Instr)
      BY <1>4, <1>5
    <3> HIDE DEF nothing, end
    <3>2. LET x == Going(end, nothing, nothing)
          IN  x \in Rest /\ x.code = end /\ x.loops = nothing /\ x.owed = nothing
      BY <3>1, GoingType
    <3> QED
      BY <3>2 DEF Bottom, nothing, end
  <2>2. below \in Seq(Rest) /\ Len(below) = 1 /\ below[1] = Bottom
    BY <2>1
  <2>3. Len(frames') = 1 /\ frames'[1] = new /\ frames' # <<>>
    BY <1>1
  <2> HIDE DEF below
  <2>4. Beneath(function, backend, frames', below)
    BY <2>2, <2>3 DEF Beneath
  <2>5. ReachedTop(function, backend, new, "next", Now', Bottom)
    BY <1>3, <1>8, <1>9, <2>1 DEF ReachedTop, Leaving
  <2>6. Reached(function, backend, frames', "next", Now', below)
    BY <2>2, <2>3, <2>5 DEF Reached
  <2> QED
    BY <1>9, <2>4, <2>6, NothingYet DEF Goal
<1>12. Abreast(function, backend, frames', exit', meant', result', Now')
  BY <1>1, <1>2, <1>4, <1>10, <1>11 DEF Abreast, Exit
<1>13. Reach(function, Now', Now')
  BY ReachSelf
<1>14. RunsAsMeant'
  BY <1>1 DEF RunsAsMeant
<1>15. function' = function /\ backend' = backend /\ function \in Functions /\ backend \in {"native", "wasm"}
  BY <1>1, InvTypes
<1> QED
  BY <1>1, <1>9, <1>12, <1>13, <1>14, <1>15 DEF ExitsInv

-----------------------------------------------------------------------------
\* Whatever the functions and however often their conditions hold, the code is
\* abreast of the source, or on its way to it.
THEOREM ExitsInvariant == ExitsSpec => []ExitsInv
<1>1. ExitsInit => ExitsInv
  BY DEF ExitsInit, ExitsInv, RunsAsMeant
<1>2. ExitsInv /\ [ExitsNext]_exits_vars => ExitsInv'
  <2> SUFFICES ASSUME ExitsInv, [ExitsNext]_exits_vars PROVE ExitsInv'
    OBVIOUS
  <2>1. CASE Compile
    BY <2>1, CompileStarts
  <2>2. CASE Source
    BY <2>2, CallMoves, DeferMoves, ReturnMoves, LeaveMoves, BlockMoves, CleanupMoves, EndMoves
       DEF Source
  <2>3. CASE EnterBlock
    BY <2>3, EnterMoves
  <2>4. CASE Call
    BY <2>4, CallingMoves
  <2>5. CASE Branch
    BY <2>5, BranchMoves
  <2>6. CASE Jump
    BY <2>6, JumpMoves
  <2>7. CASE Return
    BY <2>7, ReturnEnds
  <2>8. CASE UNCHANGED exits_vars
    BY <2>8 DEF exits_vars, target, source, ExitsInv, Now, RunsAsMeant, SameCalls
  <2> QED
    BY <2>1, <2>2, <2>3, <2>4, <2>5, <2>6, <2>7, <2>8 DEF ExitsNext
<1> QED
  BY <1>1, <1>2, PTL DEF ExitsSpec

\* A finished run made exactly the calls the source means, in order, but for the
\* deferred expressions of a block left in a way on which its back end runs none,
\* and returned the value: emit_all_deferred_for_return writes what every live
\* scope owes, native code runs them where control falls off a block's end, and
\* neither runs one twice, for any nesting of blocks, loops and ways out.
THEOREM RunsAsMeantAlways == ExitsSpec => []RunsAsMeant
<1>1. ExitsInv => RunsAsMeant
  BY DEF ExitsInv
<1> QED
  BY <1>1, ExitsInvariant, PTL

\* The code comes to the conditions of the source and to no other, each time with
\* the calls made that the source has made by then: no deferred expression runs
\* early, and no path is taken that the source does not take (the dead code of
\* compile_if and of compile_expr's blocks, the loop stack of break and continue).
THEOREM InStepAlways == ExitsSpec => []InStep
<1>1. ExitsInv => InStep
  <2> SUFFICES ASSUME ExitsInv, Ready(Conditions)
               PROVE  Asking /\ Head(code).then = Here.then /\ SameCalls(trace) /\ acc = result
    BY DEF InStep
  <2> QED
    BY ConditionAsked, ConditionSame
<1> QED
  BY <1>1, ExitsInvariant, PTL

=============================================================================
