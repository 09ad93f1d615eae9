------------------------------ MODULE ArcProofs ------------------------------
(***************************************************************************)
(* Theorems about Arc, for any heap, any variables, any depth of blocks    *)
(* and calls, and every program over them that keeps to the core forms     *)
(* (Forms = {}): reference counts are exact, nothing dangles, and reading  *)
(* through the heap every variable is a value of its own (Values).         *)
(*                                                                         *)
(* RefcountExact is not inductive.  Whether a release also releases what   *)
(* the object contains depends on the static kind of the expression, so    *)
(* everything that refers to an address must agree on its kind (Agreed),   *)
(* and a container must hold rows only (Shaped).  What a parameter borrows *)
(* is held by the frame of its call (Params), and a borrowed value is      *)
(* consumed before anything is released (Pending).                         *)
(*                                                                         *)
(* The counting follows one number per address, Outer: its count less the  *)
(* slots that refer to it.  Each operation of the runtime changes Outer in *)
(* one way, whatever the heap, and the compiler's actions are compositions *)
(* of them.                                                                *)
(*                                                                         *)
(* The refinement rests on the counts: a write in place happens only when  *)
(* a count is one, and then no other variable shows the object.            *)
(***************************************************************************)
EXTENDS Arc, FiniteSetTheorems, SequenceTheorems, WellFoundedInduction, TLAPS

Is(a, b) == IF a = b THEN 1 ELSE 0

\* How often a occurs in s.
Among(a, s) == Times(a, s, DOMAIN s)

\* The slots of a heap that refer to a, and the references they do not explain.
SlotsOf(h, a) == {s \in Addr \X (1..MaxLen) :
                    s[2] \in DOMAIN h[s[1]].data /\ h[s[1]].data[s[2]] = a}
Outer(h, a) == h[a].rc - Cardinality(SlotsOf(h, a))

Cells == [rc : Nat, cap : 0..MaxLen, data : Seq(Ints \cup Addr)]
Heaps == {h \in [Addr -> Cells] : \A a \in Addr : Len(h[a].data) <= MaxLen}

\* The kind of the object at each address; containers hold rows, rows hold integers.
KindNames == {"row", "grid", "struct"}
Kinds == [Addr -> KindNames]
RowsOf(K) == {c \in Addr : K[c] = "row"}
Contents(K, k) == Seq(IF k = "row" THEN Ints ELSE RowsOf(K))

Shaped(h, K) ==
  /\ h \in Heaps
  /\ \A a \in Addr : h[a].rc = 0 => h[a] = Free
  /\ \A a \in Addr : h[a].data \in Contents(K, K[a])

-----------------------------------------------------------------------------
(* Counting *)

\* Two sets that differ in x at most.
LEMMA OneChanged ==
  ASSUME NEW S, NEW T, IsFiniteSet(S), NEW x, S \ {x} = T \ {x}
  PROVE  /\ IsFiniteSet(T) /\ Cardinality(S) \in Nat /\ Cardinality(T) \in Nat
         /\ Cardinality(T) = Cardinality(S) - (IF x \in S THEN 1 ELSE 0)
                                            + (IF x \in T THEN 1 ELSE 0)
PROOF
  <1> DEFINE R == S \ {x}
  <1>1. IsFiniteSet(R) /\ x \notin R /\ Cardinality(R) \in Nat
    BY FS_RemoveElement, FS_CardinalityType
  <1>2. /\ x \in S => S = R \cup {x}
        /\ x \notin S => S = R
        /\ x \in T => T = R \cup {x}
        /\ x \notin T => T = R
    OBVIOUS
  <1> HIDE DEF R
  <1>3. IsFiniteSet(R \cup {x}) /\ Cardinality(R \cup {x}) = Cardinality(R) + 1
    BY <1>1, FS_AddElement
  <1>4. CASE x \in S /\ x \in T
    <2>1. S = R \cup {x} /\ T = S
      BY <1>2, <1>4
    <2>2. Cardinality(S) = Cardinality(R) + 1 /\ IsFiniteSet(S)
      BY <1>3, <2>1
    <2> QED
      BY <1>1, <1>4, <2>1, <2>2
  <1>5. CASE x \in S /\ x \notin T
    BY <1>1, <1>2, <1>3, <1>5
  <1>6. CASE x \notin S /\ x \in T
    <2>1. S = R /\ T = R \cup {x}
      BY <1>2, <1>6
    <2>2. Cardinality(T) = Cardinality(R) + 1 /\ IsFiniteSet(T)
      BY <1>3, <2>1
    <2> QED
      BY <1>1, <1>6, <2>1, <2>2
  <1>7. CASE x \notin S /\ x \notin T
    BY <1>1, <1>2, <1>3, <1>7
  <1> QED
    BY <1>4, <1>5, <1>6, <1>7

\* The slots of one sequence are finitely many, and there are none only if none is a.
LEMMA TimesType ==
  ASSUME NEW X, NEW s \in Seq(X), NEW I \in SUBSET (DOMAIN s), NEW a
  PROVE  /\ IsFiniteSet({i \in I : s[i] = a})
         /\ Times(a, s, I) \in Nat
         /\ Times(a, s, I) = 0 <=> \A i \in I : s[i] # a
PROOF
  <1> DEFINE At == {i \in I : s[i] = a}
  <1>1. DOMAIN s = 1..Len(s) /\ Len(s) \in Nat
    OBVIOUS
  <1>2. At \in SUBSET (1..Len(s)) /\ IsFiniteSet(1..Len(s))
    BY <1>1, FS_Interval
  <1>3. IsFiniteSet(At) /\ Cardinality(At) \in Nat
    BY <1>2, FS_Subset, FS_CardinalityType
  <1>4. Cardinality(At) = 0 <=> At = {}
    BY <1>3, FS_EmptySet
  <1>5. At = {} <=> \A i \in I : s[i] # a
    OBVIOUS
  <1> QED
    BY <1>3, <1>4, <1>5 DEF Times

\* An element is replaced.
Put(s, i, x) == [s EXCEPT ![i] = x]

LEMMA AmongStored ==
  ASSUME NEW X, NEW s \in Seq(X), NEW i \in DOMAIN s, NEW x \in X, NEW t, t = Put(s, i, x), NEW a
  PROVE  /\ t \in Seq(X) /\ Len(t) = Len(s) /\ DOMAIN t = DOMAIN s
         /\ Among(a, t) = Among(a, s) - Is(a, s[i]) + Is(a, x)
         /\ Times(a, t, DOMAIN s \ {i}) = Among(a, s) - Is(a, s[i])
PROOF
  <1> DEFINE S == {j \in DOMAIN s : s[j] = a}
             T == {j \in DOMAIN s : t[j] = a}
             R == {j \in DOMAIN s \ {i} : t[j] = a}
  <1>1. t \in Seq(X) /\ Len(t) = Len(s) /\ DOMAIN t = DOMAIN s
    BY DEF Put
  <1>2. IsFiniteSet(S)
    BY TimesType
  <1>3. S \ {i} = T \ {i} /\ S \ {i} = R /\ R \ {i} = R
    BY DEF Put
  <1>4. i \in S <=> a = s[i]
    OBVIOUS
  <1>5. (i \in T <=> a = x) /\ i \notin R
    BY <1>1 DEF Put
  <1>6. Among(a, s) = Cardinality(S) /\ Among(a, t) = Cardinality(T)
        /\ Times(a, t, DOMAIN s \ {i}) = Cardinality(R)
    BY <1>1 DEF Among, Times
  <1> HIDE DEF S, T, R
  <1>7. /\ Cardinality(T) = Cardinality(S) - (IF i \in S THEN 1 ELSE 0) + (IF i \in T THEN 1 ELSE 0)
        /\ Cardinality(S) \in Nat
    BY <1>2, <1>3, OneChanged
  <1>8. S \ {i} = R \ {i}
    BY <1>3
  <1>9. Cardinality(R) = Cardinality(S) - (IF i \in S THEN 1 ELSE 0) + (IF i \in R THEN 1 ELSE 0)
    BY <1>2, <1>8, OneChanged
  <1> QED
    BY <1>1, <1>4, <1>5, <1>6, <1>7, <1>9 DEF Is

\* An element is appended.
LEMMA AmongAppended ==
  ASSUME NEW X, NEW s \in Seq(X), NEW x \in X, NEW a
  PROVE  /\ Append(s, x) \in Seq(X) /\ Len(Append(s, x)) = Len(s) + 1
         /\ Among(a, Append(s, x)) = Among(a, s) + Is(a, x)
PROOF
  <1> DEFINE t == Append(s, x)
             n == Len(s) + 1
             S == {j \in DOMAIN s : s[j] = a}
             T == {j \in DOMAIN t : t[j] = a}
  <1>1. t \in Seq(X) /\ Len(t) = n /\ DOMAIN t = 1..n /\ DOMAIN s = 1..Len(s) /\ n \notin DOMAIN s
    OBVIOUS
  <1>2. IsFiniteSet(S)
    BY TimesType
  <1>3. S \ {n} = T \ {n} /\ n \notin S
    BY <1>1
  <1>4. n \in T <=> a = x
    BY <1>1
  <1>5. Among(a, s) = Cardinality(S) /\ Among(a, t) = Cardinality(T)
    BY DEF Among, Times
  <1> HIDE DEF S, T, n
  <1>6. /\ Cardinality(T) = Cardinality(S) - (IF n \in S THEN 1 ELSE 0) + (IF n \in T THEN 1 ELSE 0)
        /\ Cardinality(S) \in Nat
    BY <1>2, <1>3, OneChanged
  <1> QED
    BY <1>1, <1>3, <1>4, <1>5, <1>6 DEF Is, n

\* The shortest sequences, and one of integers.
LEMMA AmongFew ==
  ASSUME NEW a
  PROVE  /\ Among(a, << >>) = 0
         /\ \A x : Among(a, <<x>>) = Is(a, x)
         /\ a \notin Ints => \A s \in Seq(Ints) : Among(a, s) = 0
PROOF
  <1>1. Among(a, << >>) = 0
    <2>1. << >> \in Seq({}) /\ DOMAIN << >> = {}
      OBVIOUS
    <2>2. Times(a, << >>, {}) = 0 <=> \A i \in {} : << >>[i] # a
      BY <2>1, TimesType
    <2> QED
      BY <2>1, <2>2 DEF Among
  <1>2. ASSUME NEW x PROVE Among(a, <<x>>) = Is(a, x)
    <2>1. << >> \in Seq({x}) /\ Append(<< >>, x) = <<x>> /\ x \in {x}
      OBVIOUS
    <2>2. Among(a, Append(<< >>, x)) = Among(a, << >>) + Is(a, x)
      BY <2>1, AmongAppended
    <2> QED
      BY <1>1, <2>1, <2>2 DEF Is
  <1>3. ASSUME a \notin Ints, NEW s \in Seq(Ints) PROVE Among(a, s) = 0
    <2>1. Times(a, s, DOMAIN s) = 0 <=> \A i \in DOMAIN s : s[i] # a
      BY TimesType
    <2>2. \A i \in DOMAIN s : s[i] \in Ints
      OBVIOUS
    <2> QED
      BY <1>3, <2>1, <2>2 DEF Among
  <1> QED
    BY <1>1, <1>2, <1>3

-----------------------------------------------------------------------------
(* What refers to an address from the heap *)

LEMMA SlotsFinite ==
  ASSUME NEW h, NEW a
  PROVE  IsFiniteSet(SlotsOf(h, a)) /\ Cardinality(SlotsOf(h, a)) \in Nat
PROOF
  <1>1. IsFiniteSet(Addr \X (1..MaxLen))
    <2>1. IsFiniteSet(Addr) /\ MaxLen \in Int /\ 1 \in Int
      BY ArcAssumption
    <2>2. IsFiniteSet(1..MaxLen)
      BY <2>1, FS_Interval
    <2> QED
      BY <2>1, <2>2, FS_Product
  <1> QED
    BY <1>1, FS_Subset, FS_CardinalityType DEF SlotsOf

\* The slots of one object.
LEMMA SlotsAt ==
  ASSUME NEW h \in Heaps, NEW b \in Addr, NEW a
  PROVE  /\ IsFiniteSet({s \in SlotsOf(h, a) : s[1] = b})
         /\ Cardinality({s \in SlotsOf(h, a) : s[1] = b}) = Among(a, h[b].data)
PROOF
  <1> DEFINE I == {i \in DOMAIN h[b].data : h[b].data[i] = a}
             S == {s \in SlotsOf(h, a) : s[1] = b}
             f == [i \in I |-> <<b, i>>]
  <1>1. h[b].data \in Seq(Ints \cup Addr) /\ Len(h[b].data) <= MaxLen
    BY DEF Heaps, Cells
  <1>2. IsFiniteSet(I) /\ Cardinality(I) = Among(a, h[b].data)
    BY <1>1, TimesType DEF Among, Times
  <1>3. \A i \in I : i \in 1..MaxLen
    BY <1>1, ArcAssumption
  <1>4. f \in [I -> S]
    BY <1>3 DEF SlotsOf
  <1>5. \A s \in S : s = <<b, s[2]>> /\ s[2] \in I
    BY DEF SlotsOf
  <1>6. f \in Injection(I, S)
    <2>1. ASSUME NEW i \in I, NEW j \in I, f[i] = f[j] PROVE i = j
      <3>1. f[i] = <<b, i>> /\ f[j] = <<b, j>>
        OBVIOUS
      <3> QED
        BY <2>1, <3>1
    <2> QED
      BY <1>4, <2>1 DEF Injection, IsInjective
  <1>7. f \in Surjection(I, S)
    BY <1>4, <1>5 DEF Surjection
  <1>8. ExistsBijection(I, S)
    BY <1>6, <1>7 DEF ExistsBijection, Bijection
  <1> HIDE DEF I, S
  <1>9. IsFiniteSet(S) /\ Cardinality(S) = Cardinality(I)
    BY <1>2, <1>8, FS_Bijection
  <1> QED
    BY <1>2, <1>9 DEF S

\* Only the contents of b change.
SameElsewhere(h, g, b) == \A c \in Addr \ {b} : g[c].data = h[c].data

LEMMA SlotsChange ==
  ASSUME NEW h \in Heaps, NEW g \in Heaps, NEW b \in Addr, NEW a, SameElsewhere(h, g, b)
  PROVE  Cardinality(SlotsOf(g, a)) =
           Cardinality(SlotsOf(h, a)) - Among(a, h[b].data) + Among(a, g[b].data)
PROOF
  <1> DEFINE Off == {s \in SlotsOf(h, a) : s[1] # b}
             HB == {s \in SlotsOf(h, a) : s[1] = b}
             GB == {s \in SlotsOf(g, a) : s[1] = b}
  <1>1. SlotsOf(h, a) = Off \cup HB /\ Off \cap HB = {}
    OBVIOUS
  <1>2. SlotsOf(g, a) = Off \cup GB /\ Off \cap GB = {}
    <2>1. Off = {s \in SlotsOf(g, a) : s[1] # b}
      BY DEF SlotsOf, SameElsewhere
    <2> QED
      BY <2>1
  <1>3. IsFiniteSet(Off) /\ Cardinality(Off) \in Nat
    BY SlotsFinite, FS_Subset, FS_CardinalityType
  <1>4. IsFiniteSet(HB) /\ Cardinality(HB) = Among(a, h[b].data)
    BY SlotsAt
  <1>5. IsFiniteSet(GB) /\ Cardinality(GB) = Among(a, g[b].data)
    BY SlotsAt
  <1>9. Cardinality(Off \cap HB) = 0 /\ Cardinality(Off \cap GB) = 0
    BY <1>1, <1>2, FS_EmptySet
  <1> HIDE DEF Off, HB, GB
  <1>6. Cardinality(HB) \in Nat /\ Cardinality(GB) \in Nat
    BY <1>4, <1>5, FS_CardinalityType
  <1>7. Cardinality(Off \cup HB) = Cardinality(Off) + Cardinality(HB) - Cardinality(Off \cap HB)
    BY <1>3, <1>4, FS_Union
  <1>8. Cardinality(Off \cup GB) = Cardinality(Off) + Cardinality(GB) - Cardinality(Off \cap GB)
    BY <1>3, <1>5, FS_Union
  <1>10. Cardinality(SlotsOf(h, a)) = Cardinality(Off) + Cardinality(HB)
    BY <1>1, <1>3, <1>6, <1>7, <1>9
  <1>11. Cardinality(SlotsOf(g, a)) = Cardinality(Off) + Cardinality(GB)
    BY <1>2, <1>3, <1>6, <1>8, <1>9
  <1> QED
    BY <1>3, <1>4, <1>5, <1>6, <1>10, <1>11

\* The contents of no object change.
LEMMA SlotsSame ==
  ASSUME NEW h, NEW g, NEW a, \A c \in Addr : g[c].data = h[c].data
  PROVE  SlotsOf(g, a) = SlotsOf(h, a)
PROOF
  BY DEF SlotsOf

\* An object has no more references to a than the heap has.
LEMMA AmongSlots ==
  ASSUME NEW h \in Heaps, NEW b \in Addr, NEW a
  PROVE  Among(a, h[b].data) \in Nat /\ Among(a, h[b].data) <= Cardinality(SlotsOf(h, a))
PROOF
  <1> DEFINE S == {s \in SlotsOf(h, a) : s[1] = b}
  <1>1. IsFiniteSet(S) /\ Cardinality(S) = Among(a, h[b].data)
    BY SlotsAt
  <1>2. S \in SUBSET SlotsOf(h, a)
    OBVIOUS
  <1> HIDE DEF S
  <1>3. Cardinality(S) <= Cardinality(SlotsOf(h, a)) /\ Cardinality(S) \in Nat
    BY <1>1, <1>2, SlotsFinite, FS_Subset, FS_CardinalityType
  <1> QED
    BY <1>1, <1>3

-----------------------------------------------------------------------------
(* The runtime's operations *)

\* What Shaped says of one address.
LEMMA ShapedCell ==
  ASSUME NEW K \in Kinds, NEW h, Shaped(h, K), NEW a \in Addr
  PROVE  /\ h \in Heaps /\ h \in [Addr -> Cells] /\ h[a] \in Cells
         /\ h[a].rc \in Nat /\ h[a].cap \in 0..MaxLen
         /\ h[a].data \in Seq(Ints \cup Addr) /\ h[a].data \in Contents(K, K[a])
         /\ Len(h[a].data) \in Nat /\ Len(h[a].data) <= MaxLen
         /\ h[a].rc = 0 => h[a] = Free
         /\ Outer(h, a) \in Int /\ h[a].rc >= Outer(h, a)
PROOF
  <1>1. Cardinality(SlotsOf(h, a)) \in Nat
    BY SlotsFinite
  <1> QED
    BY <1>1 DEF Shaped, Heaps, Cells, Outer

\* Two heaps with the same contents and well-formed counts.
LEMMA Recounted ==
  ASSUME NEW K \in Kinds, NEW h, Shaped(h, K), NEW g \in [Addr -> Cells],
         \A c \in Addr : g[c].data = h[c].data /\ (g[c].rc = 0 => g[c] = Free)
  PROVE  /\ Shaped(g, K)
         /\ \A c \in Addr : Outer(g, c) = Outer(h, c) + (g[c].rc - h[c].rc)
PROOF
  <1>1. g \in Heaps
    BY DEF Shaped, Heaps
  <1>2. Shaped(g, K)
    BY <1>1 DEF Shaped
  <1>3. ASSUME NEW c \in Addr PROVE Outer(g, c) = Outer(h, c) + (g[c].rc - h[c].rc)
    <2>1. SlotsOf(g, c) = SlotsOf(h, c)
      BY SlotsSame
    <2>2. Cardinality(SlotsOf(h, c)) \in Nat
      BY SlotsFinite
    <2>3. g[c].rc \in Nat /\ h[c].rc \in Nat
      BY <1>2, ShapedCell
    <2> QED
      BY <2>1, <2>2, <2>3 DEF Outer
  <1> QED
    BY <1>2, <1>3

LEMMA RetainOp ==
  ASSUME NEW K \in Kinds, NEW h, Shaped(h, K), NEW a \in Addr
  PROVE  /\ Shaped(Retain(h, a), K)
         /\ \A c \in Addr : /\ Outer(Retain(h, a), c) = Outer(h, c) + Is(c, a)
                            /\ Retain(h, a)[c].rc = h[c].rc + Is(c, a)
                            /\ Retain(h, a)[c].data = h[c].data
                            /\ Retain(h, a)[c].cap = h[c].cap
PROOF
  <1> DEFINE g == Retain(h, a)
  <1>1. \A c \in Addr : h[c] \in Cells /\ h[c].rc \in Nat
    BY ShapedCell
  <1>2. h \in [Addr -> Cells]
    BY ShapedCell
  <1>3. /\ g \in [Addr -> Cells]
        /\ \A c \in Addr : /\ g[c].data = h[c].data /\ g[c].cap = h[c].cap
                           /\ g[c].rc = h[c].rc + Is(c, a)
                           /\ c # a => g[c] = h[c]
    <2>1. g[a] = [h[a] EXCEPT !.rc = @ + 1] /\ \A c \in Addr \ {a} : g[c] = h[c]
      BY <1>2 DEF Retain
    <2>2. /\ g[a] \in Cells /\ g[a].rc = h[a].rc + 1
          /\ g[a].data = h[a].data /\ g[a].cap = h[a].cap
      BY <1>1, <2>1 DEF Cells
    <2>3. g \in [Addr -> Cells]
      BY <1>2, <2>2 DEF Retain
    <2> HIDE DEF g
    <2>4. ASSUME NEW c \in Addr
          PROVE  /\ g[c].data = h[c].data /\ g[c].cap = h[c].cap
                 /\ g[c].rc = h[c].rc + Is(c, a)
                 /\ c # a => g[c] = h[c]
      <3>1. CASE c = a
        BY <2>2, <3>1 DEF Is
      <3>2. CASE c # a
        BY <1>1, <2>1, <3>2 DEF Is
      <3> QED
        BY <3>1, <3>2
    <2> QED
      BY <2>3, <2>4
  <1>4. \A c \in Addr : g[c].rc = 0 => g[c] = Free
    BY <1>1, <1>3 DEF Is, Shaped
  <1> HIDE DEF g
  <1>5. Shaped(g, K) /\ \A c \in Addr : Outer(g, c) = Outer(h, c) + (g[c].rc - h[c].rc)
    BY <1>3, <1>4, Recounted
  <1>6. \A c \in Addr : Outer(g, c) = Outer(h, c) + Is(c, a)
    BY <1>1, <1>3, <1>5 DEF Is
  <1> QED
    BY <1>3, <1>5, <1>6 DEF g

LEMMA UnshareOp ==
  ASSUME NEW K \in Kinds, NEW h, Shaped(h, K), NEW a \in Addr, h[a].rc > 1
  PROVE  /\ Shaped(Unshare(h, a), K)
         /\ \A c \in Addr : /\ Outer(Unshare(h, a), c) = Outer(h, c) - Is(c, a)
                            /\ Unshare(h, a)[c].rc = h[c].rc - Is(c, a)
                            /\ Unshare(h, a)[c].data = h[c].data
PROOF
  <1> DEFINE g == Unshare(h, a)
  <1>1. \A c \in Addr : h[c] \in Cells /\ h[c].rc \in Nat
    BY ShapedCell
  <1>2. h \in [Addr -> Cells]
    BY ShapedCell
  <1>3. /\ g \in [Addr -> Cells]
        /\ \A c \in Addr : /\ g[c].data = h[c].data
                           /\ g[c].rc = h[c].rc - Is(c, a)
                           /\ c # a => g[c] = h[c]
    BY <1>1, <1>2 DEF Unshare, Cells, Is
  <1>4. \A c \in Addr : g[c].rc = 0 => g[c] = Free
    BY <1>1, <1>3 DEF Is, Shaped
  <1> HIDE DEF g
  <1>5. Shaped(g, K) /\ \A c \in Addr : Outer(g, c) = Outer(h, c) + (g[c].rc - h[c].rc)
    BY <1>3, <1>4, Recounted
  <1>6. \A c \in Addr : Outer(g, c) = Outer(h, c) - Is(c, a)
    BY <1>1, <1>3, <1>5, ShapedCell DEF Is
  <1> QED
    BY <1>3, <1>5, <1>6 DEF g

\* Slots I of s are retained.
LEMMA RetainSlotsOp ==
  ASSUME NEW K \in Kinds, NEW h, Shaped(h, K), NEW X, NEW s \in Seq(X), NEW I \in SUBSET (DOMAIN s)
  PROVE  /\ Shaped(RetainSlots(h, s, I), K)
         /\ \A c \in Addr : /\ Times(c, s, I) \in Nat
                            /\ Outer(RetainSlots(h, s, I), c) = Outer(h, c) + Times(c, s, I)
                            /\ RetainSlots(h, s, I)[c].rc = h[c].rc + Times(c, s, I)
                            /\ RetainSlots(h, s, I)[c].data = h[c].data
PROOF
  <1> DEFINE g == RetainSlots(h, s, I)
  <1>1. \A c \in Addr : h[c] \in Cells /\ h[c].rc \in Nat /\ Times(c, s, I) \in Nat
    BY ShapedCell, TimesType
  <1>2. h \in [Addr -> Cells]
    BY ShapedCell DEF Shaped, Heaps
  <1>3. \A c \in Addr : /\ g[c].data = h[c].data /\ g[c] \in Cells
                        /\ g[c].rc = h[c].rc + Times(c, s, I)
                        /\ Times(c, s, I) = 0 => g[c] = h[c]
    <2> SUFFICES ASSUME NEW c \in Addr
                 PROVE  /\ g[c].data = h[c].data /\ g[c] \in Cells
                        /\ g[c].rc = h[c].rc + Times(c, s, I)
                        /\ Times(c, s, I) = 0 => g[c] = h[c]
      OBVIOUS
    <2>1. g[c] = [h[c] EXCEPT !.rc = @ + Times(c, s, I)]
      BY DEF RetainSlots
    <2> HIDE DEF g
    <2> QED
      BY <1>1, <2>1 DEF Cells
  <1>4. \A c \in Addr : g[c].rc = 0 => g[c] = Free
    BY <1>1, <1>3 DEF Shaped
  <1>5. g \in [Addr -> Cells]
    BY <1>3 DEF RetainSlots
  <1> HIDE DEF g
  <1>6. Shaped(g, K) /\ \A c \in Addr : Outer(g, c) = Outer(h, c) + (g[c].rc - h[c].rc)
    BY <1>3, <1>4, <1>5, Recounted
  <1>7. \A c \in Addr : Outer(g, c) = Outer(h, c) + Times(c, s, I)
    BY <1>1, <1>3, <1>6
  <1> QED
    BY <1>1, <1>3, <1>6, <1>7 DEF g

\* The contents of one object are replaced.
Write(h, a, d) == [h EXCEPT ![a].data = d]

LEMMA WriteOp ==
  ASSUME NEW K \in Kinds, NEW h, Shaped(h, K), NEW a \in Addr, h[a].rc > 0,
         NEW d \in Contents(K, K[a]), Len(d) <= MaxLen
  PROVE  /\ Shaped(Write(h, a, d), K)
         /\ \A c \in Addr :
              /\ Among(c, d) \in Nat /\ Among(c, h[a].data) \in Nat
              /\ Outer(Write(h, a, d), c) = Outer(h, c) + Among(c, h[a].data) - Among(c, d)
              /\ Write(h, a, d)[c].rc = h[c].rc
              /\ Write(h, a, d)[c].data = (IF c = a THEN d ELSE h[c].data)
PROOF
  <1> DEFINE g == Write(h, a, d)
  <1>1. \A c \in Addr : h[c] \in Cells /\ h[c].rc \in Nat
    BY ShapedCell
  <1>2. h \in [Addr -> Cells] /\ h \in Heaps
    BY ShapedCell
  <1>3. d \in Seq(Ints \cup Addr)
    BY DEF Contents, RowsOf
  <1>4. /\ g \in [Addr -> Cells]
        /\ \A c \in Addr : /\ g[c].data = (IF c = a THEN d ELSE h[c].data)
                           /\ g[c].rc = h[c].rc
                           /\ c # a => g[c] = h[c]
    BY <1>1, <1>2, <1>3 DEF Cells, Write
  <1> HIDE DEF g
  <1>5. g \in Heaps
    BY <1>2, <1>4 DEF Heaps
  <1>6. Shaped(g, K)
    BY <1>1, <1>4, <1>5 DEF Shaped
  <1>7. ASSUME NEW c \in Addr
        PROVE  Outer(g, c) = Outer(h, c) + Among(c, h[a].data) - Among(c, d)
    <2>1. Cardinality(SlotsOf(g, c)) =
            Cardinality(SlotsOf(h, c)) - Among(c, h[a].data) + Among(c, g[a].data)
      <3>1. SameElsewhere(h, g, a)
        BY <1>4 DEF SameElsewhere
      <3> QED
        BY <1>2, <1>5, <3>1, SlotsChange
    <2>2. Cardinality(SlotsOf(h, c)) \in Nat /\ Among(c, h[a].data) \in Nat /\ Among(c, g[a].data) \in Nat
      BY <1>2, <1>5, SlotsFinite, AmongSlots
    <2> QED
      BY <1>1, <1>4, <2>1, <2>2 DEF Outer
  <1>8. \A c \in Addr : Among(c, d) \in Nat /\ Among(c, h[a].data) \in Nat
    BY <1>2, <1>3, AmongSlots, TimesType DEF Among
  <1> QED
    BY <1>4, <1>6, <1>7, <1>8 DEF g

\* An object is allocated.
LEMMA AllocOp ==
  ASSUME NEW K \in Kinds, NEW h, Shaped(h, K), NEW a \in Addr, h[a].rc = 0,
         NEW d \in Contents(K, K[a]), Len(d) <= MaxLen, NEW cap \in Nat
  PROVE  /\ Shaped(Alloc(h, a, d, cap), K)
         /\ \A c \in Addr :
              /\ Among(c, d) \in Nat
              /\ Outer(Alloc(h, a, d, cap), c) = Outer(h, c) + Is(c, a) - Among(c, d)
              /\ Alloc(h, a, d, cap)[c].rc = h[c].rc + Is(c, a)
              /\ Alloc(h, a, d, cap)[c].data = (IF c = a THEN d ELSE h[c].data)
PROOF
  <1> DEFINE g == Alloc(h, a, d, cap)
  <1>1. \A c \in Addr : h[c] \in Cells /\ h[c].rc \in Nat
    BY ShapedCell
  <1>2. h \in [Addr -> Cells] /\ h \in Heaps /\ h[a] = Free
    BY ShapedCell
  <1>3. d \in Seq(Ints \cup Addr) /\ Capped(cap) \in 0..MaxLen
    BY ArcAssumption DEF Contents, RowsOf, Capped
  <1>4. /\ g \in [Addr -> Cells]
        /\ g[a] = [rc |-> 1, cap |-> Capped(cap), data |-> d]
        /\ \A c \in Addr : c # a => g[c] = h[c]
    BY <1>1, <1>2, <1>3 DEF Cells, Alloc
  <1> HIDE DEF g
  <1>5. ASSUME NEW c \in Addr
        PROVE  /\ g[c].data = (IF c = a THEN d ELSE h[c].data)
               /\ g[c].rc = h[c].rc + Is(c, a)
               /\ g[c].rc = 0 => g[c] = Free
    BY <1>1, <1>2, <1>4 DEF Is, Free, Shaped
  <1>6. g \in Heaps
    BY <1>2, <1>4, <1>5 DEF Heaps
  <1>7. Shaped(g, K)
    BY <1>5, <1>6 DEF Shaped
  <1>8. \A c \in Addr : Among(c, d) \in Nat
    BY <1>3, TimesType DEF Among
  <1>9. ASSUME NEW c \in Addr
        PROVE  Outer(g, c) = Outer(h, c) + Is(c, a) - Among(c, d)
    <2>1. SameElsewhere(h, g, a)
      BY <1>5 DEF SameElsewhere
    <2>2. Cardinality(SlotsOf(g, c)) =
            Cardinality(SlotsOf(h, c)) - Among(c, h[a].data) + Among(c, g[a].data)
      BY <1>2, <1>6, <2>1, SlotsChange
    <2>3. Among(c, h[a].data) = 0 /\ Among(c, g[a].data) = Among(c, d)
      BY <1>2, <1>4, AmongFew DEF Free
    <2>4. Cardinality(SlotsOf(h, c)) \in Nat
      BY SlotsFinite
    <2>5. Cardinality(SlotsOf(g, c)) = Cardinality(SlotsOf(h, c)) + Among(c, d)
      BY <1>8, <2>2, <2>3, <2>4
    <2>6. g[c].rc = h[c].rc + Is(c, a) /\ Is(c, a) \in {0, 1} /\ h[c].rc \in Nat
      BY <1>1, <1>5 DEF Is
    <2> QED
      BY <1>8, <2>4, <2>5, <2>6 DEF Outer
  <1> QED
    BY <1>5, <1>7, <1>8, <1>9 DEF g

\* Rows refer to nothing, so their contents do not matter to the slots.
LEMMA SlotsOfContainers ==
  ASSUME NEW f, NEW g, NEW a \in Addr,
         \A c \in Addr : g[c].data = f[c].data \/ (g[c].data \in Seq(Ints) /\ f[c].data \in Seq(Ints))
  PROVE  SlotsOf(g, a) = SlotsOf(f, a)
PROOF
  <1>1. \A s \in Seq(Ints) : \A i \in DOMAIN s : s[i] # a
    BY ArcAssumption
  <1> QED
    BY <1>1 DEF SlotsOf

LEMMA ReleaseRowOp ==
  ASSUME NEW K \in Kinds, NEW h, Shaped(h, K), NEW a \in Addr, K[a] = "row", h[a].rc > 0
  PROVE  /\ Shaped(ReleaseRow(h, a), K)
         /\ \A c \in Addr : /\ Outer(ReleaseRow(h, a), c) = Outer(h, c) - Is(c, a)
                            /\ ReleaseRow(h, a)[c].rc = h[c].rc - Is(c, a)
                            /\ c # a \/ h[a].rc > 1 => ReleaseRow(h, a)[c].data = h[c].data
PROOF
  <1> DEFINE g == ReleaseRow(h, a)
  <1>1. \A c \in Addr : h[c] \in Cells /\ h[c].rc \in Nat
    BY ShapedCell
  <1>2. h \in [Addr -> Cells] /\ h \in Heaps
    BY ShapedCell
  <1>3. CASE h[a].rc > 1
    <2>1. g = Unshare(h, a)
      BY <1>1, <1>3 DEF ReleaseRow
    <2> HIDE DEF g
    <2> QED
      BY <1>3, <2>1, UnshareOp DEF g
  <1>4. CASE h[a].rc = 1
    <2>1. Free \in Cells
      BY ArcAssumption DEF Free, Cells
    <2>2. g = [h EXCEPT ![a] = Free]
      BY <1>4 DEF ReleaseRow
    <2>3. g \in [Addr -> Cells] /\ g[a] = Free /\ \A c \in Addr : c # a => g[c] = h[c]
      BY <1>2, <2>1, <2>2
    <2> HIDE DEF g
    <2>4. Free.rc = 0 /\ Free.data = << >> /\ << >> \in Seq(Ints) /\ Len(<< >>) <= MaxLen
      BY ArcAssumption DEF Free
    <2>5. g \in Heaps
      BY <1>2, <2>3, <2>4 DEF Heaps
    <2>6. Shaped(g, K)
      BY <2>3, <2>4, <2>5 DEF Shaped, Contents
    <2>7. h[a].data \in Seq(Ints)
      BY DEF Shaped, Contents
    <2>8. \A c \in Addr : g[c].rc = h[c].rc - Is(c, a)
      BY <1>1, <1>4, <2>3, <2>4 DEF Is
    <2>9. ASSUME NEW c \in Addr PROVE Outer(g, c) = Outer(h, c) - Is(c, a)
      <3>1. SlotsOf(g, c) = SlotsOf(h, c)
        BY <2>3, <2>4, <2>7, SlotsOfContainers
      <3> QED
        BY <1>1, <2>8, <3>1, SlotsFinite DEF Outer, Is
    <2> QED
      BY <1>4, <2>3, <2>6, <2>8, <2>9 DEF g
  <1> QED
    BY <1>1, <1>3, <1>4

\* The last reference to a container: its slots are released, then it is freed.
LEMMA FreeNestedOp ==
  ASSUME NEW K \in Kinds, NEW h, Shaped(h, K), NEW a \in Addr, K[a] # "row", h[a].rc = 1,
         \A c \in Addr : Outer(h, c) >= 0
  PROVE  /\ Shaped(ReleaseNested(h, a), K)
         /\ \A c \in Addr : /\ Outer(ReleaseNested(h, a), c) = Outer(h, c) - Is(c, a)
                            /\ ReleaseNested(h, a)[c].rc > 0 =>
                                 ReleaseNested(h, a)[c].data = h[c].data
                            /\ ReleaseNested(h, a)[c].rc <= h[c].rc
PROOF
  <1> DEFINE g == ReleaseNested(h, a)
             d == h[a].data
             f == Write(h, a, << >>)
  <1>1. \A c \in Addr : h[c] \in Cells /\ h[c].rc \in Nat
    BY ShapedCell
  <1>2. h \in [Addr -> Cells] /\ h \in Heaps
    BY ShapedCell
  <1>3. Free \in Cells /\ Free.rc = 0 /\ Free.data = << >> /\ Len(<< >>) <= MaxLen
        /\ << >> \in Seq(Ints) /\ << >> \in Contents(K, K[a])
    BY ArcAssumption DEF Free, Cells, Contents
  <1>4. d \in Seq(RowsOf(K)) /\ d \in Seq(Ints \cup Addr)
    BY ShapedCell DEF Contents
  <1>5. \A c \in Addr : Among(c, d) \in Nat /\ Among(c, d) <= Cardinality(SlotsOf(h, c))
    BY <1>2, AmongSlots
  <1>6. \A c \in Addr : h[c].rc >= Among(c, d)
    BY <1>1, <1>5, SlotsFinite DEF Outer
  <1>7. \A c \in Addr : K[c] # "row" => Among(c, d) = 0
    <2>1. SUFFICES ASSUME NEW c \in Addr, K[c] # "row" PROVE Among(c, d) = 0
      OBVIOUS
    <2>2. \A i \in DOMAIN d : d[i] # c
      BY <1>4, <2>1 DEF RowsOf
    <2>3. Among(c, d) = 0 <=> \A i \in DOMAIN d : d[i] # c
      BY <1>4, TimesType DEF Among
    <2> QED
      BY <2>2, <2>3
  <1>8. g = [ReleaseSlots(h, d) EXCEPT ![a] = Free]
    BY DEF ReleaseNested
  <1>9. /\ g[a] = Free /\ g = [c \in Addr |-> g[c]]
        /\ \A c \in Addr : c # a => g[c] = ReleaseSlots(h, d)[c]
    BY <1>8 DEF ReleaseSlots
  <1> HIDE DEF g, d
  <1>10. ASSUME NEW c \in Addr, c # a
         PROVE  /\ g[c] \in Cells /\ g[c].rc = h[c].rc - Among(c, d)
                /\ g[c].rc > 0 => g[c].data = h[c].data
                /\ g[c].rc = 0 => g[c] = Free
                /\ g[c].data # h[c].data => Among(c, d) # 0 /\ g[c].data = << >>
    <2>1. g[c] = IF Among(c, d) = 0 THEN h[c]
                 ELSE IF h[c].rc > Among(c, d) THEN [h[c] EXCEPT !.rc = @ - Among(c, d)] ELSE Free
      BY <1>9, <1>10 DEF ReleaseSlots, Among
    <2>2. h[c] \in Cells /\ h[c].rc >= Among(c, d) /\ Among(c, d) \in Nat /\ h[c].rc \in Nat
      BY <1>1, <1>5, <1>6
    <2>3. CASE Among(c, d) = 0
      BY <2>1, <2>2, <2>3, ShapedCell
    <2>4. CASE Among(c, d) # 0 /\ h[c].rc > Among(c, d)
      <3>1. g[c] = [h[c] EXCEPT !.rc = @ - Among(c, d)]
        BY <2>1, <2>4
      <3>2. h[c].rc - Among(c, d) \in Nat /\ h[c].rc - Among(c, d) # 0
        BY <2>2, <2>4
      <3> QED
        BY <2>2, <3>1, <3>2 DEF Cells
    <2>5. CASE Among(c, d) # 0 /\ ~(h[c].rc > Among(c, d))
      BY <1>3, <2>1, <2>2, <2>5
    <2> QED
      BY <2>3, <2>4, <2>5
  <1>11. g \in [Addr -> Cells]
    BY <1>3, <1>9, <1>10
  <1>12. ASSUME NEW c \in Addr
         PROVE  g[c].data \in Contents(K, K[c]) /\ Len(g[c].data) <= MaxLen
    <2>1. h[c].data \in Contents(K, K[c]) /\ Len(h[c].data) <= MaxLen
      BY ShapedCell
    <2>2. << >> \in Contents(K, K[c])
      BY DEF Contents
    <2> QED
      BY <1>3, <1>9, <1>10, <2>1, <2>2
  <1>13. Shaped(g, K)
    BY <1>3, <1>9, <1>10, <1>11, <1>12 DEF Shaped, Heaps
  <1>14. Shaped(f, K) /\ \A c \in Addr : /\ Outer(f, c) = Outer(h, c) + Among(c, d) - Among(c, << >>)
                                         /\ f[c].rc = h[c].rc
                                         /\ f[c].data = (IF c = a THEN << >> ELSE h[c].data)
    BY <1>3, WriteOp DEF d
  <1> HIDE DEF f
  <1>15. ASSUME NEW c \in Addr PROVE SlotsOf(g, c) = SlotsOf(f, c)
    <2>1. ASSUME NEW e \in Addr
          PROVE  g[e].data = f[e].data \/ (g[e].data \in Seq(Ints) /\ f[e].data \in Seq(Ints))
      <3>1. CASE e = a
        BY <1>3, <1>9, <1>14, <3>1
      <3>2. CASE e # a /\ g[e].data # h[e].data
        <4>1. Among(e, d) # 0 /\ g[e].data = << >>
          BY <1>10, <3>2
        <4>2. h[e].data \in Seq(Ints)
          BY <1>7, <4>1, ShapedCell DEF Contents
        <4> QED
          BY <1>3, <1>14, <3>2, <4>1, <4>2
      <3>3. CASE e # a /\ g[e].data = h[e].data
        BY <1>14, <3>3
      <3> QED
        BY <3>1, <3>2, <3>3
    <2> QED
      BY <2>1, SlotsOfContainers
  <1>16. ASSUME NEW c \in Addr PROVE Outer(g, c) = Outer(h, c) - Is(c, a)
    <2>1. Among(c, << >>) = 0
      BY AmongFew
    <2>2. Cardinality(SlotsOf(h, c)) \in Nat /\ Cardinality(SlotsOf(f, c)) \in Nat
      BY SlotsFinite
    <2>3. h[c].rc - Cardinality(SlotsOf(f, c)) = h[c].rc - Cardinality(SlotsOf(h, c)) + Among(c, d)
      BY <1>5, <1>14, <2>1, <2>2, <1>1 DEF Outer
    <2>4. CASE c = a
      BY <1>1, <1>3, <1>5, <1>7, <1>9, <1>15, <2>2, <2>3, <2>4 DEF Outer, Is
    <2>5. CASE c # a
      <3>1. g[c].rc = h[c].rc - Among(c, d) /\ Among(c, d) \in Nat /\ h[c].rc \in Nat
        BY <1>1, <1>5, <1>10, <2>5
      <3>2. Outer(g, c) = g[c].rc - Cardinality(SlotsOf(f, c))
        BY <1>15 DEF Outer
      <3>3. Is(c, a) = 0
        BY <2>5 DEF Is
      <3> QED
        BY <2>2, <2>3, <3>1, <3>2, <3>3 DEF Outer
    <2> QED
      BY <2>4, <2>5
  <1>17. \A c \in Addr : /\ g[c].rc > 0 => g[c].data = h[c].data
                         /\ g[c].rc <= h[c].rc
    BY <1>1, <1>3, <1>5, <1>9, <1>10
  <1> QED
    BY <1>13, <1>16, <1>17 DEF g

\* A reference of an expression of the object's kind is released.
LEMMA ReleaseOp ==
  ASSUME NEW K \in Kinds, NEW h, Shaped(h, K), NEW a \in Addr, h[a].rc > 0,
         \A c \in Addr : Outer(h, c) >= 0
  PROVE  /\ Shaped(Release(h, K[a], a), K)
         /\ \A c \in Addr : /\ Outer(Release(h, K[a], a), c) = Outer(h, c) - Is(c, a)
                            /\ Release(h, K[a], a)[c].rc > 0 =>
                                 Release(h, K[a], a)[c].data = h[c].data
                            /\ Release(h, K[a], a)[c].rc <= h[c].rc
PROOF
  <1> DEFINE g == Release(h, K[a], a)
  <1>1. \A c \in Addr : h[c].rc \in Nat
    BY ShapedCell
  <1>2. CASE K[a] = "row"
    <2>1. g = ReleaseRow(h, a)
      BY <1>2 DEF Release
    <2> HIDE DEF g
    <2>2. /\ Shaped(g, K)
          /\ \A c \in Addr : /\ Outer(g, c) = Outer(h, c) - Is(c, a)
                             /\ g[c].rc = h[c].rc - Is(c, a)
                             /\ c # a \/ h[a].rc > 1 => g[c].data = h[c].data
      BY <1>2, <2>1, ReleaseRowOp
    <2>3. \A c \in Addr : (g[c].rc > 0 => c # a \/ h[a].rc > 1) /\ g[c].rc <= h[c].rc
      BY <1>1, <2>2 DEF Is
    <2> QED
      BY <2>2, <2>3 DEF g
  <1>3. CASE K[a] # "row" /\ h[a].rc = 1
    <2>1. g = ReleaseNested(h, a)
      BY <1>3 DEF Release
    <2> QED
      BY <1>3, <2>1, FreeNestedOp
  <1>4. CASE K[a] # "row" /\ h[a].rc # 1
    <2>1. g = Unshare(h, a)
      BY <1>4 DEF Release, ReleaseNested
    <2>2. h[a].rc > 1
      BY <1>1, <1>4
    <2> HIDE DEF g
    <2>3. /\ Shaped(g, K)
          /\ \A c \in Addr : /\ Outer(g, c) = Outer(h, c) - Is(c, a)
                             /\ g[c].rc = h[c].rc - Is(c, a)
                             /\ g[c].data = h[c].data
      BY <2>1, <2>2, UnshareOp
    <2>4. \A c \in Addr : g[c].rc <= h[c].rc
      BY <1>1, <2>3 DEF Is
    <2> QED
      BY <2>3, <2>4 DEF g
  <1> QED
    BY <1>2, <1>3, <1>4

\* A shared object is left to its other holders, and a copy with contents d is made.
LEMMA CowOp ==
  ASSUME NEW K \in Kinds, NEW h, Shaped(h, K), NEW a \in Addr, h[a].rc > 1,
         NEW new \in Addr, h[new].rc = 0,
         NEW d \in Contents(K, K[new]), Len(d) <= MaxLen
  PROVE  /\ Shaped(CowCopy(h, a, d, new), K)
         /\ \A c \in Addr :
              /\ Among(c, d) \in Nat
              /\ Outer(CowCopy(h, a, d, new), c) = Outer(h, c) + Is(c, new) - Among(c, d) - Is(c, a)
              /\ CowCopy(h, a, d, new)[c].rc = h[c].rc + Is(c, new) - Is(c, a)
              /\ CowCopy(h, a, d, new)[c].data = (IF c = new THEN d ELSE h[c].data)
PROOF
  <1> DEFINE f == Alloc(h, new, d, Len(d))
             g == CowCopy(h, a, d, new)
  <1>1. g = Unshare(f, a)
    BY DEF CowCopy
  <1>2. Len(d) \in Nat
    BY DEF Contents
  <1> HIDE DEF f, g
  <1>3. /\ Shaped(f, K)
        /\ \A c \in Addr :
              /\ Among(c, d) \in Nat
              /\ Outer(f, c) = Outer(h, c) + Is(c, new) - Among(c, d)
              /\ f[c].rc = h[c].rc + Is(c, new)
              /\ f[c].data = (IF c = new THEN d ELSE h[c].data)
    BY <1>2, AllocOp DEF f
  <1>4. f[a].rc > 1
    <2>1. f[a].rc = h[a].rc + Is(a, new) /\ h[a].rc \in Nat
      BY <1>3, ShapedCell
    <2>2. Is(a, new) = 0
      BY DEF Is
    <2> QED
      BY <2>1, <2>2
  <1>5. /\ Shaped(g, K)
        /\ \A c \in Addr : /\ Outer(g, c) = Outer(f, c) - Is(c, a)
                           /\ g[c].rc = f[c].rc - Is(c, a)
                           /\ g[c].data = f[c].data
    BY <1>1, <1>3, <1>4, UnshareOp
  <1>6. \A c \in Addr : /\ Outer(g, c) = Outer(h, c) + Is(c, new) - Among(c, d) - Is(c, a)
                        /\ g[c].rc = h[c].rc + Is(c, new) - Is(c, a)
                        /\ g[c].data = (IF c = new THEN d ELSE h[c].data)
    <2> SUFFICES ASSUME NEW c \in Addr
                 PROVE  /\ Outer(g, c) = Outer(h, c) + Is(c, new) - Among(c, d) - Is(c, a)
                        /\ g[c].rc = h[c].rc + Is(c, new) - Is(c, a)
                        /\ g[c].data = (IF c = new THEN d ELSE h[c].data)
      OBVIOUS
    <2>1. Outer(h, c) \in Int /\ h[c].rc \in Nat
      BY ShapedCell
    <2>2. Is(c, new) \in Int /\ Is(c, a) \in Int /\ Among(c, d) \in Nat
      BY <1>3 DEF Is
    <2>3. /\ Outer(f, c) = Outer(h, c) + Is(c, new) - Among(c, d)
          /\ f[c].rc = h[c].rc + Is(c, new)
          /\ f[c].data = (IF c = new THEN d ELSE h[c].data)
      BY <1>3
    <2>4. /\ Outer(g, c) = Outer(f, c) - Is(c, a)
          /\ g[c].rc = f[c].rc - Is(c, a)
          /\ g[c].data = f[c].data
      BY <1>5
    <2> QED
      BY <2>1, <2>2, <2>3, <2>4
  <1> QED
    BY <1>3, <1>5, <1>6 DEF g

\* The copy that a push without room makes.
LEMMA PushedCopyOp ==
  ASSUME NEW K \in Kinds, NEW h, Shaped(h, K), NEW a \in Addr, NEW new \in Addr, h[new].rc = 0,
         NEW x, Append(h[a].data, x) \in Contents(K, K[new]), Len(h[a].data) < MaxLen
  PROVE  LET d == Append(h[a].data, x)
             g == PushedCopy(h, a, x, new)
         IN  /\ Shaped(g, K)
             /\ \A c \in Addr :
                  /\ Among(c, d) \in Nat
                  /\ Outer(g, c) = Outer(h, c) + Is(c, new) - Among(c, d)
                  /\ g[c].rc = h[c].rc + Is(c, new)
                  /\ g[c].data = (IF c = new THEN d ELSE h[c].data)
PROOF
  <1> DEFINE d == Append(h[a].data, x)
  <1>1. Len(d) <= MaxLen /\ d \in Contents(K, K[new])
    BY ShapedCell, ArcAssumption
  <1>2. NewCap(h, a) \in Nat
    BY ShapedCell, ArcAssumption DEF NewCap
  <1>3. PushedCopy(h, a, x, new) = Alloc(h, new, d, NewCap(h, a))
    BY DEF PushedCopy
  <1> HIDE DEF d
  <1>4. /\ Shaped(Alloc(h, new, d, NewCap(h, a)), K)
        /\ \A c \in Addr :
              /\ Among(c, d) \in Nat
              /\ Outer(Alloc(h, new, d, NewCap(h, a)), c) = Outer(h, c) + Is(c, new) - Among(c, d)
              /\ Alloc(h, new, d, NewCap(h, a))[c].rc = h[c].rc + Is(c, new)
              /\ Alloc(h, new, d, NewCap(h, a))[c].data = (IF c = new THEN d ELSE h[c].data)
    BY <1>1, <1>2, AllocOp
  <1> QED
    BY <1>3, <1>4 DEF d

-----------------------------------------------------------------------------
(* What refers to an address from outside the heap *)

Owning == {"local", "mutparam"}
Slot   == {Unbound} \cup [ptr : Addr, mode : {"local", "param", "mutparam"}, depth : 0..MaxDepth]
Held   == {NoHeld} \cup [ptr : Addr, kind : KindNames]
Frame  == [call : BOOLEAN, held : Held]
Value  == {NoTemp} \cup [ptr : Addr, kind : KindNames, owned : BOOLEAN, name : Vars \cup {Nil}]

OwnersOf(e, a) == {v \in Vars : e[v].ptr = a /\ e[v].mode \in Owning}
CallsOf(f, a)  == {d \in 1..Len(f) : f[d].held.ptr = a}
Owns(r, a)     == IF r.ptr = a /\ r.mode \in Owning THEN 1 ELSE 0
Keeps(t, a)    == IF t.ptr = a /\ t.owned THEN 1 ELSE 0

Holders(e, f, t, o, a) ==
  Cardinality(OwnersOf(e, a)) + Cardinality(CallsOf(f, a)) + Keeps(t, a) + Is(a, o.ptr)

LEMMA HoldersFinite ==
  ASSUME NEW e, NEW f \in Seq(Frame), NEW a
  PROVE  /\ IsFiniteSet(OwnersOf(e, a)) /\ Cardinality(OwnersOf(e, a)) \in Nat
         /\ IsFiniteSet(CallsOf(f, a)) /\ Cardinality(CallsOf(f, a)) \in Nat
PROOF
  <1>1. IsFiniteSet(Vars)
    <2>1. Vars = Rows \cup Grids \cup Structs
      BY DEF Vars, Nested
    <2> QED
      BY <2>1, ArcAssumption
  <1>2. IsFiniteSet(1..Len(f))
    BY FS_Interval
  <1>3. OwnersOf(e, a) \in SUBSET Vars /\ CallsOf(f, a) \in SUBSET (1..Len(f))
    BY DEF OwnersOf, CallsOf
  <1> QED
    BY <1>1, <1>2, <1>3, FS_Subset, FS_CardinalityType

\* At most v changes what it owns.
OthersKeep(e, g, v) ==
  \A w \in Vars \ {v} : \A a \in Addr : Owns(g[w], a) = Owns(e[w], a)

LEMMA OwnersRebound ==
  ASSUME NEW e, NEW g, NEW v \in Vars, NEW a \in Addr, OthersKeep(e, g, v)
  PROVE  Cardinality(OwnersOf(g, a)) =
           Cardinality(OwnersOf(e, a)) - Owns(e[v], a) + Owns(g[v], a)
PROOF
  <1>1. IsFiniteSet(OwnersOf(e, a)) /\ Cardinality(OwnersOf(e, a)) \in Nat
    BY HoldersFinite, << >> \in Seq(Frame)
  <1>2. \A w \in Vars \ {v} : w \in OwnersOf(e, a) <=> w \in OwnersOf(g, a)
    BY DEF OthersKeep, Owns, OwnersOf
  <1>3. OwnersOf(e, a) \ {v} = OwnersOf(g, a) \ {v}
    BY <1>2 DEF OwnersOf
  <1>4. (v \in OwnersOf(e, a) <=> Owns(e[v], a) = 1) /\ (v \in OwnersOf(g, a) <=> Owns(g[v], a) = 1)
        /\ Owns(e[v], a) \in {0, 1} /\ Owns(g[v], a) \in {0, 1}
    BY DEF OwnersOf, Owns
  <1>5. Cardinality(OwnersOf(g, a)) =
          Cardinality(OwnersOf(e, a)) - (IF v \in OwnersOf(e, a) THEN 1 ELSE 0)
                                      + (IF v \in OwnersOf(g, a) THEN 1 ELSE 0)
    BY <1>1, <1>3, OneChanged
  <1> QED
    BY <1>1, <1>4, <1>5

\* Nobody does.
LEMMA OwnersSame ==
  ASSUME NEW e, NEW g, NEW a, \A v \in Vars : Owns(g[v], a) = Owns(e[v], a)
  PROVE  OwnersOf(g, a) = OwnersOf(e, a)
PROOF
  BY DEF Owns, OwnersOf

LEMMA CallsPushed ==
  ASSUME NEW f \in Seq(Frame), NEW x \in Frame, NEW a
  PROVE  Cardinality(CallsOf(Append(f, x), a)) = Cardinality(CallsOf(f, a)) + Is(a, x.held.ptr)
PROOF
  <1> DEFINE g == Append(f, x)
             n == Len(f) + 1
  <1>1. Len(g) = n /\ g[n] = x /\ n \notin 1..Len(f) /\ n \in 1..n
        /\ \A d \in 1..Len(f) : d \in 1..n /\ g[d] = f[d]
    OBVIOUS
  <1>2. \A d \in 1..n : d = n \/ d \in 1..Len(f)
    OBVIOUS
  <1> HIDE DEF g, n
  <1>3. CallsOf(f, a) \ {n} = CallsOf(g, a) \ {n} /\ n \notin CallsOf(f, a)
    BY <1>1, <1>2 DEF CallsOf
  <1>4. n \in CallsOf(g, a) <=> a = x.held.ptr
    BY <1>1 DEF CallsOf
  <1>5. IsFiniteSet(CallsOf(f, a)) /\ Cardinality(CallsOf(f, a)) \in Nat
    BY HoldersFinite
  <1>6. Cardinality(CallsOf(g, a)) = Cardinality(CallsOf(f, a)) - (IF n \in CallsOf(f, a) THEN 1 ELSE 0)
                                        + (IF n \in CallsOf(g, a) THEN 1 ELSE 0)
    BY <1>3, <1>5, OneChanged
  <1> QED
    BY <1>3, <1>4, <1>5, <1>6 DEF Is, g

\* A frame and the blocks in it, which hold nothing, are left.
LEMMA CallsPopped ==
  ASSUME NEW f \in Seq(Frame), NEW n \in 1..Len(f), NEW a \in Addr,
         \A d \in 1..Len(f) : d > n => f[d].held = NoHeld
  PROVE  Cardinality(CallsOf(SubSeq(f, 1, n - 1), a)) = Cardinality(CallsOf(f, a)) - Is(a, f[n].held.ptr)
PROOF
  <1> DEFINE g == SubSeq(f, 1, n - 1)
  <1>1. Len(g) = n - 1 /\ \A d \in 1..(n - 1) : g[d] = f[d]
    OBVIOUS
  <1>2. \A d \in 1..Len(f) : f[d].held.ptr = a => d = n \/ d \in 1..(n - 1)
    BY ArcAssumption DEF NoHeld
  <1>3. n \notin 1..(n - 1) /\ \A d \in 1..(n - 1) : d \in 1..Len(f)
    OBVIOUS
  <1> HIDE DEF g
  <1>4. CallsOf(f, a) \ {n} = CallsOf(g, a) \ {n} /\ n \notin CallsOf(g, a)
    BY <1>1, <1>2, <1>3 DEF CallsOf
  <1>5. n \in CallsOf(f, a) <=> a = f[n].held.ptr
    BY DEF CallsOf
  <1>6. IsFiniteSet(CallsOf(f, a)) /\ Cardinality(CallsOf(f, a)) \in Nat
    BY HoldersFinite
  <1>7. Cardinality(CallsOf(g, a)) = Cardinality(CallsOf(f, a)) - (IF n \in CallsOf(f, a) THEN 1 ELSE 0)
                                        + (IF n \in CallsOf(g, a) THEN 1 ELSE 0)
    BY <1>4, <1>6, OneChanged
  <1> QED
    BY <1>4, <1>5, <1>6, <1>7 DEF Is, g

\* The innermost call is the greatest of the depths at which one was entered.
LEMMA Greatest ==
  ASSUME NEW n \in Nat, NEW S \in SUBSET (0..n), S # {}
  PROVE  \E m \in S : \A k \in S : k <= m
PROOF
  <1> DEFINE R == {ss \in Nat \X Nat : ss[1] < ss[2]}
             T == {n - k : k \in S}
  <1>1. IsWellFoundedOn(R, Nat)
    BY NatLessThanWellFounded DEF OpToRel
  <1>2. T \in SUBSET Nat /\ T # {}
    <2>1. \A k \in S : n - k \in Nat
      OBVIOUS
    <2> QED
      BY <2>1
  <1>3. \A x, y \in Nat : <<y, x>> \in R <=> y < x
    OBVIOUS
  <1> HIDE DEF R, T
  <1>4. PICK x \in T : \A y \in T : ~ (<<y, x>> \in R)
    BY <1>1, <1>2, WFMin
  <1>5. ASSUME NEW y \in T PROVE x <= y
    <2>1. x \in Nat /\ y \in Nat
      BY <1>2, <1>4
    <2>2. ~(y < x)
      BY <1>3, <1>4, <2>1
    <2> QED
      BY <2>1, <2>2
  <1>6. PICK m \in S : x = n - m
    BY <1>4 DEF T
  <1>7. \A k \in S : n - k \in T
    BY DEF T
  <1> QED
    BY <1>5, <1>6, <1>7

-----------------------------------------------------------------------------
(* The inductive invariant *)

Scoped ==
  /\ declared \in Programs /\ \A v \in Vars : Bound(v) => v \in declared
  /\ env \in [Vars -> Slot]
  /\ frames \in Seq(Frame) /\ Depth <= MaxDepth
  /\ temp \in Value /\ owed \in Held
  /\ leaving \subseteq {v \in Vars : env[v].mode \in Owning}
  /\ \A v \in Vars : Bound(v) /\ v \notin leaving => env[v].depth <= Depth

\* Everything that refers to an object agrees on its kind.
Agreed(K) ==
  /\ \A v \in Vars : Bound(v) => K[Ptr(v)] = Kind(v)
  /\ temp # NoTemp => K[temp.ptr] = temp.kind
  /\ owed # NoHeld => K[owed.ptr] = owed.kind
  /\ \A d \in 1..Depth : frames[d].held # NoHeld => K[frames[d].held.ptr] = frames[d].held.kind

\* What the heap does not explain of a count, the program does.
Counted == \A a \in Addr : Outer(heap, a) = Holders(env, frames, temp, owed, a)

\* The frame of a call holds what the parameter borrows.
Params ==
  \A v \in Vars : env[v].mode = "param" =>
    /\ v \notin leaving /\ env[v].depth \in 1..Depth
    /\ frames[env[v].depth].held.ptr = Ptr(v)

Blocks == \A d \in 1..Depth : ~frames[d].call => frames[d].held = NoHeld

\* A borrowed value is consumed before anything is released.
Pending ==
  /\ temp # NoTemp /\ ~temp.owned => Working /\ heap[temp.ptr].rc > 0
  /\ temp.owned => temp.name = Nil
  /\ temp.name # Nil => temp.name \in Vars /\ Visible(temp.name) /\ Ptr(temp.name) = temp.ptr

IInv(K) ==
  /\ Scoped /\ Shaped(heap, K) /\ Agreed(K) /\ Counted
  /\ Params /\ Blocks /\ Pending

LEMMA Typed ==
  /\ \A x \in Slot : \/ x = Unbound /\ x.mode = "none" /\ x.ptr = Nil /\ x.mode \notin Owning
                     \/ /\ x.ptr \in Addr /\ x.mode \in {"local", "param", "mutparam"}
                        /\ x.depth \in 0..MaxDepth
                        /\ x.mode \in Owning <=> x.mode # "param"
  /\ \A t \in Value : \/ t = NoTemp /\ t.ptr = Nil /\ ~t.owned /\ t.name = Nil
                      \/ /\ t # NoTemp /\ t.ptr \in Addr /\ t.kind \in KindNames
                         /\ t.owned \in BOOLEAN /\ t.name \in Vars \cup {Nil}
  /\ \A o \in Held : \/ o = NoHeld /\ o.ptr = Nil
                     \/ o # NoHeld /\ o.ptr \in Addr /\ o.kind \in KindNames
PROOF
  <1>1. \A x \in Slot : \/ x = Unbound /\ x.mode = "none" /\ x.ptr = Nil /\ x.mode \notin Owning
                        \/ /\ x.ptr \in Addr /\ x.mode \in {"local", "param", "mutparam"}
                           /\ x.depth \in 0..MaxDepth
                           /\ x.mode \in Owning <=> x.mode # "param"
    BY DEF Slot, Unbound, Owning
  <1>2. \A t \in Value : \/ t = NoTemp /\ t.ptr = Nil /\ ~t.owned /\ t.name = Nil
                         \/ /\ t # NoTemp /\ t.ptr \in Addr /\ t.kind \in KindNames
                            /\ t.owned \in BOOLEAN /\ t.name \in Vars \cup {Nil}
    BY ArcAssumption DEF Value, NoTemp
  <1>3. \A o \in Held : \/ o = NoHeld /\ o.ptr = Nil
                        \/ o # NoHeld /\ o.ptr \in Addr /\ o.kind \in KindNames
    BY ArcAssumption DEF Held, NoHeld
  <1> QED
    BY <1>1, <1>2, <1>3

\* Whoever refers to an object keeps it allocated, and parameters are kept by their call.
LEMMA Alive ==
  ASSUME NEW K \in Kinds, IInv(K)
  PROVE  /\ \A c \in Addr : Outer(heap, c) \in Nat /\ heap[c].rc \in Nat
         /\ \A v \in Vars : Bound(v) => Ptr(v) \in Addr /\ heap[Ptr(v)].rc > 0
         /\ temp # NoTemp => temp.ptr \in Addr /\ heap[temp.ptr].rc > 0
         /\ owed # NoHeld => owed.ptr \in Addr /\ heap[owed.ptr].rc > 0
         /\ \A d \in 1..Depth : frames[d].held # NoHeld =>
              frames[d].held.ptr \in Addr /\ heap[frames[d].held.ptr].rc > 0
         /\ \A b \in Addr : \A i \in DOMAIN heap[b].data :
              heap[b].data[i] \in Addr => heap[heap[b].data[i]].rc > 0
PROOF
  <1>1. Shaped(heap, K) /\ Scoped /\ Counted /\ Params /\ Pending
    BY DEF IInv
  <1>2. frames \in Seq(Frame) /\ env \in [Vars -> Slot] /\ temp \in Value /\ owed \in Held
    BY <1>1 DEF Scoped
  <1>3. \A c \in Addr : /\ Outer(heap, c) \in Int /\ heap[c].rc \in Nat
                        /\ heap[c].rc >= Outer(heap, c)
    BY <1>1, ShapedCell
  <1>4. \A c \in Addr : /\ Outer(heap, c) = Cardinality(OwnersOf(env, c)) + Cardinality(CallsOf(frames, c))
                                              + Keeps(temp, c) + Is(c, owed.ptr)
                        /\ Cardinality(OwnersOf(env, c)) \in Nat /\ Cardinality(CallsOf(frames, c)) \in Nat
                        /\ Keeps(temp, c) \in {0, 1} /\ Is(c, owed.ptr) \in {0, 1}
    BY <1>1, <1>2, HoldersFinite DEF Counted, Holders, Keeps, Is
  <1>5. \A c \in Addr : Outer(heap, c) \in Nat
    BY <1>4
  <1>6. ASSUME NEW c \in Addr, OwnersOf(env, c) # {} \/ CallsOf(frames, c) # {}
                               \/ Keeps(temp, c) = 1 \/ Is(c, owed.ptr) = 1
        PROVE  heap[c].rc > 0
    <2>1. OwnersOf(env, c) # {} => Cardinality(OwnersOf(env, c)) > 0
      BY <1>2, <1>4, HoldersFinite, FS_EmptySet
    <2>2. CallsOf(frames, c) # {} => Cardinality(CallsOf(frames, c)) > 0
      BY <1>2, <1>4, HoldersFinite, FS_EmptySet
    <2>3. Outer(heap, c) > 0
      BY <1>4, <1>6, <2>1, <2>2
    <2> QED
      BY <1>3, <2>3
  <1>7. ASSUME NEW d \in 1..Depth, frames[d].held # NoHeld
        PROVE  frames[d].held.ptr \in Addr /\ heap[frames[d].held.ptr].rc > 0
    <2>1. frames[d] \in Frame
      BY <1>2 DEF Depth
    <2>2. frames[d].held \in Held
      BY <2>1 DEF Frame
    <2>3. frames[d].held.ptr \in Addr
      BY <1>7, <2>2, Typed
    <2>4. d \in CallsOf(frames, frames[d].held.ptr)
      BY DEF CallsOf, Depth
    <2> QED
      BY <1>6, <2>3, <2>4
  <1>8. ASSUME NEW v \in Vars, Bound(v)
        PROVE  Ptr(v) \in Addr /\ heap[Ptr(v)].rc > 0
    <2>1. env[v] \in Slot
      BY <1>2
    <2>2. /\ Ptr(v) \in Addr /\ env[v].mode \in {"local", "param", "mutparam"}
          /\ env[v].mode \in Owning <=> env[v].mode # "param"
      BY <1>8, <2>1, Typed DEF Bound, Ptr
    <2>3. CASE env[v].mode \in Owning
      <3>1. v \in OwnersOf(env, Ptr(v))
        BY <2>3 DEF OwnersOf, Ptr
      <3> QED
        BY <1>6, <2>2, <3>1
    <2>4. CASE env[v].mode = "param"
      <3>1. env[v].depth \in CallsOf(frames, Ptr(v))
        BY <1>1, <2>4 DEF Params, CallsOf, Depth
      <3> QED
        BY <1>6, <2>2, <3>1
    <2> QED
      BY <2>2, <2>3, <2>4
  <1>9. ASSUME temp # NoTemp PROVE temp.ptr \in Addr /\ heap[temp.ptr].rc > 0
    <2>1. temp.ptr \in Addr /\ temp.owned \in BOOLEAN
      BY <1>2, <1>9, Typed
    <2>2. CASE temp.owned
      BY <1>6, <2>1, <2>2 DEF Keeps
    <2>3. CASE ~temp.owned
      BY <1>1, <1>9, <2>1, <2>3 DEF Pending
    <2> QED
      BY <2>1, <2>2, <2>3
  <1>10. ASSUME owed # NoHeld PROVE owed.ptr \in Addr /\ heap[owed.ptr].rc > 0
    BY <1>2, <1>6, <1>10, Typed DEF Is
  <1>11. ASSUME NEW b \in Addr, NEW i \in DOMAIN heap[b].data, heap[b].data[i] \in Addr
         PROVE  heap[heap[b].data[i]].rc > 0
    <2> DEFINE c == heap[b].data[i]
    <2>1. heap \in Heaps /\ heap[b].data \in Seq(Ints \cup Addr) /\ Len(heap[b].data) <= MaxLen
      BY <1>1, ShapedCell
    <2>2. <<b, i>> \in SlotsOf(heap, c)
      BY <2>1, ArcAssumption DEF SlotsOf
    <2>3. Cardinality(SlotsOf(heap, c)) \in Nat /\ Cardinality(SlotsOf(heap, c)) # 0
      BY <2>2, SlotsFinite, FS_EmptySet
    <2>4. Outer(heap, c) = heap[c].rc - Cardinality(SlotsOf(heap, c))
      BY DEF Outer
    <2> HIDE DEF c
    <2>5. c \in Addr
      BY <1>11 DEF c
    <2> QED
      BY <1>3, <1>5, <2>3, <2>4, <2>5 DEF c
  <1> QED
    BY <1>3, <1>5, <1>7, <1>8, <1>9, <1>10, <1>11

\* A free address can take any kind.
LEMMA FreshKind ==
  ASSUME NEW K \in Kinds, IInv(K), NEW a \in Addr, heap[a].rc = 0, NEW k \in KindNames
  PROVE  \E J \in Kinds : J[a] = k /\ IInv(J) /\ \A c \in Addr : c # a => J[c] = K[c]
PROOF
  <1> DEFINE J == [K EXCEPT ![a] = k]
  <1>1. J \in Kinds /\ J[a] = k /\ \A c \in Addr : c # a => J[c] = K[c]
    BY DEF Kinds
  <1> HIDE DEF J
  <1>2. Shaped(heap, K) /\ Agreed(K) /\ Scoped
    BY DEF IInv
  <1>3. Agreed(J)
    <2>1. ASSUME NEW c \in Addr, heap[c].rc > 0 PROVE J[c] = K[c]
      BY <1>1, <2>1
    <2>2. \A v \in Vars : Bound(v) => J[Ptr(v)] = K[Ptr(v)]
      BY <2>1, Alive
    <2>3. temp # NoTemp => J[temp.ptr] = K[temp.ptr]
      BY <2>1, Alive
    <2>4. owed # NoHeld => J[owed.ptr] = K[owed.ptr]
      BY <2>1, Alive
    <2>5. \A d \in 1..Depth : frames[d].held # NoHeld => J[frames[d].held.ptr] = K[frames[d].held.ptr]
      BY <2>1, Alive
    <2> QED
      BY <1>2, <2>2, <2>3, <2>4, <2>5 DEF Agreed
  <1>4. ASSUME NEW c \in Addr PROVE heap[c].data \in Contents(J, J[c])
    <2>1. CASE c = a
      <3>1. heap[c] = Free
        BY <1>2, <2>1, ShapedCell
      <3> QED
        BY <3>1 DEF Free, Contents
    <2>2. CASE c # a /\ K[c] = "row"
      BY <1>1, <1>2, <2>2, ShapedCell DEF Contents
    <2>3. CASE c # a /\ K[c] # "row"
      <3>1. heap[c].data \in Seq(RowsOf(K)) /\ J[c] # "row"
        BY <1>1, <1>2, <2>3, ShapedCell DEF Contents
      <3>2. \A i \in 1..Len(heap[c].data) : heap[c].data[i] \in RowsOf(J)
        <4>1. ASSUME NEW i \in 1..Len(heap[c].data) PROVE heap[c].data[i] \in RowsOf(J)
          <5>1. heap[c].data[i] \in RowsOf(K) /\ i \in DOMAIN heap[c].data
            BY <3>1
          <5>2. heap[c].data[i] \in Addr /\ K[heap[c].data[i]] = "row"
            BY <5>1 DEF RowsOf
          <5>3. heap[heap[c].data[i]].rc > 0
            BY <5>1, <5>2, Alive
          <5> QED
            BY <1>1, <5>2, <5>3 DEF RowsOf
        <4> QED
          BY <4>1
      <3>3. heap[c].data \in Seq(RowsOf(J))
        BY <3>1, <3>2
      <3> QED
        BY <3>1, <3>3 DEF Contents
    <2> QED
      BY <2>1, <2>2, <2>3
  <1>5. Shaped(heap, J)
    BY <1>2, <1>4 DEF Shaped
  <1> QED
    BY <1>1, <1>3, <1>5 DEF IInv

-----------------------------------------------------------------------------
(* The shapes of a step.  Each says how Outer has to change for the places   *)
(* that own references to explain it.                                        *)

\* The pending value is consumed, and nothing else outside the heap changes.
LEMMA Consumed ==
  ASSUME NEW K \in Kinds, IInv(K), Shaped(heap', K), Working, temp' = NoTemp,
         UNCHANGED <<declared, env, frames, leaving, owed>>,
         \A c \in Addr : Outer(heap', c) = Outer(heap, c) - Keeps(temp, c)
  PROVE  IInv(K)'
PROOF
  <1>1. Scoped' /\ Agreed(K)' /\ Params' /\ Blocks'
    BY DEF IInv, Scoped, Agreed, Params, Blocks, Bound, Ptr, Depth, Value
  <1>2. Pending'
    BY DEF Pending, NoTemp
  <1>3. frames \in Seq(Frame)
    BY DEF IInv, Scoped
  <1>4. ASSUME NEW c \in Addr PROVE Outer(heap', c) = Holders(env', frames', temp', owed', c)
    <2>1. Outer(heap, c) = Holders(env, frames, temp, owed, c)
      BY DEF IInv, Counted
    <2>2. Keeps(temp', c) = 0 /\ Keeps(temp, c) \in Int /\ Is(c, owed.ptr) \in Int
      BY DEF NoTemp, Keeps, Is
    <2>3. Cardinality(OwnersOf(env, c)) \in Nat /\ Cardinality(CallsOf(frames, c)) \in Nat
      BY <1>3, HoldersFinite
    <2> QED
      BY <2>1, <2>2, <2>3 DEF Holders
  <1>5. Counted'
    BY <1>4 DEF Counted
  <1> QED
    BY <1>1, <1>2, <1>5 DEF IInv

\* The pending value is replaced by another.
LEMMA Evaluated ==
  ASSUME NEW K \in Kinds, IInv(K), Shaped(heap', K), Working,
         NEW a \in Addr, NEW o \in BOOLEAN, NEW n \in Vars \cup {Nil},
         temp' = [ptr |-> a, kind |-> K[a], owned |-> o, name |-> n],
         o => n = Nil,
         ~o => heap'[a].rc > 0,
         n # Nil => Visible(n) /\ Ptr(n) = a,
         UNCHANGED <<declared, env, frames, leaving, owed>>,
         \A c \in Addr : Outer(heap', c) = Outer(heap, c) - Keeps(temp, c) + Keeps(temp', c)
  PROVE  IInv(K)'
PROOF
  <1>1. K[a] \in KindNames
    BY DEF Kinds
  <1>2. temp' \in Value
    BY <1>1 DEF Value
  <1>3. Scoped' /\ Params' /\ Blocks'
    BY <1>2 DEF IInv, Scoped, Params, Blocks, Bound, Ptr, Depth
  <1>4. Agreed(K)'
    BY DEF IInv, Agreed, Bound, Ptr, Depth
  <1>5. Pending'
    <2>1. temp'.ptr = a /\ temp'.owned = o /\ temp'.name = n
      OBVIOUS
    <2>2. Working'
      BY DEF Working
    <2>3. Visible(n) => Visible(n)'
      BY DEF Visible, Bound, Base, CallDepths, Depth
    <2> QED
      BY <2>1, <2>2, <2>3 DEF Pending, Ptr
  <1>6. frames \in Seq(Frame)
    BY DEF IInv, Scoped
  <1>7. ASSUME NEW c \in Addr PROVE Outer(heap', c) = Holders(env', frames', temp', owed', c)
    <2>1. Outer(heap, c) = Holders(env, frames, temp, owed, c)
      BY DEF IInv, Counted
    <2>2. Keeps(temp', c) \in Int /\ Keeps(temp, c) \in Int /\ Is(c, owed.ptr) \in Int
      BY DEF Keeps, Is
    <2>3. Cardinality(OwnersOf(env, c)) \in Nat /\ Cardinality(CallsOf(frames, c)) \in Nat
      BY <1>6, HoldersFinite
    <2> QED
      BY <2>1, <2>2, <2>3 DEF Holders
  <1>8. Counted'
    BY <1>7 DEF Counted
  <1> QED
    BY <1>3, <1>4, <1>5, <1>8 DEF IInv

\* The pending value is consumed and v is bound to x, which owns a reference.
LEMMA Rebound ==
  ASSUME NEW K \in Kinds, IInv(K), Shaped(heap', K), Working, temp' = NoTemp,
         NEW v \in Vars, v \in declared, env[v].mode # "param",
         NEW x \in Slot, x.mode \in Owning, x.depth <= Depth, K[x.ptr] = Kind(v),
         env' = [env EXCEPT ![v] = x],
         UNCHANGED <<declared, frames, leaving, owed>>,
         \A c \in Addr : Outer(heap', c) =
                           Outer(heap, c) - Keeps(temp, c) - Owns(env[v], c) + Is(c, x.ptr)
  PROVE  IInv(K)'
PROOF
  <1>1. Scoped /\ Agreed(K) /\ Counted /\ Params /\ Blocks
    BY DEF IInv
  <1>2. env \in [Vars -> Slot] /\ frames \in Seq(Frame) /\ leaving = {}
    BY <1>1 DEF Scoped, Working
  <1>3. env' \in [Vars -> Slot] /\ env'[v] = x /\ \A w \in Vars : w # v => env'[w] = env[w]
    BY <1>2
  <1>4. Scoped'
    <2>1. temp' \in Value
      BY DEF Value
    <2>2. \A w \in Vars : Bound(w)' => w \in declared'
      BY <1>1, <1>3 DEF Scoped, Bound
    <2>3. \A w \in Vars : Bound(w)' /\ w \notin leaving' => env'[w].depth <= Depth'
      BY <1>1, <1>2, <1>3 DEF Scoped, Bound, Depth
    <2>4. leaving' \subseteq {w \in Vars : env'[w].mode \in Owning}
      BY <1>2
    <2> QED
      BY <1>1, <1>3, <2>1, <2>2, <2>3, <2>4 DEF Scoped, Depth
  <1>5. Agreed(K)'
    BY <1>1, <1>3 DEF Agreed, Bound, Ptr, Depth
  <1>6. Params' /\ Blocks'
    BY <1>1, <1>3 DEF Params, Blocks, Ptr, Depth, Owning
  <1>7. Pending'
    BY DEF Pending, NoTemp
  <1>8. ASSUME NEW c \in Addr PROVE Outer(heap', c) = Holders(env', frames', temp', owed', c)
    <2>1. Outer(heap, c) = Holders(env, frames, temp, owed, c)
      BY <1>1 DEF Counted
    <2>2. Keeps(temp', c) = 0 /\ Keeps(temp, c) \in Int /\ Is(c, owed.ptr) \in Int
          /\ Owns(env[v], c) \in Int /\ Owns(env'[v], c) = Is(c, x.ptr) /\ Is(c, x.ptr) \in Int
      BY <1>3 DEF NoTemp, Keeps, Is, Owns
    <2>3. Cardinality(OwnersOf(env, c)) \in Nat /\ Cardinality(CallsOf(frames, c)) \in Nat
      BY <1>2, HoldersFinite
    <2>4. OthersKeep(env, env', v)
      BY <1>3 DEF OthersKeep
    <2>5. Cardinality(OwnersOf(env', c)) =
            Cardinality(OwnersOf(env, c)) - Owns(env[v], c) + Owns(env'[v], c)
      <3> DEFINE g == env'
                 e == env
      <3>1. OthersKeep(e, g, v)
        BY <2>4
      <3> HIDE DEF g, e
      <3>2. Cardinality(OwnersOf(g, c)) = Cardinality(OwnersOf(e, c)) - Owns(e[v], c) + Owns(g[v], c)
        BY <3>1, OwnersRebound
      <3> QED
        BY <3>2 DEF g, e
    <2> QED
      BY <2>1, <2>2, <2>3, <2>5 DEF Holders
  <1>9. Counted'
    BY <1>8 DEF Counted
  <1> QED
    BY <1>4, <1>5, <1>6, <1>7, <1>9 DEF IInv

\* The pending value is consumed, and a variable that owns its object is moved to another.
LEMMA Repointed ==
  ASSUME NEW K \in Kinds, IInv(K), Shaped(heap', K), Working, temp' = NoTemp,
         NEW v \in Vars, Mutable(v), NEW a \in Addr, K[a] = Kind(v), Repoint(v, a),
         UNCHANGED <<declared, frames, leaving, owed>>,
         \A c \in Addr : Outer(heap', c) =
                           Outer(heap, c) - Keeps(temp, c) - Is(c, Ptr(v)) + Is(c, a)
  PROVE  IInv(K)'
PROOF
  <1> DEFINE x == [env[v] EXCEPT !.ptr = a]
  <1>1. Scoped /\ env[v] \in Slot /\ env[v].mode # "none" /\ env[v].mode # "param" /\ v \notin leaving
    BY DEF IInv, Scoped, Mutable, Visible, Bound
  <1>2. v \in declared /\ env[v].depth <= Depth
    BY <1>1 DEF Scoped, Bound
  <1>3. env[v] \in [ptr : Addr, mode : {"local", "param", "mutparam"}, depth : 0..MaxDepth]
    BY <1>1 DEF Slot, Unbound
  <1>4. x \in Slot /\ x.ptr = a /\ x.mode = env[v].mode /\ x.depth = env[v].depth
    BY <1>3 DEF Slot
  <1>5. x.mode \in Owning
    BY <1>1, <1>3, <1>4 DEF Owning
  <1>6. env' = [env EXCEPT ![v] = x]
    BY DEF Repoint
  <1> HIDE DEF x
  <1>7. \A c \in Addr : Owns(env[v], c) = Is(c, Ptr(v))
    BY <1>4, <1>5 DEF Owns, Is, Ptr
  <1>8. \A c \in Addr : Outer(heap', c) =
                          Outer(heap, c) - Keeps(temp, c) - Owns(env[v], c) + Is(c, x.ptr)
    BY <1>4, <1>7
  <1> QED
    BY <1>1, <1>2, <1>4, <1>5, <1>6, <1>8, Rebound

\* What retaining the pending value does; consuming it then takes over one reference.
LEMMA TakenOver ==
  ASSUME NEW K \in Kinds, IInv(K), temp # NoTemp, NEW h, Shaped(h, K)
  PROVE  /\ Shaped(RetainTemp(h), K)
         /\ \A c \in Addr : /\ Outer(RetainTemp(h), c) = Outer(h, c) - Keeps(temp, c) + Is(c, temp.ptr)
                            /\ RetainTemp(h)[c].rc \in Nat /\ RetainTemp(h)[c].rc >= h[c].rc
                            /\ RetainTemp(h)[c].rc = h[c].rc - Keeps(temp, c) + Is(c, temp.ptr)
                            /\ RetainTemp(h)[c].data = h[c].data
                            /\ RetainTemp(h)[c].cap = h[c].cap
PROOF
  <1>1. temp.ptr \in Addr /\ temp.owned \in BOOLEAN
    BY Typed DEF IInv, Scoped
  <1>2. \A c \in Addr : Outer(h, c) \in Int /\ h[c].rc \in Nat
    BY ShapedCell
  <1>3. CASE temp.owned
    <2>1. RetainTemp(h) = h
      BY <1>3 DEF RetainTemp
    <2>2. \A c \in Addr : Keeps(temp, c) = Is(c, temp.ptr) /\ Is(c, temp.ptr) \in {0, 1}
      BY <1>3 DEF Keeps, Is
    <2> QED
      BY <1>2, <2>1, <2>2
  <1>4. CASE ~temp.owned
    <2>1. RetainTemp(h) = Retain(h, temp.ptr)
      BY <1>4 DEF RetainTemp
    <2>2. \A c \in Addr : Keeps(temp, c) = 0 /\ Is(c, temp.ptr) \in {0, 1}
      BY <1>4 DEF Keeps, Is
    <2>3. /\ Shaped(Retain(h, temp.ptr), K)
          /\ \A c \in Addr : /\ Outer(Retain(h, temp.ptr), c) = Outer(h, c) + Is(c, temp.ptr)
                             /\ Retain(h, temp.ptr)[c].rc = h[c].rc + Is(c, temp.ptr)
                             /\ Retain(h, temp.ptr)[c].data = h[c].data
                             /\ Retain(h, temp.ptr)[c].cap = h[c].cap
      BY <1>1, RetainOp
    <2> DEFINE g == RetainTemp(h)
    <2>4. /\ Shaped(g, K)
          /\ \A c \in Addr : /\ Outer(g, c) = Outer(h, c) + Is(c, temp.ptr)
                             /\ g[c].rc = h[c].rc + Is(c, temp.ptr)
                             /\ g[c].data = h[c].data /\ g[c].cap = h[c].cap
      BY <2>1, <2>3
    <2> HIDE DEF g
    <2>5. ASSUME NEW c \in Addr
          PROVE  /\ Outer(g, c) = Outer(h, c) - Keeps(temp, c) + Is(c, temp.ptr)
                 /\ g[c].rc \in Nat /\ g[c].rc >= h[c].rc
                 /\ g[c].rc = h[c].rc - Keeps(temp, c) + Is(c, temp.ptr)
                 /\ g[c].data = h[c].data
                 /\ g[c].cap = h[c].cap
      <3>1. Keeps(temp, c) = 0 /\ Is(c, temp.ptr) \in Nat /\ Outer(h, c) \in Int /\ h[c].rc \in Nat
        BY <1>2, <2>2
      <3>2. /\ Outer(g, c) = Outer(h, c) + Is(c, temp.ptr)
            /\ g[c].rc = h[c].rc + Is(c, temp.ptr)
            /\ g[c].data = h[c].data /\ g[c].cap = h[c].cap
        BY <2>4
      <3> QED
        BY <3>1, <3>2
    <2> QED
      BY <2>4, <2>5 DEF g
  <1> QED
    BY <1>1, <1>3, <1>4

-----------------------------------------------------------------------------
(* Expressions *)

LEMMA KindOf ==
  \A v \in Vars : /\ Kind(v) \in KindNames
                  /\ v \in Rows <=> Kind(v) = "row"
                  /\ v \in Grids <=> Kind(v) = "grid"
                  /\ v \in Structs <=> Kind(v) = "struct"
                  /\ v \in Nested <=> Kind(v) # "row"
PROOF
  BY ArcAssumption DEF Kind, KindNames, Vars, Nested

\* The slots of a container are live rows.
LEMMA Contained ==
  ASSUME NEW K \in Kinds, IInv(K), NEW v \in Nested, Bound(v)
  PROVE  /\ v \in Vars /\ Ptr(v) \in Addr /\ K[Ptr(v)] = Kind(v) /\ Kind(v) # "row"
         /\ heap[Ptr(v)].data \in Seq(RowsOf(K))
         /\ \A i \in DOMAIN heap[Ptr(v)].data :
              LET r == heap[Ptr(v)].data[i]
              IN  r \in Addr /\ K[r] = "row" /\ r \in RowsOf(K) /\ r # Ptr(v) /\ heap[r].rc > 0
PROOF
  <1>1. v \in Vars /\ Kind(v) # "row"
    BY KindOf DEF Vars
  <1>2. Ptr(v) \in Addr /\ K[Ptr(v)] = Kind(v)
    BY <1>1, Alive DEF IInv, Agreed
  <1>3. heap[Ptr(v)].data \in Seq(RowsOf(K))
    BY <1>1, <1>2, ShapedCell DEF IInv, Contents
  <1>4. ASSUME NEW i \in DOMAIN heap[Ptr(v)].data
        PROVE  LET r == heap[Ptr(v)].data[i]
               IN  r \in Addr /\ K[r] = "row" /\ r \in RowsOf(K) /\ r # Ptr(v) /\ heap[r].rc > 0
    <2>1. heap[Ptr(v)].data[i] \in RowsOf(K)
      BY <1>3
    <2>2. heap[Ptr(v)].data[i] \in Addr /\ K[heap[Ptr(v)].data[i]] = "row"
      BY <2>1 DEF RowsOf
    <2>3. heap[heap[Ptr(v)].data[i]].rc > 0
      BY <1>2, <2>2, Alive
    <2> QED
      BY <1>1, <1>2, <2>1, <2>2, <2>3
  <1> QED
    BY <1>1, <1>2, <1>3, <1>4

LEMMA RowLitStep ==
  ASSUME NEW K \in Kinds, IInv(K), RowLit
  PROVE  \E J \in Kinds : IInv(J)'
PROOF
  <1>1. PICK a \in FreeCells(heap), s \in {<< >>} \cup {<<n>> : n \in Ints} :
          heap' = Alloc(heap, a, s, Len(s)) /\ Owned(a, "row")
    BY DEF RowLit
  <1>2. /\ Working /\ temp = NoTemp /\ a \in Addr /\ heap[a].rc = 0
        /\ UNCHANGED <<declared, env, frames, leaving, owed>>
    BY <1>1 DEF RowLit, AtStmt, FreeCells
  <1>3. PICK J \in Kinds : J[a] = "row" /\ IInv(J)
    BY <1>2, FreshKind DEF KindNames
  <1>4. Shaped(heap, J)
    BY <1>3 DEF IInv
  <1>5. s \in Seq(Ints) /\ Len(s) \in Nat /\ Len(s) <= MaxLen /\ s \in Contents(J, J[a])
    <2>1. MaxLen \in Nat /\ MaxLen >= 1
      BY ArcAssumption
    <2>2. s \in Seq(Ints) /\ Len(s) \in Nat /\ Len(s) <= 1
      <3>1. CASE s = << >>
        BY <3>1
      <3>2. CASE \E n \in Ints : s = <<n>>
        <4>1. PICK n \in Ints : s = <<n>>
          BY <3>2
        <4>2. <<n>> \in Seq(Ints) /\ Len(<<n>>) = 1
          OBVIOUS
        <4> QED
          BY <4>1, <4>2
      <3> QED
        BY <1>1, <3>1, <3>2
    <2>3. Contents(J, J[a]) = Seq(Ints)
      BY <1>3 DEF Contents
    <2> QED
      BY <2>1, <2>2, <2>3
  <1> DEFINE h == Alloc(heap, a, s, Len(s))
  <1>6. heap' = h
    BY <1>1
  <1> HIDE DEF h
  <1>7. /\ Shaped(h, J)
        /\ \A c \in Addr : Outer(h, c) = Outer(heap, c) + Is(c, a) - Among(c, s)
    BY <1>2, <1>4, <1>5, AllocOp DEF h
  <1>8. temp' = [ptr |-> a, kind |-> J[a], owned |-> TRUE, name |-> Nil]
    BY <1>1, <1>3 DEF Owned
  <1>9. ASSUME NEW c \in Addr
        PROVE  Outer(heap', c) = Outer(heap, c) - Keeps(temp, c) + Keeps(temp', c)
    <2>1. Among(c, s) = 0
      BY <1>5, AmongFew, ArcAssumption
    <2>2. Keeps(temp, c) = 0 /\ Keeps(temp', c) = Is(c, a) /\ Is(c, a) \in Int
      BY <1>2, <1>8 DEF Keeps, NoTemp, Is
    <2>3. Outer(heap, c) \in Int
      BY <1>4, ShapedCell
    <2> QED
      BY <1>6, <1>7, <2>1, <2>2, <2>3
  <1>10. Shaped(heap', J)
    BY <1>6, <1>7
  <1> QED
    BY <1>2, <1>3, <1>8, <1>9, <1>10, Evaluated

LEMMA GridLitStep ==
  ASSUME NEW K \in Kinds, IInv(K), GridLit
  PROVE  \E J \in Kinds : IInv(J)'
PROOF
  <1>1. PICK a \in FreeCells(heap) :
          /\ heap' = RetainTemp(Alloc(heap, a, <<temp.ptr>>, 1))
          /\ Owned(a, "grid")
    BY DEF GridLit, RetainTemp
  <1>2. /\ Working /\ temp # NoTemp /\ temp.kind = "row" /\ a \in Addr /\ heap[a].rc = 0
        /\ UNCHANGED <<declared, env, frames, leaving, owed>>
    BY <1>1 DEF GridLit, HasTemp, FreeCells
  <1>3. PICK J \in Kinds : J[a] = "grid" /\ IInv(J)
    BY <1>2, FreshKind DEF KindNames
  <1>4. Shaped(heap, J) /\ temp.ptr \in Addr /\ J[temp.ptr] = "row"
    BY <1>2, <1>3, Alive DEF IInv, Agreed
  <1> DEFINE d == <<temp.ptr>>
             h == Alloc(heap, a, d, 1)
             g == RetainTemp(h)
  <1>5. d \in Contents(J, J[a]) /\ Len(d) <= MaxLen /\ \A c \in Addr : Among(c, d) = Is(c, temp.ptr)
    BY <1>3, <1>4, AmongFew, ArcAssumption DEF Contents, RowsOf
  <1>6. heap' = g
    BY <1>1
  <1>7. /\ Shaped(h, J)
        /\ \A c \in Addr : Outer(h, c) = Outer(heap, c) + Is(c, a) - Among(c, d)
    <2> HIDE DEF d
    <2> QED
      BY <1>2, <1>4, <1>5, AllocOp
  <1> HIDE DEF d, h
  <1>8. /\ Shaped(g, J)
        /\ \A c \in Addr : Outer(g, c) = Outer(h, c) - Keeps(temp, c) + Is(c, temp.ptr)
    BY <1>2, <1>3, <1>7, TakenOver
  <1> HIDE DEF g
  <1>9. temp' = [ptr |-> a, kind |-> J[a], owned |-> TRUE, name |-> Nil]
    BY <1>1, <1>3 DEF Owned
  <1>10. ASSUME NEW c \in Addr
         PROVE  Outer(heap', c) = Outer(heap, c) - Keeps(temp, c) + Keeps(temp', c)
    <2>1. /\ Outer(h, c) = Outer(heap, c) + Is(c, a) - Is(c, temp.ptr)
          /\ Outer(g, c) = Outer(h, c) - Keeps(temp, c) + Is(c, temp.ptr)
      BY <1>5, <1>7, <1>8
    <2>2. Keeps(temp', c) = Is(c, a) /\ Is(c, a) \in Int /\ Is(c, temp.ptr) \in Int
          /\ Keeps(temp, c) \in Int
      BY <1>9 DEF Keeps, Is
    <2>3. Outer(heap, c) \in Int
      BY <1>4, ShapedCell
    <2> QED
      BY <1>6, <2>1, <2>2, <2>3
  <1>11. Shaped(heap', J)
    BY <1>6, <1>8
  <1> QED
    BY <1>2, <1>3, <1>9, <1>10, <1>11, Evaluated

LEMMA StructLitStep ==
  ASSUME NEW K \in Kinds, IInv(K), StructLit
  PROVE  \E J \in Kinds : IInv(J)'
PROOF
  <1>1. PICK a \in FreeCells(heap), rs \in [1..NFields -> {r \in Rows : Visible(r)}] :
          /\ heap' = RetainSlots(Alloc(heap, a, [f \in 1..NFields |-> Ptr(rs[f])], 0),
                                 [f \in 1..NFields |-> Ptr(rs[f])], 1..NFields)
          /\ Owned(a, "struct")
    BY DEF StructLit
  <1>2. /\ Working /\ temp = NoTemp /\ a \in Addr /\ heap[a].rc = 0
        /\ UNCHANGED <<declared, env, frames, leaving, owed>>
    BY <1>1 DEF StructLit, AtStmt, FreeCells
  <1>3. PICK J \in Kinds : J[a] = "struct" /\ IInv(J)
    BY <1>2, FreshKind DEF KindNames
  <1>4. Shaped(heap, J)
    BY <1>3 DEF IInv
  <1> DEFINE d == [f \in 1..NFields |-> Ptr(rs[f])]
             h == Alloc(heap, a, d, 0)
             g == RetainSlots(h, d, 1..NFields)
  <1>5. \A f \in 1..NFields : Ptr(rs[f]) \in RowsOf(J)
    <2>1. ASSUME NEW f \in 1..NFields PROVE Ptr(rs[f]) \in RowsOf(J)
      <3>1. rs[f] \in Rows /\ rs[f] \in Vars /\ Bound(rs[f])
        BY <1>1 DEF Visible, Vars
      <3>2. Ptr(rs[f]) \in Addr /\ J[Ptr(rs[f])] = Kind(rs[f]) /\ Kind(rs[f]) = "row"
        BY <1>3, <3>1, Alive, KindOf DEF IInv, Agreed
      <3> QED
        BY <3>2 DEF RowsOf
    <2> QED
      BY <2>1
  <1>6. d \in Seq(RowsOf(J)) /\ Len(d) = NFields /\ DOMAIN d = 1..NFields /\ Len(d) <= MaxLen
    <2>1. NFields \in Nat /\ NFields <= MaxLen
      BY ArcAssumption
    <2>2. d \in Seq(RowsOf(J)) /\ Len(d) = NFields /\ DOMAIN d = 1..NFields
      BY <1>5, <2>1
    <2> QED
      BY <2>1, <2>2
  <1>7. heap' = g
    BY <1>1
  <1> HIDE DEF d
  <1>8. d \in Contents(J, J[a])
    BY <1>3, <1>6 DEF Contents
  <1>9. /\ Shaped(h, J)
        /\ \A c \in Addr : /\ Among(c, d) \in Nat
                           /\ Outer(h, c) = Outer(heap, c) + Is(c, a) - Among(c, d)
    BY <1>2, <1>4, <1>6, <1>8, AllocOp
  <1> HIDE DEF h
  <1>10. /\ Shaped(g, J)
         /\ \A c \in Addr : Outer(g, c) = Outer(h, c) + Times(c, d, 1..NFields)
    BY <1>6, <1>9, RetainSlotsOp
  <1> HIDE DEF g
  <1>11. temp' = [ptr |-> a, kind |-> J[a], owned |-> TRUE, name |-> Nil]
    BY <1>1, <1>3 DEF Owned
  <1>12. ASSUME NEW c \in Addr
         PROVE  Outer(heap', c) = Outer(heap, c) - Keeps(temp, c) + Keeps(temp', c)
    <2>1. Times(c, d, 1..NFields) = Among(c, d) /\ Among(c, d) \in Nat
      BY <1>6, <1>9 DEF Among
    <2>2. Keeps(temp, c) = 0 /\ Keeps(temp', c) = Is(c, a) /\ Is(c, a) \in Int
      BY <1>2, <1>11 DEF Keeps, NoTemp, Is
    <2>3. Outer(heap, c) \in Int
      BY <1>4, ShapedCell
    <2>4. /\ Outer(h, c) = Outer(heap, c) + Is(c, a) - Among(c, d)
          /\ Outer(g, c) = Outer(h, c) + Among(c, d)
      BY <1>9, <1>10, <2>1
    <2> QED
      BY <1>7, <2>1, <2>2, <2>3, <2>4
  <1>13. Shaped(heap', J)
    BY <1>7, <1>10
  <1> QED
    BY <1>2, <1>3, <1>11, <1>12, <1>13, Evaluated

\* An expression that reads storage borrows what it finds there.
LEMMA Read ==
  ASSUME NEW K \in Kinds, IInv(K), AtStmt, NEW a \in Addr, NEW n \in Vars \cup {Nil},
         Borrowed(a, K[a], n), heap[a].rc > 0, n # Nil => Visible(n) /\ Ptr(n) = a,
         UNCHANGED <<declared, heap, env, frames, leaving, owed>>
  PROVE  IInv(K)'
PROOF
  <1>1. Working /\ temp = NoTemp
    BY DEF AtStmt
  <1>2. temp' = [ptr |-> a, kind |-> K[a], owned |-> FALSE, name |-> n]
    BY DEF Borrowed
  <1>3. Shaped(heap', K) /\ heap'[a].rc > 0 /\ Shaped(heap, K)
    BY DEF IInv
  <1>4. ASSUME NEW c \in Addr
        PROVE  Outer(heap', c) = Outer(heap, c) - Keeps(temp, c) + Keeps(temp', c)
    <2>1. Keeps(temp, c) = 0 /\ Keeps(temp', c) = 0
      BY <1>1, <1>2 DEF Keeps, NoTemp
    <2>2. Outer(heap, c) \in Int
      BY <1>3, ShapedCell
    <2> QED
      BY <2>1, <2>2
  <1> QED
    BY <1>1, <1>2, <1>3, <1>4, Evaluated

LEMMA IdentStep ==
  ASSUME NEW K \in Kinds, IInv(K), NEW v \in Vars, Ident(v)
  PROVE  IInv(K)'
PROOF
  <1>1. Bound(v) /\ Visible(v) /\ v # Nil
    BY ArcAssumption DEF Ident, Visible, Vars, Nested
  <1>2. Ptr(v) \in Addr /\ heap[Ptr(v)].rc > 0 /\ K[Ptr(v)] = Kind(v)
    BY <1>1, Alive DEF IInv, Agreed
  <1> QED
    BY <1>1, <1>2, Read DEF Ident

LEMMA PlaceStep ==
  ASSUME NEW K \in Kinds, IInv(K), NEW g \in Nested, NEW i, Place(g, i)
  PROVE  IInv(K)'
PROOF
  <1> DEFINE r == heap[Ptr(g)].data[i]
  <1>1. Bound(g) /\ i \in DOMAIN heap[Ptr(g)].data /\ AtStmt
    BY DEF Place, Visible
  <1>2. r \in Addr /\ K[r] = "row" /\ heap[r].rc > 0
    BY <1>1, Contained
  <1>3. Borrowed(r, K[r], Nil) /\ UNCHANGED <<declared, heap, env, frames, leaving, owed>>
    BY <1>2 DEF Place
  <1> HIDE DEF r
  <1> QED
    BY <1>1, <1>2, <1>3, Read

-----------------------------------------------------------------------------
(* Stores into containers *)

\* x replaces the element or field i of a container written in place: the old one is released.
LEMMA StoreOp ==
  ASSUME NEW K \in Kinds, NEW h, Shaped(h, K), NEW p \in Addr, K[p] # "row", h[p].rc > 0,
         NEW i \in DOMAIN h[p].data, h[h[p].data[i]].rc > 0,
         NEW x \in RowsOf(K), NEW g,
         \/ g = ReleaseRow(Write(h, p, Put(h[p].data, i, x)), h[p].data[i])
         \/ g = Write(ReleaseRow(h, h[p].data[i]), p, Put(ReleaseRow(h, h[p].data[i])[p].data, i, x))
  PROVE  /\ Shaped(g, K)
         /\ \A c \in Addr : Outer(g, c) = Outer(h, c) - Is(c, x)
PROOF
  <1> DEFINE old == h[p].data
             r == old[i]
             d == Put(old, i, x)
  <1>1. old \in Seq(RowsOf(K)) /\ Len(old) <= MaxLen /\ Contents(K, K[p]) = Seq(RowsOf(K))
    BY ShapedCell DEF Contents
  <1>2. r \in Addr /\ K[r] = "row" /\ r # p
    BY <1>1 DEF RowsOf
  <1>3. d \in Seq(RowsOf(K)) /\ Len(d) = Len(old)
        /\ \A c \in Addr : Among(c, d) = Among(c, old) - Is(c, r) + Is(c, x)
    <2>1. old \in Seq(RowsOf(K)) /\ i \in DOMAIN old
      BY <1>1
    <2>2. PICK s, e : s = old /\ e = d
      OBVIOUS
    <2>3. s \in Seq(RowsOf(K)) /\ i \in DOMAIN s /\ e = Put(s, i, x)
      BY <2>1, <2>2
    <2>4. \A c : /\ Among(c, e) = Among(c, s) - Is(c, s[i]) + Is(c, x)
                 /\ Times(c, e, DOMAIN s \ {i}) = Among(c, s) - Is(c, s[i])
      BY <2>3, AmongStored
    <2>5. e \in Seq(RowsOf(K)) /\ Len(e) = Len(s)
      BY <2>3 DEF Put
    <2> QED
      BY <2>2, <2>4, <2>5
  <1>4. d \in Contents(K, K[p]) /\ Len(d) <= MaxLen
    BY <1>1, <1>3
  <1>5. \A c \in Addr : Is(c, r) \in Int /\ Is(c, x) \in Int /\ Outer(h, c) \in Int
    BY ShapedCell DEF Is
  <1>6. CASE g = ReleaseRow(Write(h, p, d), r)
    <2> DEFINE f == Write(h, p, d)
    <2> HIDE DEF d, old, r
    <2>1. /\ Shaped(f, K)
          /\ \A c \in Addr : /\ Among(c, d) \in Nat /\ Among(c, h[p].data) \in Nat
                             /\ Outer(f, c) = Outer(h, c) + Among(c, h[p].data) - Among(c, d)
                             /\ f[c].rc = h[c].rc
      BY <1>4, WriteOp
    <2>2. f[r].rc > 0
      BY <1>2, <2>1 DEF r, old
    <2> HIDE DEF f
    <2>3. /\ Shaped(ReleaseRow(f, r), K)
          /\ \A c \in Addr : Outer(ReleaseRow(f, r), c) = Outer(f, c) - Is(c, r)
      BY <1>2, <2>1, <2>2, ReleaseRowOp
    <2>4. g = ReleaseRow(f, r)
      BY <1>6 DEF f
    <2>5. ASSUME NEW c \in Addr PROVE Outer(g, c) = Outer(h, c) - Is(c, x)
      <3>1. Among(c, d) = Among(c, h[p].data) - Is(c, r) + Is(c, x) /\ Among(c, h[p].data) \in Nat
        BY <1>3, <2>1 DEF old
      <3>2. Outer(f, c) = Outer(h, c) + Among(c, h[p].data) - Among(c, d)
        BY <2>1
      <3>3. Outer(g, c) = Outer(f, c) - Is(c, r)
        BY <2>3, <2>4
      <3> QED
        BY <1>5, <3>1, <3>2, <3>3
    <2> QED
      BY <2>3, <2>4, <2>5
  <1>7. CASE g = Write(ReleaseRow(h, r), p, Put(ReleaseRow(h, r)[p].data, i, x))
    <2> DEFINE f == ReleaseRow(h, r)
    <2> HIDE DEF d
    <2>1. /\ Shaped(f, K)
          /\ \A c \in Addr : /\ Outer(f, c) = Outer(h, c) - Is(c, r)
                             /\ f[c].rc = h[c].rc - Is(c, r)
                             /\ c # r => f[c].data = h[c].data
      BY <1>2, ReleaseRowOp
    <2> HIDE DEF f
    <2>2. f[p].data = old /\ f[p].rc > 0 /\ f \in [Addr -> Cells]
      BY <1>2, <2>1, ShapedCell DEF Is
    <2>3. g = Write(f, p, d)
      BY <1>7, <2>2 DEF d, f
    <2>4. /\ Shaped(Write(f, p, d), K)
          /\ \A c \in Addr : /\ Among(c, d) \in Nat /\ Among(c, f[p].data) \in Nat
                             /\ Outer(Write(f, p, d), c) = Outer(f, c) + Among(c, f[p].data) - Among(c, d)
      BY <1>4, <2>1, <2>2, WriteOp
    <2> HIDE DEF old, r
    <2>5. ASSUME NEW c \in Addr PROVE Outer(g, c) = Outer(h, c) - Is(c, x)
      <3>1. Among(c, d) = Among(c, old) - Is(c, r) + Is(c, x) /\ Among(c, old) \in Nat
        BY <1>3, <2>2, <2>4
      <3>2. Outer(g, c) = Outer(f, c) + Among(c, old) - Among(c, d)
        BY <2>2, <2>3, <2>4
      <3>3. Outer(f, c) = Outer(h, c) - Is(c, r)
        BY <2>1
      <3> QED
        BY <1>5, <3>1, <3>2, <3>3
    <2> QED
      BY <2>3, <2>4, <2>5
  <1> QED
    BY <1>6, <1>7

\* A shared container is copied with x at i; the copy retains its other rows.
CowStored(h, p, i, x, new) ==
  LET d == Put(h[p].data, i, x)
  IN  RetainSlots(CowCopy(h, p, d, new), d, DOMAIN d \ {i})

LEMMA CowStoreOp ==
  ASSUME NEW K \in Kinds, NEW h, Shaped(h, K), NEW p \in Addr, K[p] # "row", h[p].rc > 1,
         NEW new \in Addr, h[new].rc = 0, K[new] # "row",
         NEW i \in DOMAIN h[p].data, NEW x \in RowsOf(K)
  PROVE  /\ Shaped(CowStored(h, p, i, x, new), K)
         /\ \A c \in Addr : Outer(CowStored(h, p, i, x, new), c) = Outer(h, c) + Is(c, new) - Is(c, p) - Is(c, x)
PROOF
  <1>1. PICK old : old = h[p].data
    OBVIOUS
  <1>2. PICK e, g : e = Put(h[p].data, i, x) /\ g = CowStored(h, p, i, x, new)
    OBVIOUS
  <1> DEFINE f == CowCopy(h, p, e, new)
             I == DOMAIN e \ {i}
  <1>3. old \in Seq(RowsOf(K)) /\ Len(old) <= MaxLen /\ Contents(K, K[new]) = Seq(RowsOf(K))
        /\ i \in DOMAIN old /\ e = Put(old, i, x)
    BY <1>1, <1>2, ShapedCell DEF Contents
  <1>4. e \in Seq(RowsOf(K)) /\ Len(e) = Len(old) /\ DOMAIN e = DOMAIN old
    BY <1>3 DEF Put
  <1>5. \A c \in Addr : /\ Among(c, e) = Among(c, old) - Is(c, old[i]) + Is(c, x)
                         /\ Times(c, e, I) = Among(c, old) - Is(c, old[i])
    <2>1. old \in Seq(RowsOf(K)) /\ i \in DOMAIN old /\ e = Put(old, i, x)
      BY <1>3
    <2>2. \A c : /\ Among(c, e) = Among(c, old) - Is(c, old[i]) + Is(c, x)
                 /\ Times(c, e, DOMAIN old \ {i}) = Among(c, old) - Is(c, old[i])
      BY <2>1, AmongStored
    <2> QED
      BY <1>4, <2>2
  <1>6. e \in Contents(K, K[new]) /\ Len(e) <= MaxLen
    BY <1>3, <1>4
  <1>7. /\ Shaped(f, K)
        /\ \A c \in Addr : /\ Among(c, e) \in Nat
                           /\ Outer(f, c) = Outer(h, c) + Is(c, new) - Among(c, e) - Is(c, p)
    BY <1>6, CowOp
  <1> HIDE DEF f
  <1>8. I \in SUBSET (DOMAIN e)
    OBVIOUS
  <1> HIDE DEF I
  <1>9. /\ Shaped(RetainSlots(f, e, I), K)
        /\ \A c \in Addr : /\ Times(c, e, I) \in Nat
                           /\ Outer(RetainSlots(f, e, I), c) = Outer(f, c) + Times(c, e, I)
    BY <1>4, <1>7, <1>8, RetainSlotsOp
  <1>10. g = RetainSlots(f, e, I)
    BY <1>2 DEF f, I, CowStored
  <1>11. ASSUME NEW c \in Addr
         PROVE  Outer(g, c) = Outer(h, c) + Is(c, new) - Is(c, p) - Is(c, x)
    <2>1. Among(c, e) = Times(c, e, I) + Is(c, x) /\ Times(c, e, I) \in Nat
      BY <1>5, <1>9
    <2>2. Outer(f, c) = Outer(h, c) + Is(c, new) - Among(c, e) - Is(c, p)
          /\ Outer(g, c) = Outer(f, c) + Times(c, e, I)
      BY <1>7, <1>9, <1>10
    <2>3. Outer(h, c) \in Int /\ Is(c, new) \in Int /\ Is(c, p) \in Int /\ Is(c, x) \in Int
      BY ShapedCell DEF Is
    <2> QED
      BY <2>1, <2>2, <2>3
  <1> QED
    BY <1>2, <1>9, <1>10, <1>11

\* A shared container is copied as it is, and the copy retains every row.
LEMMA CowKeepOp ==
  ASSUME NEW K \in Kinds, NEW h, Shaped(h, K), NEW p \in Addr, K[p] # "row", h[p].rc > 1,
         NEW new \in Addr, h[new].rc = 0, K[new] # "row",
         NEW d, d = h[p].data,
         NEW g, g = RetainSlots(CowCopy(h, p, d, new), d, DOMAIN d)
  PROVE  /\ Shaped(g, K)
         /\ g[new].data = d /\ g[new].rc > 0
         /\ \A c \in Addr : /\ Outer(g, c) = Outer(h, c) + Is(c, new) - Is(c, p)
                            /\ h[c].rc > 0 => g[c].rc > 0
PROOF
  <1> DEFINE f == CowCopy(h, p, d, new)
  <1>1. d \in Seq(RowsOf(K)) /\ Len(d) <= MaxLen /\ d \in Contents(K, K[new])
    BY ShapedCell DEF Contents
  <1>2. /\ Shaped(f, K)
        /\ \A c \in Addr : /\ Among(c, d) \in Nat
                           /\ Outer(f, c) = Outer(h, c) + Is(c, new) - Among(c, d) - Is(c, p)
                           /\ f[c].rc = h[c].rc + Is(c, new) - Is(c, p)
                           /\ f[c].data = (IF c = new THEN d ELSE h[c].data)
    BY <1>1, CowOp
  <1> HIDE DEF f
  <1>3. /\ Shaped(RetainSlots(f, d, DOMAIN d), K)
        /\ \A c \in Addr : /\ Outer(RetainSlots(f, d, DOMAIN d), c) = Outer(f, c) + Among(c, d)
                           /\ RetainSlots(f, d, DOMAIN d)[c].rc = f[c].rc + Among(c, d)
                           /\ RetainSlots(f, d, DOMAIN d)[c].data = f[c].data
    BY <1>1, <1>2, RetainSlotsOp DEF Among
  <1>4. g = RetainSlots(f, d, DOMAIN d)
    BY DEF f
  <1>5. ASSUME NEW c \in Addr
        PROVE  /\ Outer(g, c) = Outer(h, c) + Is(c, new) - Is(c, p)
               /\ h[c].rc > 0 => g[c].rc > 0
               /\ c = new => g[c].rc > 0
    <2>1. /\ Among(c, d) \in Nat
          /\ Outer(f, c) = Outer(h, c) + Is(c, new) - Among(c, d) - Is(c, p)
          /\ f[c].rc = h[c].rc + Is(c, new) - Is(c, p)
          /\ Outer(g, c) = Outer(f, c) + Among(c, d)
          /\ g[c].rc = f[c].rc + Among(c, d)
      BY <1>2, <1>3, <1>4
    <2>2. Outer(h, c) \in Int /\ h[c].rc \in Nat /\ Is(c, new) \in Int /\ Is(c, p) \in Int
      BY ShapedCell DEF Is
    <2>3. Outer(g, c) = Outer(h, c) + Is(c, new) - Is(c, p)
      BY <2>1, <2>2
    <2>4. CASE c = p
      <3>1. Is(c, p) = 1 /\ Is(c, new) = 0 /\ h[c].rc > 1
        BY <2>4 DEF Is
      <3> QED
        BY <2>1, <2>2, <2>3, <2>4, <3>1
    <2>5. CASE c # p
      <3>1. Is(c, p) = 0 /\ (c = new => Is(c, new) = 1) /\ (c # new => Is(c, new) = 0)
        BY <2>5 DEF Is
      <3> QED
        BY <2>1, <2>2, <2>3, <3>1
    <2> QED
      BY <2>4, <2>5
  <1>6. g[new].data = d
    BY <1>2, <1>3, <1>4
  <1> QED
    BY <1>3, <1>4, <1>5, <1>6

-----------------------------------------------------------------------------
(* Statements that consume a value *)

\* Retaining the pending value when it is borrowed keeps what is free free.
LEMMA TempRetained ==
  ASSUME NEW K \in Kinds, IInv(K), temp # NoTemp, NEW h, h = RetainTemp(heap)
  PROVE  /\ temp.ptr \in Addr /\ K[temp.ptr] = temp.kind /\ Shaped(h, K) /\ Shaped(heap, K)
         /\ \A c \in Addr :
              /\ Outer(heap, c) \in Nat /\ Keeps(temp, c) \in {0, 1}
              /\ Outer(h, c) = Outer(heap, c) - Keeps(temp, c) + Is(c, temp.ptr)
              /\ Outer(heap, c) >= Keeps(temp, c)
              /\ h[c].data = heap[c].data /\ h[c].cap = heap[c].cap
              /\ heap[c].rc = 0 => h[c].rc = 0
              /\ heap[c].rc > 0 => h[c].rc > 0
              /\ heap[c].rc > 1 => h[c].rc > 1
PROOF
  <1>1. /\ temp.ptr \in Addr /\ heap[temp.ptr].rc > 0 /\ K[temp.ptr] = temp.kind
        /\ Shaped(heap, K) /\ frames \in Seq(Frame) /\ Counted
    BY Alive DEF IInv, Agreed, Scoped
  <1>2. /\ Shaped(h, K)
        /\ \A c \in Addr : /\ Outer(h, c) = Outer(heap, c) - Keeps(temp, c) + Is(c, temp.ptr)
                           /\ h[c].rc \in Nat /\ h[c].rc >= heap[c].rc
                           /\ h[c].rc = heap[c].rc - Keeps(temp, c) + Is(c, temp.ptr)
                           /\ h[c].data = heap[c].data /\ h[c].cap = heap[c].cap
    BY <1>1, TakenOver
  <1>3. ASSUME NEW c \in Addr
        PROVE  /\ Outer(heap, c) \in Nat /\ Keeps(temp, c) \in {0, 1}
               /\ Outer(heap, c) >= Keeps(temp, c)
    <2>1. Outer(heap, c) = Cardinality(OwnersOf(env, c)) + Cardinality(CallsOf(frames, c))
                           + Keeps(temp, c) + Is(c, owed.ptr)
      BY <1>1 DEF Counted, Holders
    <2>2. Cardinality(OwnersOf(env, c)) \in Nat /\ Cardinality(CallsOf(frames, c)) \in Nat
      BY <1>1, HoldersFinite
    <2>3. Keeps(temp, c) \in {0, 1} /\ Is(c, owed.ptr) \in {0, 1}
      BY DEF Keeps, Is
    <2> QED
      BY <2>1, <2>2, <2>3
  <1>4. ASSUME NEW c \in Addr
        PROVE  /\ heap[c].rc = 0 => h[c].rc = 0
               /\ heap[c].rc > 0 => h[c].rc > 0
               /\ heap[c].rc > 1 => h[c].rc > 1
    <2>1. heap[c].rc \in Nat /\ h[c].rc \in Nat /\ h[c].rc >= heap[c].rc
      BY <1>1, <1>2, ShapedCell
    <2>2. ASSUME heap[c].rc = 0 PROVE h[c].rc = 0
      <3>1. Is(c, temp.ptr) = 0 /\ Keeps(temp, c) = 0
        BY <1>1, <2>2 DEF Is, Keeps
      <3> QED
        BY <1>2, <2>2, <3>1
    <2> QED
      BY <2>1, <2>2
  <1> QED
    BY <1>1, <1>2, <1>3, <1>4

LEMMA LetStep ==
  ASSUME NEW K \in Kinds, IInv(K), NEW v \in Vars, Let(v)
  PROVE  IInv(K)'
PROOF
  <1>1. /\ Working /\ temp # NoTemp /\ temp.kind = Kind(v)
        /\ v \in declared /\ env[v].mode = "none" /\ temp' = NoTemp
        /\ heap' = RetainTemp(heap)
        /\ UNCHANGED <<declared, frames, leaving, owed>>
    BY DEF Let, HasTemp, CanBind, Bound
  <1> DEFINE x == [ptr |-> temp.ptr, mode |-> "local", depth |-> Depth]
  <1>2. PICK h : h = RetainTemp(heap)
    OBVIOUS
  <1>3. /\ temp.ptr \in Addr /\ K[temp.ptr] = temp.kind /\ Shaped(h, K)
        /\ \A c \in Addr : /\ Outer(h, c) = Outer(heap, c) - Keeps(temp, c) + Is(c, temp.ptr)
                           /\ Outer(heap, c) \in Nat /\ Keeps(temp, c) \in {0, 1}
    BY <1>1, <1>2, TempRetained
  <1>4. Depth \in 0..MaxDepth
    BY ArcAssumption DEF IInv, Scoped, Depth
  <1>5. x \in Slot /\ x.ptr = temp.ptr /\ x.mode \in Owning /\ x.depth <= Depth
    BY <1>3, <1>4 DEF Slot, Owning
  <1>6. env' = [env EXCEPT ![v] = x]
    BY DEF Let
  <1> HIDE DEF x
  <1>7. \A c \in Addr : Outer(heap', c) =
                          Outer(heap, c) - Keeps(temp, c) - Owns(env[v], c) + Is(c, x.ptr)
    <2> SUFFICES ASSUME NEW c \in Addr
                 PROVE  Outer(heap', c) =
                          Outer(heap, c) - Keeps(temp, c) - Owns(env[v], c) + Is(c, x.ptr)
      OBVIOUS
    <2>1. Owns(env[v], c) = 0 /\ Is(c, x.ptr) = Is(c, temp.ptr) /\ Is(c, temp.ptr) \in Int
      BY <1>1, <1>5 DEF Owns, Owning, Is
    <2> QED
      BY <1>1, <1>2, <1>3, <2>1
  <1>8. Shaped(heap', K) /\ env[v].mode # "param" /\ K[x.ptr] = Kind(v)
    BY <1>1, <1>2, <1>3, <1>5
  <1> QED
    BY <1>1, <1>5, <1>6, <1>7, <1>8, Rebound

LEMMA AssignStep ==
  ASSUME Forms = {}, NEW K \in Kinds, IInv(K), NEW v \in Vars, Assign(v)
  PROVE  IInv(K)'
PROOF
  <1>1. /\ Working /\ temp # NoTemp /\ temp.kind = Kind(v) /\ Mutable(v)
        /\ ~temp.owned \/ temp.ptr # Ptr(v)
        /\ heap' = (IF Ptr(v) = temp.ptr THEN heap ELSE Release(RetainTemp(heap), Kind(v), Ptr(v)))
        /\ Repoint(v, temp.ptr) /\ temp' = NoTemp
        /\ UNCHANGED <<declared, frames, leaving, owed>>
    BY DEF Assign, HasTemp, Uses
  <1>2. PICK h : h = RetainTemp(heap)
    OBVIOUS
  <1>3. /\ temp.ptr \in Addr /\ K[temp.ptr] = temp.kind /\ Shaped(h, K) /\ Shaped(heap, K)
        /\ \A c \in Addr : /\ Outer(h, c) = Outer(heap, c) - Keeps(temp, c) + Is(c, temp.ptr)
                           /\ Outer(heap, c) \in Nat /\ Keeps(temp, c) \in {0, 1}
                           /\ Outer(heap, c) >= Keeps(temp, c)
                           /\ heap[c].rc > 0 => h[c].rc > 0
    BY <1>1, <1>2, TempRetained
  <1>4. Ptr(v) \in Addr /\ heap[Ptr(v)].rc > 0 /\ K[Ptr(v)] = Kind(v)
    BY <1>1, Alive DEF Mutable, Visible, IInv, Agreed
  <1>5. /\ Shaped(heap', K)
        /\ \A c \in Addr : Outer(heap', c) =
                             Outer(heap, c) - Keeps(temp, c) - Is(c, Ptr(v)) + Is(c, temp.ptr)
    <2>1. CASE Ptr(v) = temp.ptr
      <3>1. heap' = heap /\ \A c \in Addr : Keeps(temp, c) = 0
        BY <1>1, <2>1 DEF Keeps
      <3>2. \A c \in Addr : Is(c, Ptr(v)) = Is(c, temp.ptr) /\ Is(c, temp.ptr) \in Int
        BY <2>1 DEF Is
      <3> QED
        BY <1>3, <3>1, <3>2
    <2>2. CASE Ptr(v) # temp.ptr
      <3>1. PICK p : p = Ptr(v)
        OBVIOUS
      <3>2. heap' = Release(h, K[p], p)
        BY <1>1, <1>2, <1>4, <2>2, <3>1
      <3>3. \A c \in Addr : Outer(h, c) >= 0
        BY <1>3 DEF Is
      <3>4. p \in Addr /\ h[p].rc > 0
        BY <1>3, <1>4, <3>1
      <3>5. /\ Shaped(Release(h, K[p], p), K)
            /\ \A c \in Addr : Outer(Release(h, K[p], p), c) = Outer(h, c) - Is(c, p)
        BY <1>3, <3>3, <3>4, ReleaseOp
      <3>6. ASSUME NEW c \in Addr
            PROVE  Outer(heap', c) =
                     Outer(heap, c) - Keeps(temp, c) - Is(c, Ptr(v)) + Is(c, temp.ptr)
        <4>1. Is(c, p) \in Int /\ Is(c, temp.ptr) \in Int
          BY DEF Is
        <4> QED
          BY <1>3, <3>1, <3>2, <3>5, <4>1
      <3> QED
        BY <3>2, <3>5, <3>6
    <2> QED
      BY <2>1, <2>2
  <1> QED
    BY <1>1, <1>3, <1>5, Repointed

LEMMA ExprStmtStep ==
  ASSUME NEW K \in Kinds, IInv(K), ExprStmt
  PROVE  IInv(K)'
PROOF
  <1>1. /\ Working /\ temp # NoTemp /\ temp' = NoTemp
        /\ heap' = IF temp.owned THEN Release(heap, temp.kind, temp.ptr) ELSE heap
        /\ UNCHANGED <<declared, env, frames, leaving, owed>>
    BY DEF ExprStmt
  <1>2. temp.ptr \in Addr /\ heap[temp.ptr].rc > 0 /\ K[temp.ptr] = temp.kind /\ Shaped(heap, K)
        /\ \A c \in Addr : Outer(heap, c) \in Nat
    BY <1>1, Alive DEF IInv, Agreed
  <1>3. /\ Shaped(heap', K)
        /\ \A c \in Addr : Outer(heap', c) = Outer(heap, c) - Keeps(temp, c)
    <2>1. CASE temp.owned
      <3>1. PICK p : p = temp.ptr
        OBVIOUS
      <3>2. heap' = Release(heap, K[p], p) /\ p \in Addr /\ heap[p].rc > 0
        BY <1>1, <1>2, <2>1, <3>1
      <3>3. \A c \in Addr : Outer(heap, c) >= 0
        BY <1>2
      <3>4. /\ Shaped(Release(heap, K[p], p), K)
            /\ \A c \in Addr : Outer(Release(heap, K[p], p), c) = Outer(heap, c) - Is(c, p)
        BY <1>2, <3>2, <3>3, ReleaseOp
      <3>5. \A c \in Addr : Is(c, p) = Keeps(temp, c)
        BY <2>1, <3>1 DEF Is, Keeps
      <3> QED
        BY <3>2, <3>4, <3>5
    <2>2. CASE ~temp.owned
      <3>1. heap' = heap /\ \A c \in Addr : Keeps(temp, c) = 0
        BY <1>1, <2>2 DEF Keeps
      <3> QED
        BY <1>2, <3>1
    <2> QED
      BY <2>1, <2>2
  <1> QED
    BY <1>1, <1>3, Consumed

LEMMA IndexAssignStep ==
  ASSUME NEW K \in Kinds, IInv(K), NEW g \in Grids, NEW i, IndexAssign(g, i)
  PROVE  \E J \in Kinds : IInv(J)'
PROOF
  <1>1. PICK p, old : p = Ptr(g) /\ old = heap[Ptr(g)].data
    OBVIOUS
  <1>2. /\ Working /\ temp # NoTemp /\ temp.kind = "row" /\ Mutable(g) /\ i \in DOMAIN old
        /\ temp' = NoTemp /\ UNCHANGED <<declared, frames, leaving, owed>>
    BY <1>1 DEF IndexAssign, HasTemp
  <1>3. PICK h : h = RetainTemp(heap)
    OBVIOUS
  <1>4. PICK d : d = [old EXCEPT ![i] = temp.ptr]
    OBVIOUS
  <1>5. \/ /\ heap[p].rc > 1
           /\ \E a \in FreeCells(heap) :
                /\ heap' = RetainSlots(CowCopy(h, p, d, a), d, DOMAIN d \ {i})
                /\ Repoint(g, a)
        \/ /\ heap' = ReleaseRow(Write(h, p, d), old[i])
           /\ UNCHANGED env
    BY <1>1, <1>3, <1>4 DEF IndexAssign, Shared, Write
  <1>6. g \in Nested /\ Bound(g) /\ Kind(g) = "grid" /\ g \in Vars
    BY <1>2, KindOf DEF Mutable, Visible, Nested, Vars
  <1>7. CASE heap' = ReleaseRow(Write(h, p, d), old[i]) /\ UNCHANGED env
    <2>1. /\ p \in Addr /\ K[p] # "row" /\ old[i] \in Addr /\ heap[old[i]].rc > 0 /\ heap[p].rc > 0
      BY <1>1, <1>2, <1>6, Contained, Alive
    <2>2. /\ temp.ptr \in Addr /\ K[temp.ptr] = "row" /\ Shaped(h, K)
          /\ h[p].data = old /\ h[p].rc > 0 /\ h[old[i]].rc > 0
          /\ \A c \in Addr : /\ Outer(h, c) = Outer(heap, c) - Keeps(temp, c) + Is(c, temp.ptr)
                             /\ Outer(heap, c) \in Nat /\ Keeps(temp, c) \in {0, 1}
      BY <1>1, <1>2, <1>3, <2>1, TempRetained
    <2>3. PICK x : x = temp.ptr
      OBVIOUS
    <2>4. x \in RowsOf(K) /\ d = Put(h[p].data, i, x) /\ i \in DOMAIN h[p].data
          /\ h[h[p].data[i]].rc > 0
      BY <1>2, <1>4, <2>2, <2>3 DEF RowsOf, Put
    <2>5. heap' = ReleaseRow(Write(h, p, Put(h[p].data, i, x)), h[p].data[i])
      BY <1>7, <2>2, <2>4
    <2>6. PICK f : f = ReleaseRow(Write(h, p, Put(h[p].data, i, x)), h[p].data[i])
      OBVIOUS
    <2>7. Shaped(f, K) /\ \A c \in Addr : Outer(f, c) = Outer(h, c) - Is(c, x)
      BY <2>1, <2>2, <2>4, <2>6, StoreOp
    <2>8. heap' = f
      BY <2>5, <2>6
    <2>9. ASSUME NEW c \in Addr PROVE Outer(heap', c) = Outer(heap, c) - Keeps(temp, c)
      <3>1. Is(c, x) \in Int /\ Is(c, temp.ptr) = Is(c, x)
        BY <2>3 DEF Is
      <3> QED
        BY <2>2, <2>7, <2>8, <3>1
    <2>10. Shaped(heap', K)
      BY <2>7, <2>8
    <2>11. IInv(K)'
      BY <1>2, <1>7, <2>9, <2>10, Consumed
    <2> QED
      BY <2>11
  <1>8. CASE /\ heap[p].rc > 1
             /\ \E a \in FreeCells(heap) :
                  /\ heap' = RetainSlots(CowCopy(h, p, d, a), d, DOMAIN d \ {i})
                  /\ Repoint(g, a)
    <2>1. PICK a \in FreeCells(heap) :
            /\ heap' = RetainSlots(CowCopy(h, p, d, a), d, DOMAIN d \ {i})
            /\ Repoint(g, a)
      BY <1>8
    <2>2. a \in Addr /\ heap[a].rc = 0
      BY DEF FreeCells
    <2>3. PICK J \in Kinds : J[a] = "grid" /\ IInv(J)
      BY <2>2, FreshKind DEF KindNames
    <2>4. /\ p \in Addr /\ J[p] = "grid" /\ i \in DOMAIN old
      BY <1>1, <1>2, <1>6, <2>3, Contained
    <2>5. /\ temp.ptr \in Addr /\ J[temp.ptr] = "row" /\ Shaped(h, J)
          /\ h[p].data = old /\ h[p].rc > 1 /\ h[a].rc = 0
          /\ \A c \in Addr : /\ Outer(h, c) = Outer(heap, c) - Keeps(temp, c) + Is(c, temp.ptr)
                             /\ Outer(heap, c) \in Nat /\ Keeps(temp, c) \in {0, 1}
      BY <1>1, <1>2, <1>3, <1>8, <2>2, <2>3, <2>4, TempRetained
    <2>6. PICK x, f : x = temp.ptr /\ f = CowStored(h, p, i, x, a)
      OBVIOUS
    <2>7. x \in RowsOf(J) /\ d = Put(h[p].data, i, x) /\ i \in DOMAIN h[p].data
      BY <1>4, <2>4, <2>5, <2>6 DEF RowsOf, Put
    <2>8. /\ Shaped(f, J)
          /\ \A c \in Addr : Outer(f, c) = Outer(h, c) + Is(c, a) - Is(c, p) - Is(c, x)
      <3>1. J \in Kinds /\ J[p] # "row" /\ J[a] # "row" /\ Shaped(h, J) /\ h[p].rc > 1 /\ h[a].rc = 0
        BY <2>3, <2>4, <2>5
      <3>2. p \in Addr /\ a \in Addr /\ i \in DOMAIN h[p].data /\ x \in RowsOf(J)
        BY <2>2, <2>4, <2>7
      <3> QED
        BY <2>6, <3>1, <3>2, CowStoreOp
    <2>9. heap' = f
      BY <2>1, <2>6, <2>7 DEF CowStored
    <2>10. ASSUME NEW c \in Addr
           PROVE  Outer(heap', c) = Outer(heap, c) - Keeps(temp, c) - Is(c, Ptr(g)) + Is(c, a)
      <3>1. Is(c, x) \in Int /\ Is(c, temp.ptr) = Is(c, x) /\ Is(c, a) \in Int /\ Is(c, p) \in Int
        BY <2>6 DEF Is
      <3> QED
        BY <1>1, <2>5, <2>8, <2>9, <3>1
    <2>11. Shaped(heap', J)
      BY <2>8, <2>9
    <2>12. IInv(J)'
      BY <1>2, <1>6, <2>1, <2>2, <2>3, <2>10, <2>11, Repointed
    <2> QED
      BY <2>12
  <1> QED
    BY <1>5, <1>7, <1>8

LEMMA FieldAssignStep ==
  ASSUME NEW K \in Kinds, IInv(K), NEW s \in Structs, NEW i, FieldAssign(s, i)
  PROVE  \E J \in Kinds : IInv(J)'
PROOF
  <1>1. PICK p, old : p = Ptr(s) /\ old = heap[Ptr(s)].data
    OBVIOUS
  <1>2. /\ Working /\ temp # NoTemp /\ temp.kind = "row" /\ Mutable(s) /\ i \in DOMAIN old
        /\ temp' = NoTemp /\ UNCHANGED <<declared, frames, leaving, owed>>
    BY <1>1 DEF FieldAssign, HasTemp
  <1> DEFINE Stored(h, a) == [ReleaseRow(RetainTemp(h), old[i]) EXCEPT ![a].data[i] = temp.ptr]
  <1>3. \/ /\ heap[p].rc > 1
           /\ \E a \in FreeCells(heap) :
                /\ heap' = Stored(RetainSlots(CowCopy(heap, p, old, a), old, DOMAIN old), a)
                /\ Repoint(s, a)
        \/ /\ heap' = Stored(heap, p)
           /\ UNCHANGED env
    BY <1>1 DEF FieldAssign, Shared
  <1>4. s \in Nested /\ Bound(s) /\ Kind(s) = "struct" /\ s \in Vars
    BY <1>2, KindOf DEF Mutable, Visible, Nested, Vars
  \* What the store does, for any owner of the fields.
  <1>5. ASSUME NEW J \in Kinds, IInv(J), NEW f, Shaped(f, J), NEW a \in Addr, J[a] # "row",
               f[a].rc > 0, f[a].data = old, f[old[i]].rc > 0
        PROVE  /\ Shaped(Stored(f, a), J)
               /\ \A c \in Addr : Outer(Stored(f, a), c) = Outer(f, c) - Keeps(temp, c)
    <2>1. PICK h, x : h = RetainTemp(f) /\ x = temp.ptr
      OBVIOUS
    <2>2. x \in RowsOf(J)
      BY <1>2, <1>5, <2>1, Alive DEF RowsOf, IInv, Agreed
    <2>3. /\ Shaped(h, J) /\ h \in [Addr -> Cells]
          /\ \A c \in Addr : /\ Outer(h, c) = Outer(f, c) - Keeps(temp, c) + Is(c, temp.ptr)
                             /\ h[c].rc \in Nat /\ h[c].rc >= f[c].rc
                             /\ h[c].data = f[c].data
      BY <1>2, <1>5, <2>1, TakenOver, ShapedCell
    <2>4. old[i] \in Addr
      <3>1. old \in Seq(RowsOf(J))
        BY <1>5, ShapedCell DEF Contents
      <3> QED
        BY <1>2, <3>1 DEF RowsOf
    <2>5. /\ h[a].rc > 0 /\ h[a].data = old /\ i \in DOMAIN h[a].data
          /\ h[h[a].data[i]].rc > 0
      <3>1. f[a].rc \in Nat /\ f[old[i]].rc \in Nat
        BY <1>5, <2>4, ShapedCell
      <3> QED
        BY <1>2, <1>5, <2>3, <2>4, <3>1
    <2>6. PICK g : g = Write(ReleaseRow(h, h[a].data[i]), a,
                             Put(ReleaseRow(h, h[a].data[i])[a].data, i, x))
      OBVIOUS
    <2>7. Shaped(g, J) /\ \A c \in Addr : Outer(g, c) = Outer(h, c) - Is(c, x)
      <3>1. \/ g = ReleaseRow(Write(h, a, Put(h[a].data, i, x)), h[a].data[i])
            \/ g = Write(ReleaseRow(h, h[a].data[i]), a,
                         Put(ReleaseRow(h, h[a].data[i])[a].data, i, x))
        BY <2>6
      <3>2. Shaped(h, J) /\ J[a] # "row"
        BY <1>5, <2>3
      <3> QED
        BY <2>2, <2>5, <3>1, <3>2, StoreOp
    <2>8. Stored(f, a) = g
      BY <2>1, <2>5, <2>6 DEF Write, Put
    <2> HIDE DEF Stored
    <2>9. ASSUME NEW c \in Addr PROVE Outer(Stored(f, a), c) = Outer(f, c) - Keeps(temp, c)
      <3>1. Is(c, x) \in Int /\ Is(c, temp.ptr) = Is(c, x) /\ Keeps(temp, c) \in Int
        BY <2>1 DEF Is, Keeps
      <3>2. Outer(f, c) \in Int
        BY <1>5, ShapedCell
      <3> QED
        BY <2>3, <2>7, <2>8, <3>1, <3>2
    <2> QED
      BY <2>7, <2>8, <2>9
  <1> HIDE DEF Stored
  <1>6. CASE heap' = Stored(heap, p) /\ UNCHANGED env
    <2>1. /\ p \in Addr /\ K[p] # "row" /\ heap[old[i]].rc > 0 /\ heap[p].rc > 0
          /\ heap[p].data = old /\ Shaped(heap, K)
      BY <1>1, <1>2, <1>4, Contained, Alive DEF IInv
    <2>2. /\ Shaped(heap', K)
          /\ \A c \in Addr : Outer(heap', c) = Outer(heap, c) - Keeps(temp, c)
      BY <1>5, <1>6, <2>1
    <2>3. IInv(K)'
      BY <1>2, <1>6, <2>2, Consumed
    <2> QED
      BY <2>3
  <1>7. CASE /\ heap[p].rc > 1
             /\ \E a \in FreeCells(heap) :
                  /\ heap' = Stored(RetainSlots(CowCopy(heap, p, old, a), old, DOMAIN old), a)
                  /\ Repoint(s, a)
    <2>1. PICK a \in FreeCells(heap) :
            /\ heap' = Stored(RetainSlots(CowCopy(heap, p, old, a), old, DOMAIN old), a)
            /\ Repoint(s, a)
      BY <1>7
    <2>2. a \in Addr /\ heap[a].rc = 0
      BY DEF FreeCells
    <2>3. PICK J \in Kinds : J[a] = "struct" /\ IInv(J)
      BY <2>2, FreshKind DEF KindNames
    <2>4. /\ p \in Addr /\ J[p] = "struct" /\ old[i] \in Addr /\ heap[old[i]].rc > 0
          /\ Shaped(heap, J)
      BY <1>1, <1>2, <1>4, <2>3, Contained DEF IInv
    <2>5. PICK f : f = RetainSlots(CowCopy(heap, p, old, a), old, DOMAIN old)
      OBVIOUS
    <2>6. /\ Shaped(f, J)
          /\ f[a].data = old /\ f[a].rc > 0
          /\ \A c \in Addr : /\ Outer(f, c) = Outer(heap, c) + Is(c, a) - Is(c, p)
                             /\ heap[c].rc > 0 => f[c].rc > 0
      BY <1>1, <1>7, <2>2, <2>3, <2>4, <2>5, CowKeepOp
    <2>7. heap' = Stored(f, a)
      BY <2>1, <2>5
    <2>8. /\ Shaped(heap', J)
          /\ \A c \in Addr : Outer(heap', c) = Outer(f, c) - Keeps(temp, c)
      BY <1>5, <2>2, <2>3, <2>4, <2>6, <2>7
    <2>9. ASSUME NEW c \in Addr
          PROVE  Outer(heap', c) = Outer(heap, c) - Keeps(temp, c) - Is(c, Ptr(s)) + Is(c, a)
      <3>1. Is(c, a) \in Int /\ Is(c, p) \in Int /\ Keeps(temp, c) \in Int
        BY DEF Is, Keeps
      <3>2. Outer(heap, c) \in Int
        BY <2>4, ShapedCell
      <3> QED
        BY <1>1, <2>6, <2>8, <3>1, <3>2
    <2>10. IInv(J)'
      BY <1>2, <1>4, <2>1, <2>2, <2>3, <2>8, <2>9, Repointed
    <2> QED
      BY <2>10
  <1> QED
    BY <1>3, <1>6, <1>7

\* x is appended to a container or to a row in place.
LEMMA PushInPlaceOp ==
  ASSUME NEW K \in Kinds, NEW h, Shaped(h, K), NEW p \in Addr, h[p].rc > 0,
         Len(h[p].data) < MaxLen, NEW x \in Ints \cup Addr,
         Append(h[p].data, x) \in Contents(K, K[p])
  PROVE  /\ Shaped(PushInPlace(h, p, x), K)
         /\ \A c \in Addr : Outer(PushInPlace(h, p, x), c) = Outer(h, c) - Is(c, x)
PROOF
  <1>1. PICK old, d : old = h[p].data /\ d = Append(h[p].data, x)
    OBVIOUS
  <1>2. old \in Seq(Ints \cup Addr) /\ Len(old) \in Nat /\ Len(old) < MaxLen /\ h \in [Addr -> Cells]
        /\ MaxLen \in Nat
    BY <1>1, ShapedCell, ArcAssumption
  <1>3. d \in Contents(K, K[p]) /\ Len(d) = Len(old) + 1
        /\ \A c : Among(c, d) = Among(c, old) + Is(c, x)
    <2>1. d = Append(old, x)
      BY <1>1
    <2>2. \A c : Among(c, Append(old, x)) = Among(c, old) + Is(c, x)
      BY <1>2, AmongAppended
    <2>3. Len(Append(old, x)) = Len(old) + 1
      BY <1>2
    <2> QED
      BY <1>1, <2>1, <2>2, <2>3
  <1>4. Len(d) <= MaxLen
    BY <1>2, <1>3
  <1>5. PushInPlace(h, p, x) = Write(h, p, d)
    BY <1>1, <1>2 DEF PushInPlace, Write
  <1>6. /\ Shaped(Write(h, p, d), K)
        /\ \A c \in Addr :
             /\ Among(c, h[p].data) \in Nat
             /\ Outer(Write(h, p, d), c) = Outer(h, c) + Among(c, h[p].data) - Among(c, d)
    BY <1>3, <1>4, WriteOp
  <1>7. ASSUME NEW c \in Addr PROVE Outer(Write(h, p, d), c) = Outer(h, c) - Is(c, x)
    <2>1. Outer(h, c) \in Int /\ Is(c, x) \in Int /\ Among(c, old) \in Nat
      BY <1>1, <1>6, ShapedCell DEF Is
    <2>2. Outer(Write(h, p, d), c) = Outer(h, c) + Among(c, old) - (Among(c, old) + Is(c, x))
      BY <1>1, <1>3, <1>6
    <2> QED
      BY <2>1, <2>2
  <1> QED
    BY <1>5, <1>6, <1>7

\* A container without room is copied with x at its end, and the copy retains its rows.
Grown(h, p, x, new) == RetainSlots(PushedCopy(h, p, x, new), h[p].data, DOMAIN h[p].data)

LEMMA GrownOp ==
  ASSUME NEW K \in Kinds, NEW h, Shaped(h, K), NEW p \in Addr, K[p] # "row",
         Len(h[p].data) < MaxLen, NEW new \in Addr, h[new].rc = 0, K[new] # "row",
         NEW x \in RowsOf(K)
  PROVE  /\ Shaped(Grown(h, p, x, new), K)
         /\ \A c \in Addr : /\ Outer(Grown(h, p, x, new), c) = Outer(h, c) + Is(c, new) - Is(c, x)
                            /\ h[c].rc > 0 => Grown(h, p, x, new)[c].rc > 0
PROOF
  <1>1. PICK old, d, f, g : /\ old = h[p].data /\ d = Append(h[p].data, x)
                            /\ f = PushedCopy(h, p, x, new) /\ g = Grown(h, p, x, new)
    OBVIOUS
  <1>2. old \in Seq(RowsOf(K)) /\ Contents(K, K[new]) = Seq(RowsOf(K))
    BY <1>1, ShapedCell DEF Contents
  <1>3. Append(h[p].data, x) \in Contents(K, K[new]) /\ \A c : Among(c, d) = Among(c, old) + Is(c, x)
    <2>1. Append(old, x) \in Seq(RowsOf(K)) /\ \A c : Among(c, Append(old, x)) = Among(c, old) + Is(c, x)
      BY <1>2, AmongAppended
    <2> QED
      BY <1>1, <1>2, <2>1
  <1>4. /\ Shaped(f, K)
        /\ \A c \in Addr : /\ Outer(f, c) = Outer(h, c) + Is(c, new) - Among(c, d)
                           /\ f[c].rc = h[c].rc + Is(c, new)
    BY <1>1, <1>3, PushedCopyOp
  <1>5. /\ Shaped(RetainSlots(f, old, DOMAIN old), K)
        /\ \A c \in Addr : /\ Among(c, old) \in Nat
                           /\ Outer(RetainSlots(f, old, DOMAIN old), c) = Outer(f, c) + Among(c, old)
                           /\ RetainSlots(f, old, DOMAIN old)[c].rc = f[c].rc + Among(c, old)
    BY <1>2, <1>4, RetainSlotsOp DEF Among
  <1>6. g = RetainSlots(f, old, DOMAIN old)
    BY <1>1 DEF Grown
  <1>7. ASSUME NEW c \in Addr
        PROVE  /\ Outer(g, c) = Outer(h, c) + Is(c, new) - Is(c, x)
               /\ h[c].rc > 0 => g[c].rc > 0
    <2>1. Outer(h, c) \in Int /\ h[c].rc \in Nat /\ Is(c, new) \in Nat /\ Is(c, x) \in Nat
      BY ShapedCell DEF Is
    <2>2. /\ Among(c, old) \in Nat
          /\ Outer(g, c) = Outer(h, c) + Is(c, new) - (Among(c, old) + Is(c, x)) + Among(c, old)
          /\ g[c].rc = h[c].rc + Is(c, new) + Among(c, old)
      BY <1>3, <1>4, <1>5, <1>6
    <2> QED
      BY <2>1, <2>2
  <1> QED
    BY <1>1, <1>5, <1>6, <1>7

LEMMA PushRowStep ==
  ASSUME NEW K \in Kinds, IInv(K), NEW g \in Grids, PushRow(g)
  PROVE  \E J \in Kinds : IInv(J)'
PROOF
  <1>1. PICK p, h, x : p = Ptr(g) /\ h = RetainTemp(heap) /\ x = temp.ptr
    OBVIOUS
  <1>2. /\ Working /\ temp # NoTemp /\ temp.kind = "row" /\ Mutable(g)
        /\ Len(heap[p].data) < MaxLen
        /\ temp' = NoTemp /\ UNCHANGED <<declared, frames, leaving, owed>>
    BY <1>1 DEF PushRow, HasTemp
  <1>3. \/ /\ heap' = PushInPlace(h, p, x)
           /\ UNCHANGED env
        \/ \E a \in FreeCells(heap) :
             /\ heap' = ReleaseNested(RetainSlots(PushedCopy(h, p, x, a),
                                                  heap[p].data, DOMAIN heap[p].data), p)
             /\ Repoint(g, a)
    BY <1>1 DEF PushRow
  <1>4. g \in Nested /\ Bound(g) /\ Kind(g) = "grid" /\ g \in Vars
    BY <1>2, KindOf DEF Mutable, Visible, Nested, Vars
  <1>5. CASE heap' = PushInPlace(h, p, x) /\ UNCHANGED env
    <2>1. p \in Addr /\ K[p] # "row" /\ heap[p].rc > 0 /\ heap[p].data \in Seq(RowsOf(K))
      BY <1>1, <1>4, Contained, Alive
    <2>2. /\ x \in Addr /\ K[x] = "row" /\ Shaped(h, K) /\ h[p].data = heap[p].data /\ h[p].rc > 0
          /\ \A c \in Addr : /\ Outer(h, c) = Outer(heap, c) - Keeps(temp, c) + Is(c, x)
                             /\ Outer(heap, c) \in Nat /\ Keeps(temp, c) \in {0, 1}
      BY <1>1, <1>2, <2>1, TempRetained
    <2>3. x \in RowsOf(K) /\ Contents(K, K[p]) = Seq(RowsOf(K)) /\ x \in Ints \cup Addr
      BY <2>1, <2>2 DEF RowsOf, Contents
    <2>4. Append(h[p].data, x) \in Contents(K, K[p]) /\ Len(h[p].data) < MaxLen
      BY <1>2, <2>1, <2>2, <2>3
    <2>5. /\ Shaped(PushInPlace(h, p, x), K)
          /\ \A c \in Addr : Outer(PushInPlace(h, p, x), c) = Outer(h, c) - Is(c, x)
      BY <2>1, <2>2, <2>3, <2>4, PushInPlaceOp
    <2>6. ASSUME NEW c \in Addr PROVE Outer(heap', c) = Outer(heap, c) - Keeps(temp, c)
      <3>1. Is(c, x) \in Int
        BY DEF Is
      <3> QED
        BY <1>5, <2>2, <2>5, <3>1
    <2>7. Shaped(heap', K)
      BY <1>5, <2>5
    <2>8. IInv(K)'
      BY <1>2, <1>5, <2>6, <2>7, Consumed
    <2> QED
      BY <2>8
  <1>6. CASE \E a \in FreeCells(heap) :
               /\ heap' = ReleaseNested(RetainSlots(PushedCopy(h, p, x, a),
                                                    heap[p].data, DOMAIN heap[p].data), p)
               /\ Repoint(g, a)
    <2>1. PICK a \in FreeCells(heap) :
            /\ heap' = ReleaseNested(RetainSlots(PushedCopy(h, p, x, a),
                                                 heap[p].data, DOMAIN heap[p].data), p)
            /\ Repoint(g, a)
      BY <1>6
    <2>2. a \in Addr /\ heap[a].rc = 0
      BY DEF FreeCells
    <2>3. PICK J \in Kinds : J[a] = "grid" /\ IInv(J)
      BY <2>2, FreshKind DEF KindNames
    <2>4. p \in Addr /\ J[p] = "grid" /\ heap[p].rc > 0
      BY <1>1, <1>4, <2>3, Contained, Alive
    <2>5. /\ x \in Addr /\ J[x] = "row" /\ Shaped(h, J) /\ h[p].data = heap[p].data
          /\ h[p].rc > 0 /\ h[a].rc = 0
          /\ \A c \in Addr : /\ Outer(h, c) = Outer(heap, c) - Keeps(temp, c) + Is(c, x)
                             /\ Outer(heap, c) \in Nat /\ Keeps(temp, c) \in {0, 1}
                             /\ Outer(heap, c) >= Keeps(temp, c)
      BY <1>1, <1>2, <2>2, <2>3, <2>4, TempRetained
    <2>6. PICK f : f = Grown(h, p, x, a)
      OBVIOUS
    <2>7. /\ J \in Kinds /\ J[p] # "row" /\ J[a] # "row" /\ x \in RowsOf(J) /\ Len(h[p].data) < MaxLen
      BY <1>2, <2>3, <2>4, <2>5 DEF RowsOf
    <2>8. /\ Shaped(f, J) /\ f[p].rc > 0
          /\ \A c \in Addr : Outer(f, c) = Outer(h, c) + Is(c, a) - Is(c, x)
      BY <2>2, <2>4, <2>5, <2>6, <2>7, GrownOp
    <2>9. \A c \in Addr : Outer(f, c) = Outer(heap, c) - Keeps(temp, c) + Is(c, a) /\ Outer(f, c) >= 0
      <3> SUFFICES ASSUME NEW c \in Addr
                   PROVE  Outer(f, c) = Outer(heap, c) - Keeps(temp, c) + Is(c, a) /\ Outer(f, c) >= 0
        OBVIOUS
      <3>1. Is(c, x) \in Nat /\ Is(c, a) \in Nat
        BY DEF Is
      <3> QED
        BY <2>5, <2>8, <3>1
    <2>10. heap' = Release(f, J[p], p)
      BY <2>1, <2>4, <2>5, <2>6 DEF Release, Grown
    <2>11. /\ Shaped(Release(f, J[p], p), J)
           /\ \A c \in Addr : Outer(Release(f, J[p], p), c) = Outer(f, c) - Is(c, p)
      BY <2>3, <2>4, <2>8, <2>9, ReleaseOp
    <2>12. ASSUME NEW c \in Addr
           PROVE  Outer(heap', c) = Outer(heap, c) - Keeps(temp, c) - Is(c, Ptr(g)) + Is(c, a)
      <3>1. Is(c, p) \in Nat /\ Is(c, a) \in Nat
        BY DEF Is
      <3> QED
        BY <1>1, <2>5, <2>9, <2>10, <2>11, <3>1
    <2>13. Shaped(heap', J) /\ J[a] = Kind(g)
      BY <1>4, <2>3, <2>10, <2>11
    <2>14. IInv(J)'
      BY <1>2, <1>4, <2>1, <2>2, <2>3, <2>12, <2>13, Repointed
    <2> QED
      BY <2>14
  <1> QED
    BY <1>3, <1>5, <1>6

-----------------------------------------------------------------------------
(* Statements on integers *)

\* A row is copied with an integer at its end.
LEMMA RowGrownOp ==
  ASSUME NEW K \in Kinds, NEW h, Shaped(h, K), NEW p \in Addr, K[p] = "row",
         Len(h[p].data) < MaxLen, NEW new \in Addr, h[new].rc = 0, K[new] = "row", NEW n \in Ints
  PROVE  /\ Shaped(PushedCopy(h, p, n, new), K)
         /\ \A c \in Addr : /\ Outer(PushedCopy(h, p, n, new), c) = Outer(h, c) + Is(c, new)
                            /\ PushedCopy(h, p, n, new)[c].rc = h[c].rc + Is(c, new)
                            /\ c # new => PushedCopy(h, p, n, new)[c].data = h[c].data
PROOF
  <1>1. PICK d, f : d = Append(h[p].data, n) /\ f = PushedCopy(h, p, n, new)
    OBVIOUS
  <1>2. h[p].data \in Seq(Ints) /\ Contents(K, K[new]) = Seq(Ints)
    BY ShapedCell DEF Contents
  <1>3. d \in Seq(Ints) /\ Append(h[p].data, n) \in Contents(K, K[new])
    <2>1. PICK s : s = h[p].data
      OBVIOUS
    <2>2. Append(s, n) \in Seq(Ints)
      BY <1>2, <2>1
    <2> QED
      BY <1>1, <1>2, <2>1, <2>2
  <1>4. \A c \in Addr : Among(c, d) = 0
    BY <1>3, AmongFew, ArcAssumption
  <1>5. /\ Shaped(f, K)
        /\ \A c \in Addr : /\ Outer(f, c) = Outer(h, c) + Is(c, new) - Among(c, d)
                           /\ f[c].rc = h[c].rc + Is(c, new)
                           /\ f[c].data = (IF c = new THEN d ELSE h[c].data)
    BY <1>1, <1>3, PushedCopyOp
  <1>6. \A c \in Addr : Outer(h, c) \in Int /\ Is(c, new) \in Int
    BY ShapedCell DEF Is
  <1> QED
    BY <1>1, <1>4, <1>5, <1>6

\* A row is written: no reference changes.
LEMMA RowWriteOp ==
  ASSUME NEW K \in Kinds, NEW h, Shaped(h, K), NEW p \in Addr, K[p] = "row", h[p].rc > 0,
         NEW d \in Seq(Ints), Len(d) <= MaxLen
  PROVE  /\ Shaped(Write(h, p, d), K)
         /\ \A c \in Addr : Outer(Write(h, p, d), c) = Outer(h, c)
PROOF
  <1>1. PICK old : old = h[p].data
    OBVIOUS
  <1>2. old \in Seq(Ints) /\ d \in Contents(K, K[p])
    BY <1>1, ShapedCell DEF Contents
  <1>3. \A c \in Addr : Among(c, old) = 0 /\ Among(c, d) = 0
    BY <1>2, AmongFew, ArcAssumption
  <1>4. /\ Shaped(Write(h, p, d), K)
        /\ \A c \in Addr : Outer(Write(h, p, d), c) = Outer(h, c) + Among(c, h[p].data) - Among(c, d)
    BY <1>2, WriteOp
  <1>5. \A c \in Addr : Outer(h, c) \in Int
    BY ShapedCell
  <1> QED
    BY <1>1, <1>3, <1>4, <1>5

\* A row with one integer replaced.
LEMMA IntPut ==
  ASSUME NEW s \in Seq(Ints), NEW i \in DOMAIN s, NEW n \in Ints
  PROVE  Put(s, i, n) \in Seq(Ints) /\ Len(Put(s, i, n)) = Len(s)
PROOF
  BY DEF Put

\* What a visible row variable refers to.
LEMMA RowAt ==
  ASSUME NEW K \in Kinds, IInv(K), NEW v \in Rows, Bound(v)
  PROVE  /\ v \in Vars /\ Kind(v) = "row" /\ Ptr(v) \in Addr /\ K[Ptr(v)] = "row"
         /\ heap[Ptr(v)].rc > 0 /\ heap[Ptr(v)].data \in Seq(Ints)
         /\ Len(heap[Ptr(v)].data) <= MaxLen /\ Shaped(heap, K)
         /\ \A c \in Addr : Outer(heap, c) \in Nat
PROOF
  <1>1. v \in Vars /\ Kind(v) = "row"
    BY KindOf DEF Vars
  <1>2. Ptr(v) \in Addr /\ heap[Ptr(v)].rc > 0 /\ K[Ptr(v)] = "row" /\ Shaped(heap, K)
    BY <1>1, Alive DEF IInv, Agreed
  <1>3. heap[Ptr(v)].data \in Seq(Ints) /\ Len(heap[Ptr(v)].data) <= MaxLen
    BY <1>2, ShapedCell DEF Contents
  <1> QED
    BY <1>1, <1>2, <1>3, Alive

LEMMA SetIntStep ==
  ASSUME NEW K \in Kinds, IInv(K), NEW v \in Rows, NEW i, NEW n \in Ints, SetInt(v, i, n)
  PROVE  \E J \in Kinds : IInv(J)'
PROOF
  <1>1. PICK p, d : p = Ptr(v) /\ d = Put(heap[Ptr(v)].data, i, n)
    OBVIOUS
  <1>2. /\ Working /\ temp = NoTemp /\ Mutable(v) /\ Bound(v) /\ i \in DOMAIN heap[p].data
        /\ temp' = NoTemp /\ UNCHANGED <<declared, frames, leaving, owed>>
    BY <1>1 DEF SetInt, AtStmt, Mutable, Visible
  <1>3. \/ /\ heap[p].rc > 1
           /\ \E a \in FreeCells(heap) : heap' = CowCopy(heap, p, d, a) /\ Repoint(v, a)
        \/ heap' = Write(heap, p, d) /\ UNCHANGED env
    BY <1>1 DEF SetInt, Shared, Write, Put
  <1>4. /\ v \in Vars /\ Kind(v) = "row" /\ p \in Addr /\ K[p] = "row" /\ heap[p].rc > 0
        /\ d \in Seq(Ints) /\ Len(d) <= MaxLen
    BY <1>1, <1>2, RowAt, IntPut
  <1>5. \A c \in Addr : Keeps(temp, c) = 0 /\ Outer(heap, c) \in Int /\ Among(c, d) = 0
    BY <1>2, <1>4, Alive, AmongFew, ArcAssumption DEF Keeps, NoTemp
  <1>6. CASE heap' = Write(heap, p, d) /\ UNCHANGED env
    <2>1. /\ Shaped(Write(heap, p, d), K)
          /\ \A c \in Addr : Outer(Write(heap, p, d), c) = Outer(heap, c)
      BY <1>4, RowWriteOp DEF IInv
    <2>2. \A c \in Addr : Outer(heap', c) = Outer(heap, c) - Keeps(temp, c)
      BY <1>5, <1>6, <2>1
    <2>3. Shaped(heap', K)
      BY <1>6, <2>1
    <2>4. IInv(K)'
      BY <1>2, <1>6, <2>2, <2>3, Consumed
    <2> QED
      BY <2>4
  <1>7. CASE /\ heap[p].rc > 1
             /\ \E a \in FreeCells(heap) : heap' = CowCopy(heap, p, d, a) /\ Repoint(v, a)
    <2>1. PICK a \in FreeCells(heap) : heap' = CowCopy(heap, p, d, a) /\ Repoint(v, a)
      BY <1>7
    <2>2. a \in Addr /\ heap[a].rc = 0
      BY DEF FreeCells
    <2>3. PICK J \in Kinds : J[a] = "row" /\ IInv(J)
      BY <2>2, FreshKind DEF KindNames
    <2>4. Shaped(heap, J) /\ d \in Contents(J, J[a])
      BY <1>4, <2>3 DEF IInv, Contents
    <2>5. /\ Shaped(CowCopy(heap, p, d, a), J)
          /\ \A c \in Addr : Outer(CowCopy(heap, p, d, a), c) =
                               Outer(heap, c) + Is(c, a) - Among(c, d) - Is(c, p)
      BY <1>4, <1>7, <2>2, <2>3, <2>4, CowOp
    <2>6. ASSUME NEW c \in Addr
          PROVE  Outer(heap', c) = Outer(heap, c) - Keeps(temp, c) - Is(c, Ptr(v)) + Is(c, a)
      <3>1. Is(c, p) \in Nat /\ Is(c, a) \in Nat
        BY DEF Is
      <3> QED
        BY <1>1, <1>5, <2>1, <2>5, <3>1
    <2>7. Shaped(heap', J)
      BY <2>1, <2>5
    <2>8. IInv(J)'
      BY <1>2, <1>4, <2>1, <2>2, <2>3, <2>6, <2>7, Repointed
    <2> QED
      BY <2>8
  <1> QED
    BY <1>3, <1>6, <1>7

LEMMA PushIntStep ==
  ASSUME NEW K \in Kinds, IInv(K), NEW v \in Rows, NEW n \in Ints, PushInt(v, n)
  PROVE  \E J \in Kinds : IInv(J)'
PROOF
  <1>1. PICK p : p = Ptr(v)
    OBVIOUS
  <1>2. /\ Working /\ temp = NoTemp /\ Mutable(v) /\ Bound(v) /\ Len(heap[p].data) < MaxLen
        /\ temp' = NoTemp /\ UNCHANGED <<declared, frames, leaving, owed>>
    BY <1>1 DEF PushInt, AtStmt, Mutable, Visible
  <1>3. \/ heap' = PushInPlace(heap, p, n) /\ UNCHANGED env
        \/ \E a \in FreeCells(heap) :
             heap' = ReleaseRow(PushedCopy(heap, p, n, a), p) /\ Repoint(v, a)
    BY <1>1 DEF PushInt
  <1>4. /\ v \in Vars /\ Kind(v) = "row" /\ p \in Addr /\ K[p] = "row" /\ heap[p].rc > 0
        /\ heap[p].data \in Seq(Ints)
    BY <1>1, <1>2, RowAt
  <1>5. \A c \in Addr : Keeps(temp, c) = 0 /\ Outer(heap, c) \in Int /\ Is(c, n) = 0
    BY <1>2, Alive, ArcAssumption DEF Keeps, NoTemp, Is
  <1>6. CASE heap' = PushInPlace(heap, p, n) /\ UNCHANGED env
    <2>1. Append(heap[p].data, n) \in Contents(K, K[p]) /\ Shaped(heap, K) /\ n \in Ints \cup Addr
      BY <1>4 DEF Contents, IInv
    <2>2. /\ Shaped(PushInPlace(heap, p, n), K)
          /\ \A c \in Addr : Outer(PushInPlace(heap, p, n), c) = Outer(heap, c) - Is(c, n)
      BY <1>2, <1>4, <2>1, PushInPlaceOp
    <2>3. \A c \in Addr : Outer(heap', c) = Outer(heap, c) - Keeps(temp, c)
      BY <1>5, <1>6, <2>2
    <2>4. Shaped(heap', K)
      BY <1>6, <2>2
    <2>5. IInv(K)'
      BY <1>2, <1>6, <2>3, <2>4, Consumed
    <2> QED
      BY <2>5
  <1>7. CASE \E a \in FreeCells(heap) :
               heap' = ReleaseRow(PushedCopy(heap, p, n, a), p) /\ Repoint(v, a)
    <2>1. PICK a \in FreeCells(heap) :
            heap' = ReleaseRow(PushedCopy(heap, p, n, a), p) /\ Repoint(v, a)
      BY <1>7
    <2>2. a \in Addr /\ heap[a].rc = 0
      BY DEF FreeCells
    <2>3. PICK J \in Kinds : J[a] = "row" /\ IInv(J)
      BY <2>2, FreshKind DEF KindNames
    <2>4. PICK f : f = PushedCopy(heap, p, n, a)
      OBVIOUS
    <2>5. Shaped(heap, J) /\ J[p] = "row" /\ heap[p].rc \in Nat
      BY <1>1, <1>2, <2>3, RowAt, ShapedCell
    <2>6. /\ Shaped(f, J)
          /\ \A c \in Addr : /\ Outer(f, c) = Outer(heap, c) + Is(c, a)
                             /\ f[c].rc = heap[c].rc + Is(c, a)
      BY <1>2, <1>4, <2>2, <2>3, <2>4, <2>5, RowGrownOp
    <2>7. f[p].rc > 0
      BY <1>4, <2>5, <2>6 DEF Is
    <2>8. /\ Shaped(ReleaseRow(f, p), J)
          /\ \A c \in Addr : Outer(ReleaseRow(f, p), c) = Outer(f, c) - Is(c, p)
      BY <1>4, <2>3, <2>5, <2>6, <2>7, ReleaseRowOp
    <2>9. heap' = ReleaseRow(f, p)
      BY <2>1, <2>4
    <2>10. ASSUME NEW c \in Addr
           PROVE  Outer(heap', c) = Outer(heap, c) - Keeps(temp, c) - Is(c, Ptr(v)) + Is(c, a)
      <3>1. Is(c, p) \in Nat /\ Is(c, a) \in Nat
        BY DEF Is
      <3> QED
        BY <1>1, <1>5, <2>6, <2>8, <2>9, <3>1
    <2>11. Shaped(heap', J) /\ J[a] = Kind(v)
      BY <1>4, <2>3, <2>8, <2>9
    <2>12. IInv(J)'
      BY <1>2, <1>4, <2>1, <2>2, <2>3, <2>10, <2>11, Repointed
    <2> QED
      BY <2>12
  <1> QED
    BY <1>3, <1>6, <1>7

LEMMA LetPushStep ==
  ASSUME Forms = {}, NEW K \in Kinds, IInv(K), NEW b \in Rows, NEW v \in Rows, NEW n \in Ints,
         LetPush(b, v, n)
  PROVE  \E J \in Kinds : IInv(J)'
PROOF
  <1>1. PICK p : p = Ptr(v)
    OBVIOUS
  <1>2. PICK a \in FreeCells(heap) :
          /\ heap' = PushedCopy(heap, p, n, a)
          /\ env' = [env EXCEPT ![b] = [ptr |-> a, mode |-> "local", depth |-> Depth]]
    BY <1>1 DEF LetPush, Uses
  <1>3. /\ Working /\ temp = NoTemp /\ Bound(v) /\ env[b].mode = "none" /\ b \in declared
        /\ Len(heap[p].data) < MaxLen
        /\ temp' = NoTemp /\ UNCHANGED <<declared, frames, leaving, owed>>
    BY <1>1 DEF LetPush, AtStmt, Visible, CanBind, Bound
  <1>4. a \in Addr /\ heap[a].rc = 0
    BY DEF FreeCells
  <1>5. PICK J \in Kinds : J[a] = "row" /\ IInv(J)
    BY <1>4, FreshKind DEF KindNames
  <1>6. Shaped(heap, J) /\ J[p] = "row" /\ p \in Addr /\ b \in Vars /\ Kind(b) = "row"
    BY <1>1, <1>3, <1>5, RowAt, KindOf DEF Vars
  <1>7. PICK f : f = PushedCopy(heap, p, n, a)
    OBVIOUS
  <1>8. Shaped(f, J) /\ \A c \in Addr : Outer(f, c) = Outer(heap, c) + Is(c, a)
    BY <1>3, <1>4, <1>5, <1>6, <1>7, RowGrownOp
  <1>9. PICK x : x = [ptr |-> a, mode |-> "local", depth |-> Depth]
    OBVIOUS
  <1>10. Depth \in 0..MaxDepth
    BY ArcAssumption DEF IInv, Scoped, Depth
  <1>11. x \in Slot /\ x.ptr = a /\ x.mode \in Owning /\ x.depth <= Depth
    BY <1>4, <1>9, <1>10 DEF Slot, Owning
  <1>12. env' = [env EXCEPT ![b] = x] /\ heap' = f
    BY <1>2, <1>7, <1>9
  <1>13. ASSUME NEW c \in Addr
         PROVE  Outer(heap', c) = Outer(heap, c) - Keeps(temp, c) - Owns(env[b], c) + Is(c, x.ptr)
    <2>1. Keeps(temp, c) = 0 /\ Owns(env[b], c) = 0 /\ Is(c, x.ptr) = Is(c, a) /\ Is(c, a) \in Nat
      BY <1>3, <1>11 DEF Keeps, NoTemp, Owns, Owning, Is
    <2>2. Outer(heap, c) \in Int
      BY <1>6, ShapedCell
    <2> QED
      BY <1>8, <1>12, <2>1, <2>2
  <1>14. Shaped(heap', J) /\ env[b].mode # "param" /\ J[x.ptr] = Kind(b)
    BY <1>3, <1>5, <1>6, <1>8, <1>11, <1>12
  <1>15. IInv(J)'
    BY <1>3, <1>5, <1>6, <1>11, <1>12, <1>13, <1>14, Rebound
  <1> QED
    BY <1>15

\* The copy that push makes of a row in a container, before it is stored.
LEMMA SlotGrown ==
  ASSUME NEW K \in Kinds, IInv(K), NEW v \in Nested, Bound(v), NEW p, p = Ptr(v),
         NEW i \in DOMAIN heap[p].data, Len(heap[heap[p].data[i]].data) < MaxLen,
         NEW a \in Addr, heap[a].rc = 0, K[a] = "row", NEW n \in Ints,
         NEW h, h = PushedCopy(heap, heap[p].data[i], n, a)
  PROVE  /\ p \in Addr /\ K[p] = Kind(v) /\ Kind(v) # "row" /\ v \in Vars /\ a \in RowsOf(K)
         /\ Shaped(heap, K) /\ Shaped(h, K)
         /\ h[p].data = heap[p].data /\ h[p].rc > 0 /\ h[heap[p].data[i]].rc > 0
         /\ \A c \in Addr : /\ Outer(h, c) = Outer(heap, c) + Is(c, a)
                            /\ h[c].rc = heap[c].rc + Is(c, a)
                            /\ Outer(heap, c) \in Nat
PROOF
  <1>1. PICK r : r = heap[p].data[i]
    OBVIOUS
  <1>2. /\ p \in Addr /\ K[p] = Kind(v) /\ Kind(v) # "row" /\ v \in Vars
        /\ r \in Addr /\ K[r] = "row" /\ heap[r].rc > 0 /\ heap[p].rc > 0
        /\ Shaped(heap, K) /\ \A c \in Addr : Outer(heap, c) \in Nat
    BY <1>1, Contained, Alive DEF IInv
  <1>3. /\ Shaped(h, K)
        /\ \A c \in Addr : /\ Outer(h, c) = Outer(heap, c) + Is(c, a)
                           /\ h[c].rc = heap[c].rc + Is(c, a)
                           /\ c # a => h[c].data = heap[c].data
    BY <1>1, <1>2, RowGrownOp
  <1>4. p # a /\ r # a /\ Is(p, a) = 0 /\ Is(r, a) = 0 /\ heap[p].rc \in Nat /\ heap[r].rc \in Nat
    BY <1>2, ShapedCell DEF Is
  <1> QED
    BY <1>1, <1>2, <1>3, <1>4 DEF RowsOf

LEMMA PushFieldStep ==
  ASSUME Forms = {}, NEW K \in Kinds, IInv(K), NEW s \in Structs, NEW i, NEW n \in Ints,
         PushField(s, i, n)
  PROVE  \E J \in Kinds : IInv(J)'
PROOF
  <1>1. PICK p, old, r : p = Ptr(s) /\ old = heap[Ptr(s)].data /\ r = heap[Ptr(s)].data[i]
    OBVIOUS
  <1>2. /\ Working /\ temp = NoTemp /\ Mutable(s) /\ Bound(s) /\ i \in DOMAIN heap[p].data
        /\ Len(heap[r].data) < MaxLen /\ r = heap[p].data[i] /\ old = heap[p].data
        /\ temp' = NoTemp /\ UNCHANGED <<declared, frames, leaving, owed>>
    BY <1>1 DEF PushField, AtStmt, Mutable, Visible
  <1> DEFINE Stored(h, b, x) == [ReleaseRow(h, r) EXCEPT ![b].data[i] = x]
  <1>3. PICK a \in FreeCells(heap) :
          LET h == PushedCopy(heap, r, n, a)
          IN  \/ /\ h[p].rc > 1
                 /\ \E b \in FreeCells(h) :
                      /\ heap' = Stored(RetainSlots(CowCopy(h, p, old, b), old, DOMAIN old), b, a)
                      /\ Repoint(s, b)
              \/ /\ heap' = Stored(h, p, a)
                 /\ UNCHANGED env
    BY <1>1 DEF PushField, Uses, Shared
  <1>4. PICK h : h = PushedCopy(heap, r, n, a)
    OBVIOUS
  <1>5. a \in Addr /\ heap[a].rc = 0 /\ s \in Nested /\ Kind(s) = "struct" /\ s \in Vars
    BY KindOf DEF FreeCells, Nested, Vars
  <1>6. ASSUME NEW J \in Kinds, IInv(J), J[a] = "row"
        PROVE  /\ p \in Addr /\ J[p] = "struct" /\ a \in RowsOf(J)
               /\ Shaped(heap, J) /\ Shaped(h, J)
               /\ h[p].data = old /\ h[p].rc > 0 /\ h[r].rc > 0
               /\ \A c \in Addr : /\ Outer(h, c) = Outer(heap, c) + Is(c, a)
                                  /\ h[c].rc = heap[c].rc + Is(c, a)
                                  /\ Outer(heap, c) \in Nat
    BY <1>1, <1>2, <1>4, <1>5, <1>6, SlotGrown
  <1>7. ASSUME NEW J \in Kinds, NEW f, Shaped(f, J), NEW b \in Addr, J[b] # "row",
               f[b].rc > 0, f[b].data = old, f[r].rc > 0, a \in RowsOf(J)
        PROVE  /\ Shaped(Stored(f, b, a), J)
               /\ \A c \in Addr : Outer(Stored(f, b, a), c) = Outer(f, c) - Is(c, a)
    <2>1. i \in DOMAIN f[b].data /\ f[b].data[i] = r /\ f[f[b].data[i]].rc > 0
      BY <1>1, <1>2, <1>7
    <2>2. PICK g : g = Write(ReleaseRow(f, f[b].data[i]), b,
                             Put(ReleaseRow(f, f[b].data[i])[b].data, i, a))
      OBVIOUS
    <2>3. \/ g = ReleaseRow(Write(f, b, Put(f[b].data, i, a)), f[b].data[i])
          \/ g = Write(ReleaseRow(f, f[b].data[i]), b,
                       Put(ReleaseRow(f, f[b].data[i])[b].data, i, a))
      BY <2>2
    <2>4. Shaped(g, J) /\ \A c \in Addr : Outer(g, c) = Outer(f, c) - Is(c, a)
      BY <1>7, <2>1, <2>3, StoreOp
    <2>5. Stored(f, b, a) = g
      BY <2>1, <2>2 DEF Write, Put
    <2> QED
      BY <2>4, <2>5
  <1> HIDE DEF Stored
  <1>8. PICK J \in Kinds : J[a] = "row" /\ IInv(J)
    BY <1>5, FreshKind DEF KindNames
  <1>9. \A c \in Addr : Is(c, a) \in Nat /\ Is(c, p) \in Nat /\ Keeps(temp, c) = 0
    BY <1>2 DEF Is, Keeps, NoTemp
  <1>10. CASE heap' = Stored(h, p, a) /\ UNCHANGED env
    <2>1. /\ Shaped(heap', J)
          /\ \A c \in Addr : Outer(heap', c) = Outer(h, c) - Is(c, a)
      BY <1>6, <1>7, <1>8, <1>10
    <2>2. \A c \in Addr : Outer(heap', c) = Outer(heap, c) - Keeps(temp, c)
      BY <1>6, <1>8, <1>9, <2>1
    <2>3. IInv(J)'
      BY <1>2, <1>8, <1>10, <2>1, <2>2, Consumed
    <2> QED
      BY <1>8, <2>3
  <1>11. CASE /\ h[p].rc > 1
              /\ \E b \in FreeCells(h) :
                   /\ heap' = Stored(RetainSlots(CowCopy(h, p, old, b), old, DOMAIN old), b, a)
                   /\ Repoint(s, b)
    <2>1. PICK b \in FreeCells(h) :
            /\ heap' = Stored(RetainSlots(CowCopy(h, p, old, b), old, DOMAIN old), b, a)
            /\ Repoint(s, b)
      BY <1>11
    <2>2. b \in Addr /\ h[b].rc = 0 /\ heap[b].rc = 0 /\ b # a
      <3>1. b \in Addr /\ h[b].rc = 0 /\ h[b].rc = heap[b].rc + Is(b, a) /\ heap[b].rc \in Nat
        BY <1>6, <1>8, ShapedCell DEF FreeCells
      <3> QED
        BY <3>1 DEF Is
    <2>3. PICK L \in Kinds : L[b] = "struct" /\ IInv(L) /\ \A c \in Addr : c # b => L[c] = J[c]
      BY <1>8, <2>2, FreshKind DEF KindNames
    <2>4. L[a] = "row"
      BY <1>5, <1>8, <2>2, <2>3
    <2>5. /\ p \in Addr /\ L[p] # "row" /\ L[b] # "row" /\ a \in RowsOf(L)
          /\ Shaped(h, L) /\ h[p].data = old /\ h[r].rc > 0 /\ r \in Addr
          /\ \A c \in Addr : Outer(h, c) = Outer(heap, c) + Is(c, a) /\ Outer(heap, c) \in Nat
      BY <1>1, <1>2, <1>5, <1>6, <2>3, <2>4, Contained
    <2>6. PICK f : f = RetainSlots(CowCopy(h, p, old, b), old, DOMAIN old)
      OBVIOUS
    <2>7. /\ Shaped(f, L)
          /\ f[b].data = old /\ f[b].rc > 0
          /\ \A c \in Addr : /\ Outer(f, c) = Outer(h, c) + Is(c, b) - Is(c, p)
                             /\ h[c].rc > 0 => f[c].rc > 0
      BY <1>11, <2>2, <2>3, <2>5, <2>6, CowKeepOp
    <2>8. /\ Shaped(heap', L)
          /\ \A c \in Addr : Outer(heap', c) = Outer(f, c) - Is(c, a)
      BY <1>7, <2>1, <2>2, <2>3, <2>5, <2>6, <2>7
    <2>9. ASSUME NEW c \in Addr
          PROVE  Outer(heap', c) = Outer(heap, c) - Keeps(temp, c) - Is(c, Ptr(s)) + Is(c, b)
      <3>1. Is(c, b) \in Nat /\ Is(c, a) \in Nat /\ Is(c, p) \in Nat /\ Outer(heap, c) \in Nat
        BY <2>5 DEF Is
      <3>2. /\ Outer(heap', c) = Outer(f, c) - Is(c, a)
            /\ Outer(f, c) = Outer(h, c) + Is(c, b) - Is(c, p)
            /\ Outer(h, c) = Outer(heap, c) + Is(c, a)
        BY <2>5, <2>7, <2>8
      <3> QED
        BY <1>1, <1>9, <3>1, <3>2
    <2>10. IInv(L)'
      BY <1>2, <1>5, <2>1, <2>2, <2>3, <2>8, <2>9, Repointed
    <2> QED
      BY <2>10
  <1> QED
    BY <1>3, <1>4, <1>10, <1>11

LEMMA PushElemStep ==
  ASSUME Forms = {}, NEW K \in Kinds, IInv(K), NEW g \in Grids, NEW i, NEW n \in Ints,
         PushElem(g, i, n)
  PROVE  \E J \in Kinds : IInv(J)'
PROOF
  <1>1. PICK p, old, r : p = Ptr(g) /\ old = heap[Ptr(g)].data /\ r = heap[Ptr(g)].data[i]
    OBVIOUS
  <1>2. /\ Working /\ temp = NoTemp /\ Mutable(g) /\ Bound(g) /\ i \in DOMAIN heap[p].data
        /\ Len(heap[r].data) < MaxLen /\ r = heap[p].data[i] /\ old = heap[p].data
        /\ temp' = NoTemp /\ UNCHANGED <<declared, frames, leaving, owed>>
    BY <1>1 DEF PushElem, AtStmt, Mutable, Visible
  <1>3. PICK a \in FreeCells(heap) :
          LET h == PushedCopy(heap, r, n, a)
              d == Put(old, i, a)
          IN  \/ /\ h[p].rc > 1
                 /\ \E b \in FreeCells(h) :
                      /\ heap' = RetainSlots(CowCopy(h, p, d, b), d, DOMAIN d \ {i})
                      /\ Repoint(g, b)
              \/ /\ heap' = ReleaseRow(Write(h, p, d), r)
                 /\ UNCHANGED env
    BY <1>1 DEF PushElem, Uses, Shared, Put, Write
  <1>4. PICK h, d : h = PushedCopy(heap, r, n, a) /\ d = Put(old, i, a)
    OBVIOUS
  <1>5. a \in Addr /\ heap[a].rc = 0 /\ g \in Nested /\ Kind(g) = "grid" /\ g \in Vars
    BY KindOf DEF FreeCells, Nested, Vars
  <1>6. ASSUME NEW J \in Kinds, IInv(J), J[a] = "row"
        PROVE  /\ p \in Addr /\ J[p] = "grid" /\ a \in RowsOf(J)
               /\ Shaped(heap, J) /\ Shaped(h, J)
               /\ h[p].data = old /\ h[p].rc > 0 /\ h[r].rc > 0
               /\ \A c \in Addr : /\ Outer(h, c) = Outer(heap, c) + Is(c, a)
                                  /\ h[c].rc = heap[c].rc + Is(c, a)
                                  /\ Outer(heap, c) \in Nat
    BY <1>1, <1>2, <1>4, <1>5, <1>6, SlotGrown
  <1>7. PICK J \in Kinds : J[a] = "row" /\ IInv(J)
    BY <1>5, FreshKind DEF KindNames
  <1>8. \A c \in Addr : Is(c, a) \in Nat /\ Is(c, p) \in Nat /\ Keeps(temp, c) = 0
    BY <1>2 DEF Is, Keeps, NoTemp
  <1>9. CASE heap' = ReleaseRow(Write(h, p, d), r) /\ UNCHANGED env
    <2>1. /\ Shaped(h, J) /\ p \in Addr /\ J[p] # "row" /\ h[p].rc > 0 /\ a \in RowsOf(J)
          /\ i \in DOMAIN h[p].data /\ h[p].data[i] = r /\ h[h[p].data[i]].rc > 0
          /\ d = Put(h[p].data, i, a)
      BY <1>1, <1>2, <1>4, <1>6, <1>7
    <2>2. PICK f : f = ReleaseRow(Write(h, p, Put(h[p].data, i, a)), h[p].data[i])
      OBVIOUS
    <2>3. Shaped(f, J) /\ \A c \in Addr : Outer(f, c) = Outer(h, c) - Is(c, a)
      BY <1>7, <2>1, <2>2, StoreOp
    <2>4. heap' = f
      BY <1>9, <2>1, <2>2
    <2>5. ASSUME NEW c \in Addr PROVE Outer(heap', c) = Outer(heap, c) - Keeps(temp, c)
      BY <1>6, <1>7, <1>8, <2>3, <2>4
    <2>6. Shaped(heap', J)
      BY <2>3, <2>4
    <2>7. IInv(J)'
      BY <1>2, <1>7, <1>9, <2>5, <2>6, Consumed
    <2> QED
      BY <1>7, <2>7
  <1>10. CASE /\ h[p].rc > 1
              /\ \E b \in FreeCells(h) :
                   /\ heap' = RetainSlots(CowCopy(h, p, d, b), d, DOMAIN d \ {i})
                   /\ Repoint(g, b)
    <2>1. PICK b \in FreeCells(h) :
            /\ heap' = RetainSlots(CowCopy(h, p, d, b), d, DOMAIN d \ {i})
            /\ Repoint(g, b)
      BY <1>10
    <2>2. b \in Addr /\ h[b].rc = 0 /\ heap[b].rc = 0 /\ b # a
      <3>1. b \in Addr /\ h[b].rc = 0 /\ h[b].rc = heap[b].rc + Is(b, a) /\ heap[b].rc \in Nat
        BY <1>6, <1>7, ShapedCell DEF FreeCells
      <3> QED
        BY <3>1 DEF Is
    <2>3. PICK L \in Kinds : L[b] = "grid" /\ IInv(L) /\ \A c \in Addr : c # b => L[c] = J[c]
      BY <1>7, <2>2, FreshKind DEF KindNames
    <2>4. L[a] = "row"
      BY <1>5, <1>7, <2>2, <2>3
    <2>5. /\ p \in Addr /\ L[p] # "row" /\ L[b] # "row" /\ a \in RowsOf(L)
          /\ Shaped(h, L) /\ h[p].data = old /\ i \in DOMAIN h[p].data
          /\ \A c \in Addr : Outer(h, c) = Outer(heap, c) + Is(c, a) /\ Outer(heap, c) \in Nat
      BY <1>1, <1>2, <1>6, <2>3, <2>4
    <2>6. PICK f : f = CowStored(h, p, i, a, b)
      OBVIOUS
    <2>7. /\ Shaped(f, L)
          /\ \A c \in Addr : Outer(f, c) = Outer(h, c) + Is(c, b) - Is(c, p) - Is(c, a)
      BY <1>10, <2>2, <2>3, <2>5, <2>6, CowStoreOp
    <2>8. heap' = f
      BY <1>4, <2>1, <2>5, <2>6 DEF CowStored
    <2>9. ASSUME NEW c \in Addr
          PROVE  Outer(heap', c) = Outer(heap, c) - Keeps(temp, c) - Is(c, Ptr(g)) + Is(c, b)
      <3>1. Is(c, b) \in Nat /\ Is(c, a) \in Nat /\ Is(c, p) \in Nat /\ Outer(heap, c) \in Nat
        BY <2>5 DEF Is
      <3>2. /\ Outer(f, c) = Outer(h, c) + Is(c, b) - Is(c, p) - Is(c, a)
            /\ Outer(h, c) = Outer(heap, c) + Is(c, a)
        BY <2>5, <2>7
      <3> QED
        BY <1>1, <1>8, <2>8, <3>1, <3>2
    <2>10. Shaped(heap', L)
      BY <2>7, <2>8
    <2>11. IInv(L)'
      BY <1>2, <1>5, <2>1, <2>2, <2>3, <2>9, <2>10, Repointed
    <2> QED
      BY <2>11
  <1> QED
    BY <1>3, <1>4, <1>9, <1>10

LEMMA SetNestedStep ==
  ASSUME Forms = {}, NEW K \in Kinds, IInv(K), NEW g \in Nested, NEW i, NEW j, NEW n \in Ints,
         SetNested(g, i, j, n)
  PROVE  IInv(K)'
PROOF
  <1>1. PICK r, d : r = heap[Ptr(g)].data[i] /\ d = Put(heap[heap[Ptr(g)].data[i]].data, j, n)
    OBVIOUS
  <1>2. /\ Working /\ temp = NoTemp /\ Bound(g) /\ i \in DOMAIN heap[Ptr(g)].data
        /\ j \in DOMAIN heap[r].data
        /\ temp' = NoTemp /\ UNCHANGED <<declared, env, frames, leaving, owed>>
    BY <1>1 DEF SetNested, AtStmt, Mutable, Visible
  <1>3. heap' = Write(heap, r, d)
    BY <1>1 DEF SetNested, Uses, Write, Put
  <1>4. r \in Addr /\ K[r] = "row" /\ heap[r].rc > 0 /\ Shaped(heap, K)
    BY <1>1, <1>2, Contained DEF IInv
  <1>5. heap[r].data \in Seq(Ints) /\ Len(heap[r].data) <= MaxLen
    BY <1>4, ShapedCell DEF Contents
  <1>6. d \in Seq(Ints) /\ Len(d) <= MaxLen
    BY <1>1, <1>2, <1>5, IntPut
  <1>7. /\ Shaped(heap', K)
        /\ \A c \in Addr : Outer(heap', c) = Outer(heap, c)
    BY <1>3, <1>4, <1>6, RowWriteOp
  <1>8. \A c \in Addr : Outer(heap', c) = Outer(heap, c) - Keeps(temp, c)
    <2>1. \A c \in Addr : Keeps(temp, c) = 0 /\ Outer(heap, c) \in Int
      BY <1>2, Alive DEF Keeps, NoTemp
    <2> QED
      BY <1>7, <2>1
  <1> QED
    BY <1>2, <1>7, <1>8, Consumed

-----------------------------------------------------------------------------
(* Blocks and calls *)

\* A frame is pushed that holds what it is said to hold; the variable p of a call is bound.
LEMMA Called ==
  ASSUME NEW K \in Kinds, IInv(K), Shaped(heap', K), Working, temp' = NoTemp,
         NEW p \in Vars, CanBind(p), Depth < MaxDepth,
         NEW y \in Slot, y.depth = Depth + 1, y.mode # "none", K[y.ptr] = Kind(p),
         env' = [env EXCEPT ![p] = y],
         NEW x \in Frame, x.call, x.held # NoHeld => K[x.held.ptr] = x.held.kind,
         y.mode = "param" => x.held.ptr = y.ptr,
         frames' = Append(frames, x),
         UNCHANGED <<declared, leaving, owed>>,
         \A c \in Addr : Outer(heap', c) =
                           Outer(heap, c) - Keeps(temp, c) + Owns(y, c) + Is(c, x.held.ptr)
  PROVE  IInv(K)'
PROOF
  <1>1. Scoped /\ Agreed(K) /\ Counted /\ Params /\ Blocks
    BY DEF IInv
  <1>2. /\ env \in [Vars -> Slot] /\ frames \in Seq(Frame) /\ leaving = {} /\ leaving' = {}
        /\ env[p].mode = "none" /\ p \in declared /\ Depth \in Nat
    BY <1>1 DEF Scoped, Working, CanBind, Bound, Depth
  <1>3. env' \in [Vars -> Slot] /\ env'[p] = y /\ \A w \in Vars : w # p => env'[w] = env[w]
    BY <1>2
  <1>4. /\ frames' \in Seq(Frame) /\ Depth' = Depth + 1 /\ frames'[Depth + 1] = x
        /\ \A d \in 1..Depth : frames'[d] = frames[d] /\ d \in 1..(Depth + 1)
        /\ \A d \in 1..(Depth + 1) : d = Depth + 1 \/ d \in 1..Depth
        /\ Depth + 1 \in 1..(Depth + 1)
    BY <1>2 DEF Depth
  <1>5. Scoped'
    <2>1. temp' \in Value
      BY DEF Value
    <2>2. \A w \in Vars : Bound(w)' => w \in declared'
      BY <1>1, <1>2, <1>3 DEF Scoped, Bound
    <2>3. ASSUME NEW w \in Vars, Bound(w)' PROVE env'[w].depth <= Depth'
      <3>1. CASE w = p
        BY <1>2, <1>3, <1>4, <3>1
      <3>2. CASE w # p
        <4>1. env[w] \in Slot /\ env[w].mode # "none" /\ env'[w] = env[w]
          BY <1>2, <1>3, <2>3, <3>2 DEF Bound
        <4>2. env[w].depth \in 0..MaxDepth /\ env[w].depth <= Depth
          BY <1>1, <1>2, <4>1, Typed DEF Scoped, Bound
        <4> QED
          BY <1>2, <1>4, <4>1, <4>2, ArcAssumption
      <3> QED
        BY <3>1, <3>2
    <2>4. Depth' <= MaxDepth
      BY <1>2, <1>4, ArcAssumption
    <2> QED
      BY <1>1, <1>2, <1>3, <1>4, <2>1, <2>2, <2>3, <2>4 DEF Scoped
  <1>6. Agreed(K)'
    <2>1. \A w \in Vars : Bound(w)' => K[Ptr(w)'] = Kind(w)
      BY <1>1, <1>3 DEF Agreed, Bound, Ptr
    <2>2. ASSUME NEW d \in 1..Depth', frames'[d].held # NoHeld
          PROVE  K[frames'[d].held.ptr] = frames'[d].held.kind
      <3>1. CASE d = Depth + 1
        BY <1>4, <2>2, <3>1
      <3>2. CASE d # Depth + 1
        <4>1. d \in 1..Depth /\ frames'[d] = frames[d]
          BY <1>4, <3>2
        <4> QED
          BY <1>1, <2>2, <4>1 DEF Agreed
      <3> QED
        BY <3>1, <3>2
    <2> QED
      BY <1>1, <2>1, <2>2 DEF Agreed
  <1>7. Params'
    <2> SUFFICES ASSUME NEW w \in Vars, env'[w].mode = "param"
                 PROVE  /\ env'[w].depth \in 1..Depth'
                        /\ frames'[env'[w].depth].held.ptr = env'[w].ptr
      BY <1>2 DEF Params, Ptr
    <2>1. CASE w = p
      BY <1>3, <1>4, <2>1
    <2>2. CASE w # p
      <3>1. env[w].depth \in 1..Depth /\ frames[env[w].depth].held.ptr = env[w].ptr
        BY <1>1, <1>3, <2>2 DEF Params, Ptr
      <3> QED
        BY <1>3, <1>4, <2>2, <3>1
    <2> QED
      BY <2>1, <2>2
  <1>8. Blocks'
    BY <1>1, <1>4 DEF Blocks
  <1>9. Pending'
    BY DEF Pending, NoTemp
  <1>10. ASSUME NEW c \in Addr PROVE Outer(heap', c) = Holders(env', frames', temp', owed', c)
    <2>1. Outer(heap, c) = Cardinality(OwnersOf(env, c)) + Cardinality(CallsOf(frames, c))
                           + Keeps(temp, c) + Is(c, owed.ptr)
      BY <1>1 DEF Counted, Holders
    <2>2. Keeps(temp', c) = 0 /\ Keeps(temp, c) \in Int /\ Is(c, owed.ptr) \in Int
          /\ Owns(env[p], c) = 0 /\ Owns(y, c) \in Int /\ Is(c, x.held.ptr) \in Int
      BY <1>2 DEF NoTemp, Keeps, Is, Owns, Owning
    <2>3. Cardinality(OwnersOf(env, c)) \in Nat /\ Cardinality(CallsOf(frames, c)) \in Nat
      BY <1>2, HoldersFinite
    <2>4. OthersKeep(env, env', p)
      BY <1>3 DEF OthersKeep
    <2>5. Cardinality(OwnersOf(env', c)) = Cardinality(OwnersOf(env, c)) - Owns(env[p], c) + Owns(y, c)
      <3> DEFINE g == env'
                 e == env
      <3>1. OthersKeep(e, g, p) /\ g[p] = y
        BY <1>3, <2>4
      <3> HIDE DEF g, e
      <3>2. Cardinality(OwnersOf(g, c)) = Cardinality(OwnersOf(e, c)) - Owns(e[p], c) + Owns(g[p], c)
        BY <3>1, OwnersRebound
      <3> QED
        BY <3>1, <3>2 DEF g, e
    <2>6. Cardinality(CallsOf(frames', c)) = Cardinality(CallsOf(frames, c)) + Is(c, x.held.ptr)
      BY <1>2, CallsPushed
    <2> QED
      BY <2>1, <2>2, <2>3, <2>5, <2>6 DEF Holders
  <1>11. Counted'
    BY <1>10 DEF Counted
  <1> QED
    BY <1>5, <1>6, <1>7, <1>8, <1>9, <1>11 DEF IInv

LEMMA CallBorrowingStep ==
  ASSUME NEW K \in Kinds, IInv(K), NEW p \in Vars, CallBorrowing(p)
  PROVE  IInv(K)'
PROOF
  <1> DEFINE y == [ptr |-> temp.ptr, mode |-> "param", depth |-> Depth + 1]
             x == [call |-> TRUE, held |-> [ptr |-> temp.ptr, kind |-> temp.kind]]
  <1>1. /\ Working /\ temp # NoTemp /\ temp.kind = Kind(p) /\ CanBind(p) /\ Depth < MaxDepth
        /\ temp' = NoTemp /\ heap' = RetainTemp(heap)
        /\ env' = [env EXCEPT ![p] = y] /\ frames' = Append(frames, x)
        /\ UNCHANGED <<declared, leaving, owed>>
    BY DEF CallBorrowing, HasTemp
  <1>2. PICK h : h = RetainTemp(heap)
    OBVIOUS
  <1>3. /\ temp.ptr \in Addr /\ K[temp.ptr] = temp.kind /\ Shaped(h, K)
        /\ \A c \in Addr : /\ Outer(h, c) = Outer(heap, c) - Keeps(temp, c) + Is(c, temp.ptr)
                           /\ Outer(heap, c) \in Nat /\ Keeps(temp, c) \in {0, 1}
    BY <1>1, <1>2, TempRetained
  <1>4. Depth \in Nat /\ Depth + 1 \in 0..MaxDepth
    BY <1>1, ArcAssumption DEF IInv, Scoped, Depth
  <1>5. /\ y \in Slot /\ y.depth = Depth + 1 /\ y.mode = "param" /\ y.ptr = temp.ptr
        /\ x \in Frame /\ x.call /\ x.held.ptr = temp.ptr /\ x.held.kind = temp.kind
    <2>1. temp.kind \in KindNames
      BY <1>1, KindOf
    <2> QED
      BY <1>3, <1>4, <2>1 DEF Slot, Frame, Held
  <1> HIDE DEF x, y
  <1>6. \A c \in Addr : Outer(heap', c) =
                          Outer(heap, c) - Keeps(temp, c) + Owns(y, c) + Is(c, x.held.ptr)
    <2> SUFFICES ASSUME NEW c \in Addr
                 PROVE  Outer(heap', c) =
                          Outer(heap, c) - Keeps(temp, c) + Owns(y, c) + Is(c, x.held.ptr)
      OBVIOUS
    <2>1. Owns(y, c) = 0 /\ Is(c, x.held.ptr) = Is(c, temp.ptr) /\ Is(c, temp.ptr) \in Int
      BY <1>5 DEF Owns, Owning, Is
    <2> QED
      BY <1>1, <1>2, <1>3, <2>1
  <1>7. Shaped(heap', K) /\ K[y.ptr] = Kind(p) /\ K[x.held.ptr] = x.held.kind
    BY <1>1, <1>2, <1>3, <1>5
  <1> QED
    BY <1>1, <1>5, <1>6, <1>7, Called

LEMMA CallMutableStep ==
  ASSUME NEW K \in Kinds, IInv(K), NEW p \in Vars, CallMutable(p)
  PROVE  IInv(K)'
PROOF
  <1> DEFINE y == [ptr |-> temp.ptr, mode |-> "mutparam", depth |-> Depth + 1]
             o == IF temp.owned THEN [ptr |-> temp.ptr, kind |-> temp.kind] ELSE NoHeld
             x == [call |-> TRUE, held |-> o]
  <1>1. /\ Working /\ temp # NoTemp /\ temp.kind = Kind(p) /\ CanBind(p) /\ Depth < MaxDepth
        /\ temp' = NoTemp /\ heap' = Retain(heap, temp.ptr)
        /\ env' = [env EXCEPT ![p] = y] /\ frames' = Append(frames, x)
        /\ UNCHANGED <<declared, leaving, owed>>
    BY DEF CallMutable, HasTemp
  <1>2. PICK a : a = temp.ptr
    OBVIOUS
  <1>3. /\ a \in Addr /\ K[a] = temp.kind /\ Shaped(heap, K)
        /\ \A c \in Addr : Outer(heap, c) \in Nat
        /\ temp.owned \in BOOLEAN /\ temp.kind \in KindNames
    <2>1. temp \in Value
      BY DEF IInv, Scoped
    <2> QED
      BY <1>1, <1>2, <2>1, Alive, Typed DEF IInv, Agreed
  <1>4. /\ Shaped(Retain(heap, a), K)
        /\ \A c \in Addr : Outer(Retain(heap, a), c) = Outer(heap, c) + Is(c, a)
    BY <1>3, RetainOp
  <1>5. Depth \in Nat /\ Depth + 1 \in 0..MaxDepth
    BY <1>1, ArcAssumption DEF IInv, Scoped, Depth
  <1>6. y \in Slot /\ y.depth = Depth + 1 /\ y.mode = "mutparam" /\ y.ptr = a
    BY <1>2, <1>3, <1>5 DEF Slot
  <1>7. x \in Frame /\ x.call /\ x.held = o /\ o \in Held
    BY <1>2, <1>3 DEF Frame, Held
  <1>8. o # NoHeld => K[o.ptr] = o.kind
    BY <1>2, <1>3
  <1>9. \A c \in Addr : Is(c, o.ptr) = Keeps(temp, c) /\ Keeps(temp, c) \in {0, 1}
    <2>1. CASE temp.owned
      BY <1>2, <2>1 DEF Is, Keeps
    <2>2. CASE ~temp.owned
      BY <2>2, ArcAssumption DEF Is, Keeps, NoHeld
    <2> QED
      BY <2>1, <2>2
  <1> HIDE DEF x, y, o
  <1>10. \A c \in Addr : Outer(heap', c) =
                           Outer(heap, c) - Keeps(temp, c) + Owns(y, c) + Is(c, x.held.ptr)
    <2> SUFFICES ASSUME NEW c \in Addr
                 PROVE  Outer(heap', c) =
                          Outer(heap, c) - Keeps(temp, c) + Owns(y, c) + Is(c, x.held.ptr)
      OBVIOUS
    <2>1. Owns(y, c) = Is(c, a) /\ Is(c, a) \in Int
      BY <1>6 DEF Owns, Owning, Is
    <2>2. Outer(heap', c) = Outer(heap, c) + Is(c, a) /\ Outer(heap, c) \in Nat
      BY <1>1, <1>2, <1>3, <1>4
    <2>3. Is(c, x.held.ptr) = Keeps(temp, c) /\ Keeps(temp, c) \in {0, 1}
      BY <1>7, <1>9
    <2> QED
      BY <2>1, <2>2, <2>3
  <1>11. K[y.ptr] = Kind(p) /\ y.mode # "none" /\ y.mode # "param"
    BY <1>1, <1>3, <1>6
  <1>12. Shaped(heap', K)
    BY <1>1, <1>2, <1>4
  <1>13. x.held # NoHeld => K[x.held.ptr] = x.held.kind
    BY <1>7, <1>8
  <1> QED
    BY <1>1, <1>6, <1>7, <1>10, <1>11, <1>12, <1>13, Called

LEMMA EnterBlockStep ==
  ASSUME NEW K \in Kinds, IInv(K), EnterBlock
  PROVE  IInv(K)'
PROOF
  <1> DEFINE x == [call |-> FALSE, held |-> NoHeld]
  <1>1. /\ Working /\ temp = NoTemp /\ Depth < MaxDepth /\ frames' = Append(frames, x)
        /\ UNCHANGED <<declared, heap, env, temp, leaving, owed>>
    BY DEF EnterBlock, AtStmt
  <1>2. Scoped /\ Agreed(K) /\ Counted /\ Params /\ Blocks /\ frames \in Seq(Frame) /\ Depth \in Nat
    BY DEF IInv, Scoped, Depth
  <1>3. x \in Frame /\ ~x.call /\ x.held = NoHeld
    BY DEF Frame, Held
  <1> HIDE DEF x
  <1>4. /\ frames' \in Seq(Frame) /\ Depth' = Depth + 1 /\ frames'[Depth + 1] = x
        /\ \A d \in 1..Depth : frames'[d] = frames[d] /\ d \in 1..(Depth + 1)
        /\ \A d \in 1..(Depth + 1) : d = Depth + 1 \/ d \in 1..Depth
    BY <1>1, <1>2, <1>3 DEF Depth
  <1>5. Scoped'
    <2>1. ASSUME NEW w \in Vars, Bound(w), w \notin leaving PROVE env[w].depth <= Depth'
      <3>1. env[w] \in Slot /\ env[w].depth <= Depth
        BY <1>2, <2>1 DEF Scoped
      <3>2. env[w].depth \in 0..MaxDepth
        BY <2>1, <3>1, Typed DEF Bound
      <3> QED
        BY <1>2, <1>4, <3>1, <3>2, ArcAssumption
    <2>2. Depth' <= MaxDepth
      BY <1>1, <1>2, <1>4, ArcAssumption
    <2> QED
      BY <1>1, <1>2, <1>4, <2>1, <2>2 DEF Scoped, Bound
  <1>6. Agreed(K)'
    BY <1>1, <1>2, <1>3, <1>4 DEF Agreed, Bound, Ptr
  <1>7. Params' /\ Blocks'
    BY <1>1, <1>2, <1>3, <1>4 DEF Params, Blocks, Ptr
  <1>8. Pending'
    BY <1>1 DEF Pending, NoTemp
  <1>9. ASSUME NEW c \in Addr PROVE Outer(heap', c) = Holders(env', frames', temp', owed', c)
    <2>1. Outer(heap, c) = Holders(env, frames, temp, owed, c)
      BY <1>2 DEF Counted
    <2>2. Is(c, x.held.ptr) = 0
      BY <1>3, ArcAssumption DEF Is, NoHeld
    <2>3. Cardinality(CallsOf(frames, c)) \in Nat
      BY <1>2, HoldersFinite
    <2>4. Cardinality(CallsOf(frames', c)) = Cardinality(CallsOf(frames, c)) + Is(c, x.held.ptr)
      BY <1>1, <1>2, <1>3, CallsPushed
    <2>5. Cardinality(CallsOf(frames', c)) = Cardinality(CallsOf(frames, c))
      BY <2>2, <2>3, <2>4
    <2> QED
      BY <1>1, <2>1, <2>5 DEF Holders
  <1>10. Counted'
    BY <1>9 DEF Counted
  <1>11. Shaped(heap', K)
    BY <1>1 DEF IInv
  <1> QED
    BY <1>5, <1>6, <1>7, <1>8, <1>10, <1>11 DEF IInv

\* The frames from n on are left: variables of theirs are unbound, or still to be released.
LEMMA Left ==
  ASSUME NEW K \in Kinds, IInv(K), Shaped(heap', K), Working, NEW n \in 1..Depth,
         \A d \in 1..Depth : d > n => frames[d].held = NoHeld,
         frames' = SubSeq(frames, 1, n - 1), owed' = frames[n].held, declared' = declared,
         env' \in [Vars -> Slot],
         \A v \in Vars : env'[v] = env[v] \/ env'[v] = Unbound,
         leaving' \subseteq {v \in Vars : env'[v].mode \in Owning},
         \A v \in Vars : Bound(v)' => v \in leaving' \/ env[v].depth <= n - 1,
         temp' \in Value, temp' # NoTemp => temp'.owned /\ temp'.name = Nil /\ K[temp'.ptr] = temp'.kind,
         \A c \in Addr : Outer(heap', c) =
           Outer(heap, c) - Keeps(temp, c) + Keeps(temp', c)
             - Cardinality(OwnersOf(env, c)) + Cardinality(OwnersOf(env', c))
  PROVE  IInv(K)'
PROOF
  <1>1. /\ Scoped /\ Agreed(K) /\ Counted /\ Params /\ Blocks /\ frames \in Seq(Frame)
        /\ env \in [Vars -> Slot] /\ owed = NoHeld
    BY DEF IInv, Scoped, Working
  <1>2. /\ Depth \in Nat /\ n \in Nat /\ n - 1 \in Nat /\ n <= Depth /\ Depth = Len(frames)
        /\ Depth <= MaxDepth /\ MaxDepth \in Nat
    BY <1>1, ArcAssumption DEF Depth, Scoped
  <1>3. /\ frames' \in Seq(Frame) /\ Depth' = n - 1
        /\ \A d \in 1..(n - 1) : frames'[d] = frames[d] /\ d \in 1..Depth
    BY <1>1, <1>2 DEF Depth
  <1>4. frames[n] \in Frame /\ frames[n].held \in Held
    <2>1. frames[n] \in Frame
      BY <1>1, <1>2
    <2> QED
      BY <2>1 DEF Frame
  <1>5. \A v \in Vars : Bound(v)' => env'[v] = env[v] /\ Bound(v)
    BY DEF Bound, Unbound
  <1>6. Scoped'
    <2>1. \A v \in Vars : Bound(v)' => v \in declared'
      BY <1>1, <1>5 DEF Scoped
    <2>2. \A v \in Vars : Bound(v)' /\ v \notin leaving' => env'[v].depth <= Depth'
      BY <1>3, <1>5
    <2>3. Depth' <= MaxDepth
      BY <1>2, <1>3
    <2> QED
      BY <1>1, <1>3, <1>4, <2>1, <2>2, <2>3 DEF Scoped
  <1>7. Agreed(K)'
    <2>1. \A v \in Vars : Bound(v)' => K[Ptr(v)'] = Kind(v)
      BY <1>1, <1>5 DEF Agreed, Ptr
    <2>2. owed' # NoHeld => K[owed'.ptr] = owed'.kind
      BY <1>1 DEF Agreed
    <2>3. ASSUME NEW d \in 1..Depth', frames'[d].held # NoHeld
          PROVE  K[frames'[d].held.ptr] = frames'[d].held.kind
      <3>1. frames'[d] = frames[d] /\ d \in 1..Depth
        BY <1>3
      <3> QED
        BY <1>1, <2>3, <3>1 DEF Agreed
    <2> QED
      BY <2>1, <2>2, <2>3 DEF Agreed
  <1>8. Params'
    <2> SUFFICES ASSUME NEW v \in Vars, env'[v].mode = "param"
                 PROVE  /\ v \notin leaving' /\ env'[v].depth \in 1..Depth'
                        /\ frames'[env'[v].depth].held.ptr = env'[v].ptr
      BY DEF Params, Ptr
    <2>1. env'[v] = env[v] /\ v \notin leaving' /\ Bound(v)'
      BY <1>5 DEF Bound, Owning
    <2>2. env[v].depth <= n - 1
      BY <2>1
    <2>3. env[v].depth \in 1..Depth /\ frames[env[v].depth].held.ptr = env[v].ptr
      BY <1>1, <2>1 DEF Params, Ptr
    <2>4. env[v].depth \in 1..(n - 1)
      BY <1>2, <2>2, <2>3
    <2> QED
      BY <1>3, <2>1, <2>3, <2>4
  <1>9. Blocks'
    <2> SUFFICES ASSUME NEW d \in 1..Depth', ~frames'[d].call PROVE frames'[d].held = NoHeld
      BY DEF Blocks
    <2>1. frames'[d] = frames[d] /\ d \in 1..Depth
      BY <1>3
    <2> QED
      BY <1>1, <2>1 DEF Blocks
  <1>10. Pending'
    BY ArcAssumption DEF Pending, NoTemp
  <1>11. ASSUME NEW c \in Addr PROVE Outer(heap', c) = Holders(env', frames', temp', owed', c)
    <2>1. Outer(heap, c) = Cardinality(OwnersOf(env, c)) + Cardinality(CallsOf(frames, c))
                           + Keeps(temp, c) + Is(c, owed.ptr)
      BY <1>1 DEF Counted, Holders
    <2>2. Is(c, owed.ptr) = 0
      BY <1>1, ArcAssumption DEF Is, NoHeld
    <2>3. Keeps(temp', c) \in Int /\ Keeps(temp, c) \in Int /\ Is(c, owed'.ptr) \in Int
      BY DEF Keeps, Is
    <2>4. /\ Cardinality(OwnersOf(env, c)) \in Nat /\ Cardinality(CallsOf(frames, c)) \in Nat
          /\ Cardinality(OwnersOf(env', c)) \in Nat
      BY <1>1, HoldersFinite
    <2>5. Cardinality(CallsOf(frames', c)) = Cardinality(CallsOf(frames, c)) - Is(c, owed'.ptr)
      BY <1>1, <1>2, CallsPopped
    <2> QED
      BY <2>1, <2>2, <2>3, <2>4, <2>5 DEF Holders
  <1>12. Counted'
    BY <1>11 DEF Counted
  <1> QED
    BY <1>6, <1>7, <1>8, <1>9, <1>10, <1>12 DEF IInv

\* A value that leaves a frame is owned by whoever comes next.
LEMMA Handed ==
  ASSUME NEW K \in Kinds, IInv(K),
         temp' = IF temp = NoTemp THEN temp ELSE [temp EXCEPT !.owned = TRUE, !.name = Nil]
  PROVE  /\ temp' \in Value
         /\ temp' # NoTemp => temp'.owned /\ temp'.name = Nil /\ K[temp'.ptr] = temp'.kind
         /\ \A c \in Addr : Keeps(temp', c) = Is(c, temp.ptr) /\ Is(c, temp.ptr) \in {0, 1}
PROOF
  <1>1. temp \in Value /\ Agreed(K)
    BY DEF IInv, Scoped
  <1>2. CASE temp = NoTemp
    <2>1. temp' = NoTemp /\ temp.ptr = Nil /\ ~temp'.owned
      BY <1>2 DEF NoTemp
    <2>2. \A c \in Addr : Keeps(temp', c) = Is(c, temp.ptr) /\ Is(c, temp.ptr) \in {0, 1}
      BY <2>1, ArcAssumption DEF Keeps, Is
    <2> QED
      BY <1>1, <1>2, <2>1, <2>2
  <1>3. CASE temp # NoTemp
    <2>1. temp \in [ptr : Addr, kind : KindNames, owned : BOOLEAN, name : Vars \cup {Nil}]
      BY <1>1, <1>3 DEF Value
    <2>2. /\ temp' \in [ptr : Addr, kind : KindNames, owned : BOOLEAN, name : Vars \cup {Nil}]
          /\ temp'.ptr = temp.ptr /\ temp'.kind = temp.kind /\ temp'.owned /\ temp'.name = Nil
      BY <1>3, <2>1
    <2>3. temp' \in Value /\ K[temp'.ptr] = temp'.kind
      BY <1>1, <1>3, <2>2 DEF Value, Agreed
    <2>4. \A c \in Addr : Keeps(temp', c) = Is(c, temp.ptr) /\ Is(c, temp.ptr) \in {0, 1}
      BY <2>2 DEF Keeps, Is
    <2> QED
      BY <2>2, <2>3, <2>4
  <1> QED
    BY <1>2, <1>3

LEMMA EndBlockStep ==
  ASSUME NEW K \in Kinds, IInv(K), EndBlock
  PROVE  IInv(K)'
PROOF
  <1>1. /\ Working /\ Depth > 0 /\ declared' = declared
        /\ heap' = (IF temp = NoTemp THEN heap ELSE RetainTemp(heap))
        /\ temp' = (IF temp = NoTemp THEN temp ELSE [temp EXCEPT !.owned = TRUE, !.name = Nil])
        /\ leaving' = {v \in Vars : env[v].depth = Depth /\ env[v].mode \in {"local", "mutparam"}}
        /\ env' = [v \in Vars |-> IF env[v].depth = Depth /\ env[v].mode = "param"
                                  THEN Unbound ELSE env[v]]
        /\ owed' = frames[Depth].held /\ frames' = SubSeq(frames, 1, Depth - 1)
    BY DEF EndBlock
  <1>2. Scoped /\ Counted /\ env \in [Vars -> Slot] /\ frames \in Seq(Frame) /\ leaving = {}
        /\ Shaped(heap, K)
    BY <1>1 DEF IInv, Scoped, Working
  <1>3. Depth \in Nat /\ Depth \in 1..Depth /\ \A d \in 1..Depth : ~(d > Depth)
    BY <1>1, <1>2 DEF Depth
  <1>4. env' \in [Vars -> Slot] /\ \A v \in Vars : env'[v] = env[v] \/ env'[v] = Unbound
    BY <1>1, <1>2 DEF Slot
  <1>5. leaving' \subseteq {v \in Vars : env'[v].mode \in Owning}
    BY <1>1 DEF Owning
  <1>6. ASSUME NEW v \in Vars, Bound(v)', v \notin leaving' PROVE env[v].depth <= Depth - 1
    <2>1. env'[v] = env[v] /\ env[v].mode # "none" /\ ~(env[v].depth = Depth /\ env[v].mode = "param")
      BY <1>1, <1>6 DEF Bound, Unbound
    <2>2. env[v].mode \in {"local", "param", "mutparam"} /\ env[v].depth \in 0..MaxDepth
      BY <1>2, <2>1, Typed
    <2>3. env[v].depth # Depth /\ env[v].depth <= Depth
      BY <1>1, <1>2, <1>6, <2>1, <2>2 DEF Scoped, Bound
    <2> QED
      BY <1>3, <2>2, <2>3, ArcAssumption
  <1>7. /\ temp' \in Value
        /\ temp' # NoTemp => temp'.owned /\ temp'.name = Nil /\ K[temp'.ptr] = temp'.kind
        /\ \A c \in Addr : Keeps(temp', c) = Is(c, temp.ptr) /\ Is(c, temp.ptr) \in {0, 1}
    BY <1>1, Handed
  <1>8. /\ Shaped(heap', K)
        /\ \A c \in Addr : Outer(heap', c) = Outer(heap, c) - Keeps(temp, c) + Keeps(temp', c)
                           /\ Outer(heap, c) \in Int /\ Keeps(temp, c) \in {0, 1}
    <2>1. CASE temp = NoTemp
      <3>1. heap' = heap /\ temp' = temp
        BY <1>1, <2>1
      <3>2. \A c \in Addr : Keeps(temp, c) \in {0, 1} /\ Outer(heap, c) \in Int
        BY <1>2, ShapedCell DEF Keeps
      <3> QED
        BY <1>2, <3>1, <3>2
    <2>2. CASE temp # NoTemp
      <3>1. PICK h : h = RetainTemp(heap)
        OBVIOUS
      <3>2. /\ Shaped(h, K)
            /\ \A c \in Addr : /\ Outer(h, c) = Outer(heap, c) - Keeps(temp, c) + Is(c, temp.ptr)
                               /\ Outer(heap, c) \in Nat /\ Keeps(temp, c) \in {0, 1}
        BY <2>2, <3>1, TempRetained
      <3>3. heap' = h
        BY <1>1, <2>2, <3>1
      <3> QED
        BY <1>7, <3>2, <3>3
    <2> QED
      BY <2>1, <2>2
  <1>9. \A c \in Addr : Outer(heap', c) =
          Outer(heap, c) - Keeps(temp, c) + Keeps(temp', c)
            - Cardinality(OwnersOf(env, c)) + Cardinality(OwnersOf(env', c))
    <2> SUFFICES ASSUME NEW c \in Addr
                 PROVE  Outer(heap', c) =
                          Outer(heap, c) - Keeps(temp, c) + Keeps(temp', c)
                            - Cardinality(OwnersOf(env, c)) + Cardinality(OwnersOf(env', c))
      OBVIOUS
    <2>1. OwnersOf(env', c) = OwnersOf(env, c)
      BY <1>1 DEF OwnersOf, Owning, Unbound
    <2>2. Cardinality(OwnersOf(env, c)) \in Nat
      BY <1>2, HoldersFinite
    <2>3. Outer(heap', c) \in Int
      BY <1>7, <1>8
    <2> QED
      BY <1>7, <1>8, <2>1, <2>2, <2>3
  <1> QED
    BY <1>1, <1>3, <1>4, <1>5, <1>6, <1>7, <1>8, <1>9, Left

\* The innermost call of a function that is running, and the blocks opened in it.
LEMMA Innermost ==
  ASSUME Scoped, Blocks, Base > 0
  PROVE  Base \in 1..Depth /\ \A d \in 1..Depth : d > Base => frames[d].held = NoHeld
PROOF
  <1>1. Depth \in Nat
    BY DEF Scoped, Depth
  <1>2. CallDepths # {} /\ CallDepths \in SUBSET (0..Depth)
    BY <1>1 DEF Base, CallDepths
  <1>3. PICK m \in CallDepths : \A k \in CallDepths : k <= m
    BY <1>1, <1>2, Greatest
  <1>4. Base \in CallDepths /\ \A k \in CallDepths : k <= Base
    BY <1>2, <1>3 DEF Base
  <1>5. ASSUME NEW d \in 1..Depth, d > Base PROVE frames[d].held = NoHeld
    <2>1. d \notin CallDepths
      <3>1. Base \in Nat /\ d \in Nat
        BY <1>1, <1>4 DEF CallDepths
      <3> QED
        BY <1>4, <1>5, <3>1
    <2> QED
      BY <2>1 DEF CallDepths, Blocks
  <1> QED
    BY <1>4, <1>5 DEF CallDepths

LEMMA ReturnStep ==
  ASSUME Forms = {}, NEW K \in Kinds, IInv(K), Return
  PROVE  IInv(K)'
PROOF
  <1> DEFINE mine == {v \in Vars : Bound(v) /\ env[v].depth >= Base}
             lost == {v \in mine : env[v].mode = "local"}
             ofParam == temp.name # Nil /\ env[temp.name].mode # "local"
  <1>1. /\ Working /\ Base > 0 /\ declared' = declared
        /\ lost \subseteq {temp.name}
        /\ temp = NoTemp \/ temp.owned \/ temp.name # Nil
        /\ heap' = (IF ~temp.owned /\ temp.name # Nil /\ ofParam THEN Retain(heap, temp.ptr) ELSE heap)
        /\ temp' = (IF temp = NoTemp THEN temp ELSE [temp EXCEPT !.owned = TRUE, !.name = Nil])
        /\ leaving' = {v \in mine : env[v].mode = "mutparam"}
        /\ env' = [v \in Vars |-> IF v \in mine \ leaving' THEN Unbound ELSE env[v]]
        /\ owed' = frames[Base].held /\ frames' = SubSeq(frames, 1, Base - 1)
    BY DEF Return, Uses
  <1>2. /\ Scoped /\ Pending /\ Counted /\ env \in [Vars -> Slot] /\ frames \in Seq(Frame) /\ leaving = {}
        /\ Shaped(heap, K) /\ temp \in Value /\ Blocks
    BY <1>1 DEF IInv, Scoped, Working
  <1>3. Base \in 1..Depth /\ \A d \in 1..Depth : d > Base => frames[d].held = NoHeld
    BY <1>1, <1>2, Innermost
  <1>4. env' \in [Vars -> Slot] /\ \A v \in Vars : env'[v] = env[v] \/ env'[v] = Unbound
    BY <1>1, <1>2 DEF Slot
  <1>5. leaving' \subseteq {v \in Vars : env'[v].mode \in Owning}
    BY <1>1 DEF Owning
  <1>6. ASSUME NEW v \in Vars, Bound(v)', v \notin leaving' PROVE env[v].depth <= Base - 1
    <2>1. env'[v] = env[v] /\ v \notin mine
      BY <1>1, <1>6 DEF Bound, Unbound
    <2>2. env[v].depth \in 0..MaxDepth /\ ~(env[v].depth >= Base)
      BY <1>2, <1>6, <2>1, Typed DEF Bound
    <2> QED
      BY <1>3, <2>2, ArcAssumption
  <1>7. /\ temp' \in Value
        /\ temp' # NoTemp => temp'.owned /\ temp'.name = Nil /\ K[temp'.ptr] = temp'.kind
        /\ \A c \in Addr : Keeps(temp', c) = Is(c, temp.ptr) /\ Is(c, temp.ptr) \in {0, 1}
    BY <1>1, Handed
  <1>8. \A c \in Addr : Outer(heap, c) \in Int /\ Cardinality(OwnersOf(env, c)) \in Nat
    BY <1>2, ShapedCell, HoldersFinite
  <1>9. \A v \in Vars \ {temp.name} : \A c \in Addr : Owns(env'[v], c) = Owns(env[v], c)
    <2> SUFFICES ASSUME NEW v \in Vars \ {temp.name}, NEW c \in Addr, env'[v] # env[v]
                 PROVE  Owns(env'[v], c) = Owns(env[v], c)
      OBVIOUS
    <2>1. env'[v] = Unbound /\ v \in mine \ leaving'
      BY <1>1
    <2>2. env[v].mode # "local" /\ env[v].mode # "mutparam"
      BY <1>1, <2>1
    <2> QED
      BY <2>1, <2>2 DEF Owns, Owning, Unbound
  <1>10. /\ Shaped(heap', K)
         /\ \A c \in Addr : Outer(heap', c) =
              Outer(heap, c) - Keeps(temp, c) + Keeps(temp', c)
                - Cardinality(OwnersOf(env, c)) + Cardinality(OwnersOf(env', c))
    <2>1. CASE temp.name = Nil
      <3>1. heap' = heap /\ Nil \notin Vars /\ (temp = NoTemp \/ temp.owned)
        BY <1>1, <2>1, ArcAssumption DEF Vars, Nested
      <3>2. ASSUME NEW c \in Addr PROVE OwnersOf(env', c) = OwnersOf(env, c)
        <4> DEFINE g == env'
                   e == env
        <4>1. \A v \in Vars : Owns(g[v], c) = Owns(e[v], c)
          BY <1>9, <2>1, <3>1
        <4> HIDE DEF g, e
        <4>2. OwnersOf(g, c) = OwnersOf(e, c)
          BY <4>1, OwnersSame
        <4> QED
          BY <4>2 DEF g, e
      <3>3. \A c \in Addr : Keeps(temp, c) = Is(c, temp.ptr)
        BY <3>1, ArcAssumption DEF Keeps, Is, NoTemp
      <3>4. ASSUME NEW c \in Addr
            PROVE  Outer(heap', c) =
                     Outer(heap, c) - Keeps(temp, c) + Keeps(temp', c)
                       - Cardinality(OwnersOf(env, c)) + Cardinality(OwnersOf(env', c))
        BY <1>7, <1>8, <3>1, <3>2, <3>3
      <3> QED
        BY <1>2, <3>1, <3>4
    <2>2. CASE temp.name # Nil
      <3>1. PICK u \in Vars : u = temp.name
        BY <1>2, <2>2 DEF Pending
      <3>2. /\ temp # NoTemp /\ ~temp.owned /\ temp.ptr \in Addr
            /\ Visible(u) /\ Ptr(u) = temp.ptr
        BY <1>2, <2>2, <3>1, Typed DEF Pending
      <3>3. u \in mine /\ env[u].ptr = temp.ptr
        BY <3>2 DEF Visible, Ptr
      <3>4. ASSUME NEW c \in Addr
            PROVE  Cardinality(OwnersOf(env', c)) =
                     Cardinality(OwnersOf(env, c)) - Owns(env[u], c) + Owns(env'[u], c)
        <4> DEFINE g == env'
                   e == env
        <4>1. OthersKeep(e, g, u)
          BY <1>9, <3>1 DEF OthersKeep
        <4> HIDE DEF g, e
        <4>2. Cardinality(OwnersOf(g, c)) = Cardinality(OwnersOf(e, c)) - Owns(e[u], c) + Owns(g[u], c)
          BY <4>1, OwnersRebound
        <4> QED
          BY <4>2 DEF g, e
      <3>5. \A c \in Addr : Keeps(temp, c) = 0
        BY <3>2 DEF Keeps
      <3>6. CASE env[u].mode = "local"
        <4>1. heap' = heap /\ env'[u] = Unbound
          BY <1>1, <3>1, <3>3, <3>6
        <4>2. ASSUME NEW c \in Addr PROVE Owns(env[u], c) = Is(c, temp.ptr) /\ Owns(env'[u], c) = 0
          BY <3>3, <3>6, <4>1 DEF Owns, Owning, Is, Unbound
        <4>3. ASSUME NEW c \in Addr
              PROVE  Outer(heap', c) =
                       Outer(heap, c) - Keeps(temp, c) + Keeps(temp', c)
                         - Cardinality(OwnersOf(env, c)) + Cardinality(OwnersOf(env', c))
          BY <1>7, <1>8, <3>4, <3>5, <4>1, <4>2
        <4> QED
          BY <1>2, <4>1, <4>3
      <3>7. CASE env[u].mode # "local"
        <4>1. PICK a \in Addr : a = temp.ptr
          BY <3>2
        <4>2. heap' = Retain(heap, a)
          BY <1>1, <2>2, <3>1, <3>2, <3>7, <4>1
        <4>3. /\ Shaped(Retain(heap, a), K)
              /\ \A c \in Addr : Outer(Retain(heap, a), c) = Outer(heap, c) + Is(c, a)
          BY <1>2, RetainOp
        <4>4. ASSUME NEW c \in Addr
              PROVE  Owns(env'[u], c) = Owns(env[u], c) /\ Owns(env[u], c) \in {0, 1}
          <5>1. CASE env'[u] = env[u]
            BY <5>1 DEF Owns
          <5>2. CASE env'[u] # env[u]
            <6>1. env'[u] = Unbound /\ u \in mine \ leaving'
              BY <1>1, <5>2
            <6>2. env[u].mode # "mutparam"
              BY <1>1, <6>1
            <6> QED
              BY <3>7, <6>1, <6>2 DEF Owns, Owning, Unbound
          <5> QED
            BY <5>1, <5>2
        <4>5. ASSUME NEW c \in Addr
              PROVE  Outer(heap', c) =
                       Outer(heap, c) - Keeps(temp, c) + Keeps(temp', c)
                         - Cardinality(OwnersOf(env, c)) + Cardinality(OwnersOf(env', c))
          <5>1. Outer(heap', c) = Outer(heap, c) + Keeps(temp', c) /\ Keeps(temp', c) \in {0, 1}
            BY <1>7, <4>1, <4>2, <4>3
          <5>2. Cardinality(OwnersOf(env', c)) = Cardinality(OwnersOf(env, c))
            BY <1>8, <3>4, <4>4
          <5> QED
            BY <1>8, <3>5, <5>1, <5>2
        <4> QED
          BY <4>2, <4>3, <4>5
      <3> QED
        BY <3>6, <3>7
    <2> QED
      BY <2>1, <2>2
  <1> QED
    BY <1>1, <1>3, <1>4, <1>5, <1>6, <1>7, <1>10, Left

\* Nothing borrowed is pending while a frame ends.
LEMMA Settled ==
  ASSUME NEW K \in Kinds, IInv(K), ~Working
  PROVE  (temp = NoTemp \/ temp.owned) /\ temp.name = Nil
PROOF
  BY DEF IInv, Pending, NoTemp

LEMMA ReleaseLocalStep ==
  ASSUME NEW K \in Kinds, IInv(K), NEW v \in Vars, ReleaseLocal(v)
  PROVE  IInv(K)'
PROOF
  <1>1. /\ v \in leaving /\ heap' = Release(heap, Kind(v), Ptr(v))
        /\ env' = [env EXCEPT ![v] = Unbound] /\ leaving' = leaving \ {v}
        /\ UNCHANGED <<declared, frames, temp, owed>>
    BY DEF ReleaseLocal
  <1>2. /\ Scoped /\ Agreed(K) /\ Counted /\ Params /\ Blocks /\ Shaped(heap, K)
        /\ env \in [Vars -> Slot] /\ frames \in Seq(Frame)
    BY DEF IInv, Scoped
  <1>3. env[v].mode \in Owning /\ Bound(v)
    BY <1>1, <1>2 DEF Scoped, Owning, Bound
  <1>4. PICK a : a = Ptr(v)
    OBVIOUS
  <1>5. a \in Addr /\ heap[a].rc > 0 /\ K[a] = Kind(v) /\ \A c \in Addr : Outer(heap, c) \in Nat
    BY <1>2, <1>3, <1>4, Alive DEF Agreed
  <1>6. /\ Shaped(heap', K)
        /\ \A c \in Addr : Outer(heap', c) = Outer(heap, c) - Is(c, a)
    <2>1. \A c \in Addr : Outer(heap, c) >= 0
      BY <1>5
    <2>2. /\ Shaped(Release(heap, K[a], a), K)
          /\ \A c \in Addr : Outer(Release(heap, K[a], a), c) = Outer(heap, c) - Is(c, a)
      BY <1>2, <1>5, <2>1, ReleaseOp
    <2> QED
      BY <1>1, <1>4, <1>5, <2>2
  <1>7. /\ env' \in [Vars -> Slot] /\ env'[v] = Unbound
        /\ \A w \in Vars : w # v => env'[w] = env[w]
    BY <1>1, <1>2 DEF Slot
  <1>8. ~Bound(v)' /\ \A w \in Vars : Bound(w)' => w # v /\ env'[w] = env[w] /\ Bound(w)
    BY <1>7 DEF Bound, Unbound
  <1>9. Scoped'
    <2>1. \A w \in Vars : Bound(w)' /\ w \notin leaving' => env'[w].depth <= Depth'
      BY <1>1, <1>2, <1>8 DEF Scoped, Depth
    <2>2. leaving' \subseteq {w \in Vars : env'[w].mode \in Owning}
      BY <1>1, <1>2, <1>7 DEF Scoped
    <2> QED
      BY <1>1, <1>2, <1>7, <1>8, <2>1, <2>2 DEF Scoped, Depth
  <1>10. Agreed(K)'
    BY <1>1, <1>2, <1>8 DEF Agreed, Ptr, Depth
  <1>11. Params'
    <2> SUFFICES ASSUME NEW w \in Vars, env'[w].mode = "param"
                 PROVE  /\ w \notin leaving' /\ env'[w].depth \in 1..Depth'
                        /\ frames'[env'[w].depth].held.ptr = env'[w].ptr
      BY DEF Params, Ptr
    <2>1. env'[w] = env[w]
      BY <1>7 DEF Unbound
    <2> QED
      BY <1>1, <1>2, <2>1 DEF Params, Ptr, Depth
  <1>12. Blocks'
    BY <1>1, <1>2 DEF Blocks, Depth
  <1>13. Pending'
    <2>1. (temp = NoTemp \/ temp.owned) /\ temp.name = Nil
      BY <1>1, Settled DEF Working
    <2> QED
      BY <1>1, <2>1 DEF Pending
  <1>14. ASSUME NEW c \in Addr PROVE Outer(heap', c) = Holders(env', frames', temp', owed', c)
    <2>1. Outer(heap, c) = Cardinality(OwnersOf(env, c)) + Cardinality(CallsOf(frames, c))
                           + Keeps(temp, c) + Is(c, owed.ptr)
      BY <1>2 DEF Counted, Holders
    <2>2. Owns(env[v], c) = Is(c, a) /\ Owns(env'[v], c) = 0 /\ Is(c, a) \in Int
          /\ Keeps(temp, c) \in Int /\ Is(c, owed.ptr) \in Int
      BY <1>3, <1>4, <1>7 DEF Owns, Owning, Is, Keeps, Unbound, Ptr
    <2>3. Cardinality(OwnersOf(env, c)) \in Nat /\ Cardinality(CallsOf(frames, c)) \in Nat
      BY <1>2, HoldersFinite
    <2>4. Cardinality(OwnersOf(env', c)) =
            Cardinality(OwnersOf(env, c)) - Owns(env[v], c) + Owns(env'[v], c)
      <3> DEFINE g == env'
                 e == env
      <3>1. OthersKeep(e, g, v)
        BY <1>7 DEF OthersKeep
      <3> HIDE DEF g, e
      <3>2. Cardinality(OwnersOf(g, c)) = Cardinality(OwnersOf(e, c)) - Owns(e[v], c) + Owns(g[v], c)
        BY <3>1, OwnersRebound
      <3> QED
        BY <3>2 DEF g, e
    <2> QED
      BY <1>1, <1>6, <2>1, <2>2, <2>3, <2>4 DEF Holders
  <1>15. Counted'
    BY <1>14 DEF Counted
  <1> QED
    BY <1>6, <1>9, <1>10, <1>11, <1>12, <1>13, <1>15 DEF IInv

LEMMA ReleaseHeldStep ==
  ASSUME NEW K \in Kinds, IInv(K), ReleaseHeld
  PROVE  IInv(K)'
PROOF
  <1>1. /\ owed # NoHeld /\ owed' = NoHeld /\ heap' = Release(heap, owed.kind, owed.ptr)
        /\ UNCHANGED <<declared, env, frames, temp, leaving>>
    BY DEF ReleaseHeld
  <1>2. Scoped /\ Agreed(K) /\ Counted /\ Params /\ Blocks /\ Shaped(heap, K) /\ frames \in Seq(Frame)
    BY DEF IInv, Scoped
  <1>3. PICK a : a = owed.ptr
    OBVIOUS
  <1>4. a \in Addr /\ heap[a].rc > 0 /\ K[a] = owed.kind /\ \A c \in Addr : Outer(heap, c) \in Nat
    BY <1>1, <1>2, <1>3, Alive DEF Agreed
  <1>5. /\ Shaped(heap', K)
        /\ \A c \in Addr : Outer(heap', c) = Outer(heap, c) - Is(c, a)
    <2>1. \A c \in Addr : Outer(heap, c) >= 0
      BY <1>4
    <2>2. /\ Shaped(Release(heap, K[a], a), K)
          /\ \A c \in Addr : Outer(Release(heap, K[a], a), c) = Outer(heap, c) - Is(c, a)
      BY <1>2, <1>4, <2>1, ReleaseOp
    <2> QED
      BY <1>1, <1>3, <1>4, <2>2
  <1>6. Scoped' /\ Agreed(K)' /\ Params' /\ Blocks'
    BY <1>1, <1>2 DEF Scoped, Agreed, Params, Blocks, Bound, Ptr, Depth, Held
  <1>7. Pending'
    <2>1. (temp = NoTemp \/ temp.owned) /\ temp.name = Nil
      BY <1>1, Settled DEF Working
    <2> QED
      BY <1>1, <2>1 DEF Pending
  <1>8. ASSUME NEW c \in Addr PROVE Outer(heap', c) = Holders(env', frames', temp', owed', c)
    <2>1. Outer(heap, c) = Holders(env, frames, temp, owed, c)
      BY <1>2 DEF Counted
    <2>2. Is(c, owed.ptr) = Is(c, a) /\ Is(c, a) \in Int /\ Is(c, owed'.ptr) = 0 /\ Keeps(temp, c) \in Int
      BY <1>1, <1>3, ArcAssumption DEF Is, Keeps, NoHeld
    <2>3. Cardinality(OwnersOf(env, c)) \in Nat /\ Cardinality(CallsOf(frames, c)) \in Nat
      BY <1>2, HoldersFinite
    <2> QED
      BY <1>1, <1>5, <2>1, <2>2, <2>3 DEF Holders
  <1>9. Counted'
    BY <1>8 DEF Counted
  <1> QED
    BY <1>5, <1>6, <1>7, <1>9 DEF IInv

-----------------------------------------------------------------------------
(* The program *)

LEMMA Starts ==
  Init => \E K \in Kinds : IInv(K)
PROOF
  <1> SUFFICES ASSUME Init PROVE \E K \in Kinds : IInv(K)
    OBVIOUS
  <1> DEFINE K == [a \in Addr |-> "row"]
  <1>1. K \in Kinds /\ \A a \in Addr : K[a] = "row"
    BY DEF Kinds, KindNames
  <1> HIDE DEF K
  <1>2. /\ declared \in Programs /\ heap = [a \in Addr |-> Free] /\ env = [v \in Vars |-> Unbound]
        /\ frames = << >> /\ temp = NoTemp /\ leaving = {} /\ owed = NoHeld
    BY DEF Init
  <1>3. Depth = 0 /\ frames \in Seq(Frame) /\ \A d \in 1..Depth : FALSE
    BY <1>2 DEF Depth
  <1>4. \A v \in Vars : env[v] = Unbound /\ ~Bound(v) /\ env[v].mode = "none"
    BY <1>2 DEF Bound, Unbound
  <1>5. Scoped
    BY <1>2, <1>3, <1>4, ArcAssumption DEF Scoped, Slot, Value, Held
  <1>6. Shaped(heap, K)
    <2>1. Free \in Cells /\ Len(Free.data) = 0 /\ Free.data = << >>
      BY ArcAssumption DEF Free, Cells
    <2>2. heap \in Heaps
      BY <1>2, <2>1, ArcAssumption DEF Heaps
    <2>3. ASSUME NEW a \in Addr PROVE heap[a].data \in Contents(K, K[a])
      <3>1. heap[a].data = << >>
        BY <1>2, <2>1
      <3> QED
        BY <1>1, <3>1 DEF Contents
    <2> QED
      BY <1>2, <2>2, <2>3 DEF Shaped
  <1>7. Agreed(K) /\ Params /\ Blocks /\ Pending
    BY <1>2, <1>3, <1>4 DEF Agreed, Params, Blocks, Pending, NoTemp
  <1>8. ASSUME NEW a \in Addr PROVE Outer(heap, a) = Holders(env, frames, temp, owed, a)
    <2>1. SlotsOf(heap, a) = {} /\ heap[a].rc = 0
      BY <1>2 DEF SlotsOf, Free
    <2>2. OwnersOf(env, a) = {} /\ CallsOf(frames, a) = {}
      BY <1>3, <1>4 DEF OwnersOf, CallsOf, Owning, Depth
    <2>3. Keeps(temp, a) = 0 /\ Is(a, owed.ptr) = 0
      BY <1>2, ArcAssumption DEF Keeps, Is, NoTemp, NoHeld
    <2>4. Cardinality({}) = 0
      BY FS_EmptySet
    <2> QED
      BY <2>1, <2>2, <2>3, <2>4 DEF Outer, Holders
  <1>9. Counted
    BY <1>8 DEF Counted
  <1> QED
    BY <1>1, <1>5, <1>6, <1>7, <1>9 DEF IInv

LEMMA Stutters ==
  ASSUME NEW K, IInv(K), UNCHANGED vars
  PROVE  IInv(K)'
PROOF
  <1>1. UNCHANGED <<declared, heap, env, frames, temp, leaving, owed>>
    BY DEF vars
  <1>2. Scoped' /\ Agreed(K)' /\ Params' /\ Blocks' /\ Counted'
    BY <1>1 DEF IInv, Scoped, Agreed, Params, Blocks, Counted, Bound, Ptr, Depth
  <1>3. Pending'
    BY <1>1 DEF IInv, Pending, Working, Visible, Bound, Ptr, Base, CallDepths, Depth
  <1>4. Shaped(heap', K)
    BY <1>1 DEF IInv
  <1> QED
    BY <1>2, <1>3, <1>4 DEF IInv

LEMMA ExpressionSteps ==
  ASSUME NEW K \in Kinds, IInv(K), Expression
  PROVE  \E J \in Kinds : IInv(J)'
PROOF
  <1>1. ASSUME NEW v \in Vars, Ident(v) PROVE IInv(K)'
    BY <1>1, IdentStep
  <1>2. ASSUME NEW g \in Nested, NEW i \in 1..MaxLen, Place(g, i) PROVE IInv(K)'
    BY <1>2, PlaceStep
  <1> QED
    BY <1>1, <1>2, RowLitStep, GridLitStep, StructLitStep DEF Expression

LEMMA ConsumingSteps ==
  ASSUME Forms = {}, NEW K \in Kinds, IInv(K), Consuming
  PROVE  \E J \in Kinds : IInv(J)'
PROOF
  <1>1. ASSUME NEW v \in Vars, Let(v) PROVE IInv(K)'
    BY <1>1, LetStep
  <1>2. ASSUME NEW v \in Vars, Assign(v) PROVE IInv(K)'
    BY <1>2, AssignStep
  <1>3. ASSUME NEW g \in Grids, PushRow(g) PROVE \E J \in Kinds : IInv(J)'
    BY <1>3, PushRowStep
  <1>4. ASSUME NEW g \in Grids, NEW i \in 1..MaxLen, IndexAssign(g, i)
        PROVE  \E J \in Kinds : IInv(J)'
    BY <1>4, IndexAssignStep
  <1>5. ASSUME NEW s \in Structs, NEW f \in 1..NFields, FieldAssign(s, f)
        PROVE  \E J \in Kinds : IInv(J)'
    BY <1>5, FieldAssignStep
  <1> QED
    BY <1>1, <1>2, <1>3, <1>4, <1>5, ExprStmtStep DEF Consuming

LEMMA IntSteps ==
  ASSUME Forms = {}, NEW K \in Kinds, IInv(K), OnInts
  PROVE  \E J \in Kinds : IInv(J)'
PROOF
  <1>1. ASSUME NEW n \in Ints, NEW v \in Rows, PushInt(v, n) PROVE \E J \in Kinds : IInv(J)'
    BY <1>1, PushIntStep
  <1>2. ASSUME NEW n \in Ints, NEW v \in Rows, NEW i \in 1..MaxLen, SetInt(v, i, n)
        PROVE  \E J \in Kinds : IInv(J)'
    BY <1>2, SetIntStep
  <1>3. ASSUME NEW n \in Ints, NEW b \in Rows, NEW v \in Rows, LetPush(b, v, n)
        PROVE  \E J \in Kinds : IInv(J)'
    BY <1>3, LetPushStep
  <1>4. ASSUME NEW n \in Ints, NEW s \in Structs, NEW f \in 1..NFields, PushField(s, f, n)
        PROVE  \E J \in Kinds : IInv(J)'
    BY <1>4, PushFieldStep
  <1>5. ASSUME NEW n \in Ints, NEW g \in Grids, NEW i \in 1..MaxLen, PushElem(g, i, n)
        PROVE  \E J \in Kinds : IInv(J)'
    BY <1>5, PushElemStep
  <1>6. ASSUME NEW n \in Ints, NEW g \in Nested, NEW i \in 1..MaxLen, NEW j \in 1..MaxLen,
               SetNested(g, i, j, n)
        PROVE  IInv(K)'
    BY <1>6, SetNestedStep
  <1> QED
    BY <1>1, <1>2, <1>3, <1>4, <1>5, <1>6 DEF OnInts

LEMMA ControlSteps ==
  ASSUME Forms = {}, NEW K \in Kinds, IInv(K), Control
  PROVE  IInv(K)'
PROOF
  <1>1. ASSUME NEW v \in Vars, CallBorrowing(v) PROVE IInv(K)'
    BY <1>1, CallBorrowingStep
  <1>2. ASSUME NEW v \in Vars, CallMutable(v) PROVE IInv(K)'
    BY <1>2, CallMutableStep
  <1>3. ASSUME NEW v \in Vars, ReleaseLocal(v) PROVE IInv(K)'
    BY <1>3, ReleaseLocalStep
  <1> QED
    BY <1>1, <1>2, <1>3, EnterBlockStep, EndBlockStep, ReturnStep, ReleaseHeldStep DEF Control

LEMMA Keeping ==
  ASSUME Forms = {}
  PROVE  (\E K \in Kinds : IInv(K)) /\ [Next]_vars => (\E K \in Kinds : IInv(K))'
PROOF
  <1> SUFFICES ASSUME NEW K \in Kinds, IInv(K), [Next]_vars
               PROVE  \E J \in Kinds : IInv(J)'
    OBVIOUS
  <1>1. CASE UNCHANGED vars
    BY <1>1, Stutters
  <1>2. CASE Next
    BY <1>2, ExpressionSteps, ConsumingSteps, IntSteps, ControlSteps DEF Next
  <1> QED
    BY <1>1, <1>2

-----------------------------------------------------------------------------
(* What the invariant says *)

LEMMA TypesFollow ==
  ASSUME NEW K \in Kinds, IInv(K)
  PROVE  TypeOK
PROOF
  <1>1. Scoped /\ Shaped(heap, K)
    BY DEF IInv
  <1>2. \A a \in Addr :
          /\ heap[a].rc \in Nat /\ heap[a].cap \in 0..MaxLen
          /\ heap[a].data \in Seq(Ints \cup Addr) /\ Len(heap[a].data) <= MaxLen
          /\ heap[a].rc = 0 => heap[a] = Free
    BY <1>1, ShapedCell
  <1>3. leaving \subseteq {v \in Vars : Bound(v)}
    BY <1>1 DEF Scoped, Owning, Bound
  <1>4. \A d \in 1..Depth :
          /\ frames[d].call \in BOOLEAN
          /\ frames[d].held \in {NoHeld} \cup [ptr : Addr, kind : {"row", "grid", "struct"}]
    <2> SUFFICES ASSUME NEW d \in 1..Depth
                 PROVE  frames[d].call \in BOOLEAN /\ frames[d].held \in Held
      BY DEF Held, KindNames
    <2>1. frames[d] \in Frame
      BY <1>1 DEF Scoped, Depth
    <2> QED
      BY <2>1 DEF Frame
  <1> QED
    BY <1>1, <1>2, <1>3, <1>4 DEF TypeOK, Scoped, Slot, Value, Held, KindNames

\* The references to an address are its slots and its holders.
LEMMA ReferencesCounted ==
  ASSUME NEW a, frames \in Seq(Frame)
  PROVE  References(a) = Cardinality(SlotsOf(heap, a)) + Holders(env, frames, temp, owed, a)
PROOF
  <1>1. HoldingVars(a) = OwnersOf(env, a)
    BY DEF HoldingVars, OwnersOf, Owning, Ptr
  <1>2. HoldingSlots(a) = SlotsOf(heap, a)
    BY DEF HoldingSlots, SlotsOf
  <1>3. HoldingCalls(a) = CallsOf(frames, a)
    BY DEF HoldingCalls, CallsOf, Depth
  <1>4. Cardinality(HoldingOthers(a)) = Keeps(temp, a) + Is(a, owed.ptr)
    <2>1. "temp" \in HoldingOthers(a) <=> Keeps(temp, a) = 1
      BY DEF HoldingOthers, Keeps
    <2>2. "owed" \in HoldingOthers(a) <=> Is(a, owed.ptr) = 1
      BY DEF HoldingOthers, Is
    <2>3. HoldingOthers(a) \subseteq {"temp", "owed"} /\ "temp" # "owed"
      BY DEF HoldingOthers
    <2>4. Keeps(temp, a) \in {0, 1} /\ Is(a, owed.ptr) \in {0, 1}
      BY DEF Keeps, Is
    <2>5. /\ Cardinality({}) = 0
          /\ Cardinality({"temp"}) = 1 /\ IsFiniteSet({"temp"}) /\ Cardinality({"owed"}) = 1
      BY FS_EmptySet, FS_Singleton
    <2>6. Cardinality({"temp"} \cup {"owed"}) = 2
      <3>1. "owed" \notin {"temp"}
        OBVIOUS
      <3>2. Cardinality({"temp"} \cup {"owed"}) = Cardinality({"temp"}) + 1
        BY <2>5, <3>1, FS_AddElement
      <3> QED
        BY <2>5, <3>2
    <2>7. HoldingOthers(a) = (IF Keeps(temp, a) = 1 THEN {"temp"} ELSE {})
                               \cup (IF Is(a, owed.ptr) = 1 THEN {"owed"} ELSE {})
      BY <2>1, <2>2, <2>3
    <2> QED
      <3>1. CASE Keeps(temp, a) = 1 /\ Is(a, owed.ptr) = 1
        <4>1. HoldingOthers(a) = {"temp"} \cup {"owed"}
          BY <2>7, <3>1
        <4> QED
          BY <2>6, <3>1, <4>1
      <3>2. CASE Keeps(temp, a) = 1 /\ Is(a, owed.ptr) = 0
        <4>1. HoldingOthers(a) = {"temp"}
          BY <2>7, <3>2
        <4> QED
          BY <2>5, <3>2, <4>1
      <3>3. CASE Keeps(temp, a) = 0 /\ Is(a, owed.ptr) = 1
        <4>1. HoldingOthers(a) = {"owed"}
          BY <2>7, <3>3
        <4> QED
          BY <2>5, <3>3, <4>1
      <3>4. CASE Keeps(temp, a) = 0 /\ Is(a, owed.ptr) = 0
        <4>1. HoldingOthers(a) = {}
          BY <2>7, <3>4
        <4> QED
          BY <2>5, <3>4, <4>1
      <3> QED
        BY <2>4, <3>1, <3>2, <3>3, <3>4
  <1>5. /\ Cardinality(OwnersOf(env, a)) \in Nat /\ Cardinality(CallsOf(frames, a)) \in Nat
        /\ Cardinality(SlotsOf(heap, a)) \in Nat
        /\ Keeps(temp, a) \in {0, 1} /\ Is(a, owed.ptr) \in {0, 1}
    BY HoldersFinite, SlotsFinite DEF Keeps, Is
  <1>6. References(a) = Cardinality(OwnersOf(env, a)) + Cardinality(SlotsOf(heap, a))
                        + Cardinality(CallsOf(frames, a)) + (Keeps(temp, a) + Is(a, owed.ptr))
    BY <1>1, <1>2, <1>3, <1>4 DEF References
  <1> QED
    BY <1>5, <1>6 DEF Holders

LEMMA CountsFollow ==
  ASSUME NEW K \in Kinds, IInv(K)
  PROVE  RefcountExact
PROOF
  <1> SUFFICES ASSUME NEW a \in Addr PROVE heap[a].rc = References(a)
    BY DEF RefcountExact
  <1>1. Outer(heap, a) = Holders(env, frames, temp, owed, a)
        /\ Outer(heap, a) \in Nat /\ heap[a].rc \in Nat
    BY Alive DEF IInv, Counted
  <1>2. Cardinality(SlotsOf(heap, a)) \in Nat
    BY SlotsFinite
  <1>3. Outer(heap, a) = heap[a].rc - Cardinality(SlotsOf(heap, a))
    BY DEF Outer
  <1>4. References(a) = Cardinality(SlotsOf(heap, a)) + Holders(env, frames, temp, owed, a)
    BY ReferencesCounted DEF IInv, Scoped
  <1>5. References(a) = Cardinality(SlotsOf(heap, a)) + (heap[a].rc - Cardinality(SlotsOf(heap, a)))
    BY <1>1, <1>3, <1>4
  <1>6. \A m, n \in Nat : m + (n - m) = n
    OBVIOUS
  <1> QED
    BY <1>1, <1>2, <1>5, <1>6

LEMMA NoneDangle ==
  ASSUME NEW K \in Kinds, IInv(K)
  PROVE  NoDangling
PROOF
  BY Alive DEF NoDangling

\* TypeOK of module Arc: every cell is a counted array, a freed one is empty, and
\* variables, frames and the pending value are of the kinds the compiler tracks.
THEOREM TypeCorrect ==
  ASSUME Forms = {} PROVE Spec => []TypeOK
PROOF
  <1>1. (\E K \in Kinds : IInv(K)) => TypeOK
    BY TypesFollow
  <1> QED
    BY <1>1, Starts, Keeping, PTL DEF Spec

\* RefcountExact of module Arc: a count is the number of places that own a reference,
\* at every statement and in the middle of every scope exit.
THEOREM CountsExact ==
  ASSUME Forms = {} PROVE Spec => []RefcountExact
PROOF
  <1>1. (\E K \in Kinds : IInv(K)) => RefcountExact
    BY CountsFollow
  <1> QED
    BY <1>1, Starts, Keeping, PTL DEF Spec

\* NoDangling of module Arc: no variable, no slot of a container and no pending value
\* points to memory that was released, borrowed parameters included.
THEOREM NothingDangles ==
  ASSUME Forms = {} PROVE Spec => []NoDangling
PROOF
  <1>1. (\E K \in Kinds : IInv(K)) => NoDangling
    BY NoneDangle
  <1> QED
    BY <1>1, Starts, Keeping, PTL DEF Spec

-----------------------------------------------------------------------------
(* The refinement of Values *)

\* Alive, as a fact of every state.
Living(K) ==
  /\ \A v \in Vars : Bound(v) => Ptr(v) \in Addr /\ heap[Ptr(v)].rc > 0
  /\ temp # NoTemp => temp.ptr \in Addr /\ heap[temp.ptr].rc > 0
  /\ \A b \in Addr : \A i \in DOMAIN heap[b].data :
       heap[b].data[i] \in Addr => heap[heap[b].data[i]].rc > 0

LEMMA AliveAlways ==
  \A K \in Kinds : IInv(K) => Living(K)
PROOF
  BY Alive DEF Living

LEMMA AliveNext ==
  ASSUME NEW J \in Kinds, IInv(J)'
  PROVE  Living(J)'
PROOF
  <1>1. (\A K \in Kinds : IInv(K) => Living(K))'
    BY AliveAlways, PTL
  <1> QED
    BY <1>1

\* What the operations of the runtime do to the contents, whatever the counts.
Datas == Seq(Ints \cup Addr)
LooseCell == [rc : Int, cap : Int, data : Datas]
Loose == [Addr -> LooseCell]

LEMMA HeapsAreLoose ==
  ASSUME NEW K \in Kinds, NEW h, Shaped(h, K)
  PROVE  h \in Loose
PROOF
  BY ArcAssumption DEF Shaped, Heaps, Cells, Loose, LooseCell, Datas

LEMMA RetainData ==
  ASSUME NEW h \in Loose, NEW a \in Addr
  PROVE  Retain(h, a) \in Loose /\ \A c \in Addr : Retain(h, a)[c].data = h[c].data
PROOF
  <1>1. ASSUME NEW c \in Addr
        PROVE  Retain(h, a)[c] \in LooseCell /\ Retain(h, a)[c].data = h[c].data
    <2>1. h[c] \in LooseCell /\ Retain(h, a)[c] = IF c = a THEN [h[c] EXCEPT !.rc = @ + 1] ELSE h[c]
      BY DEF Loose, Retain
    <2> QED
      BY <2>1 DEF LooseCell
  <1>2. Retain(h, a) = [c \in Addr |-> Retain(h, a)[c]]
    BY DEF Loose, Retain
  <1> QED
    BY <1>1, <1>2 DEF Loose

LEMMA UnshareData ==
  ASSUME NEW h \in Loose, NEW a \in Addr
  PROVE  Unshare(h, a) \in Loose /\ \A c \in Addr : Unshare(h, a)[c].data = h[c].data
PROOF
  <1>1. ASSUME NEW c \in Addr
        PROVE  Unshare(h, a)[c] \in LooseCell /\ Unshare(h, a)[c].data = h[c].data
    <2>1. h[c] \in LooseCell /\ Unshare(h, a)[c] = IF c = a THEN [h[c] EXCEPT !.rc = @ - 1] ELSE h[c]
      BY DEF Loose, Unshare
    <2> QED
      BY <2>1 DEF LooseCell
  <1>2. Unshare(h, a) = [c \in Addr |-> Unshare(h, a)[c]]
    BY DEF Loose, Unshare
  <1> QED
    BY <1>1, <1>2 DEF Loose

LEMMA RetainSlotsData ==
  ASSUME NEW h \in Loose, NEW X, NEW s \in Seq(X), NEW I \in SUBSET (DOMAIN s)
  PROVE  /\ RetainSlots(h, s, I) \in Loose
         /\ \A c \in Addr : RetainSlots(h, s, I)[c].data = h[c].data
PROOF
  <1>1. ASSUME NEW c \in Addr
        PROVE  RetainSlots(h, s, I)[c] \in LooseCell /\ RetainSlots(h, s, I)[c].data = h[c].data
    <2>1. PICK t \in Nat : t = Times(c, s, I)
      BY TimesType
    <2>2. h[c] \in LooseCell /\ RetainSlots(h, s, I)[c] = [h[c] EXCEPT !.rc = @ + t]
      BY <2>1 DEF Loose, RetainSlots
    <2> QED
      BY <2>1, <2>2 DEF LooseCell
  <1>2. RetainSlots(h, s, I) = [c \in Addr |-> RetainSlots(h, s, I)[c]]
    BY DEF RetainSlots
  <1> QED
    BY <1>1, <1>2 DEF Loose

LEMMA AllocData ==
  ASSUME NEW h \in Loose, NEW a \in Addr, NEW d \in Datas, NEW cap \in Int
  PROVE  /\ Alloc(h, a, d, cap) \in Loose
         /\ Alloc(h, a, d, cap)[a].data = d
         /\ \A c \in Addr \ {a} : Alloc(h, a, d, cap)[c].data = h[c].data
PROOF
  <1>1. Capped(cap) \in Int
    BY ArcAssumption DEF Capped
  <1> QED
    BY <1>1 DEF Loose, LooseCell, Alloc

LEMMA WriteData ==
  ASSUME NEW h \in Loose, NEW a \in Addr, NEW d \in Datas
  PROVE  /\ Write(h, a, d) \in Loose
         /\ Write(h, a, d)[a].data = d
         /\ \A c \in Addr \ {a} : Write(h, a, d)[c].data = h[c].data
         /\ \A c \in Addr : Write(h, a, d)[c].rc = h[c].rc
PROOF
  BY DEF Loose, LooseCell, Write

LEMMA CowData ==
  ASSUME NEW h \in Loose, NEW a \in Addr, NEW new \in Addr, NEW d \in Datas
  PROVE  /\ CowCopy(h, a, d, new) \in Loose
         /\ CowCopy(h, a, d, new)[new].data = d
         /\ \A c \in Addr \ {new} : CowCopy(h, a, d, new)[c].data = h[c].data
PROOF
  <1>1. PICK n \in Int : n = Len(d)
    BY DEF Datas
  <1>2. PICK g : g = Alloc(h, new, d, n)
    OBVIOUS
  <1>3. g \in Loose /\ g[new].data = d /\ \A c \in Addr \ {new} : g[c].data = h[c].data
    BY <1>2, AllocData
  <1>4. Unshare(g, a) \in Loose /\ \A c \in Addr : Unshare(g, a)[c].data = g[c].data
    BY <1>3, UnshareData
  <1>5. CowCopy(h, a, d, new) = Unshare(g, a)
    BY <1>1, <1>2 DEF CowCopy
  <1> QED
    BY <1>3, <1>4, <1>5

LEMMA PushedData ==
  ASSUME NEW h \in Loose, NEW a \in Addr, NEW new \in Addr, NEW x \in Ints \cup Addr
  PROVE  /\ PushedCopy(h, a, x, new) \in Loose
         /\ PushedCopy(h, a, x, new)[new].data = Append(h[a].data, x)
         /\ \A c \in Addr \ {new} : PushedCopy(h, a, x, new)[c].data = h[c].data
PROOF
  <1>1. h[a].cap \in Int /\ h[a].data \in Datas
    BY DEF Loose, LooseCell
  <1>2. PICK d, n : d = Append(h[a].data, x) /\ n = NewCap(h, a)
    OBVIOUS
  <1>3. n \in Int /\ d \in Datas
    BY <1>1, <1>2 DEF NewCap, Datas
  <1>4. PushedCopy(h, a, x, new) = Alloc(h, new, d, n)
    BY <1>2 DEF PushedCopy
  <1>5. PICK g : g = Alloc(h, new, d, n)
    OBVIOUS
  <1>6. g \in Loose /\ g[new].data = d /\ \A c \in Addr \ {new} : g[c].data = h[c].data
    BY <1>3, <1>5, AllocData
  <1> QED
    BY <1>2, <1>4, <1>5, <1>6

LEMMA ReleaseRowData ==
  ASSUME NEW h \in Loose, NEW a \in Addr
  PROVE  /\ ReleaseRow(h, a) \in Loose
         /\ \A c \in Addr : ReleaseRow(h, a)[c].rc > 0 => ReleaseRow(h, a)[c].data = h[c].data
PROOF
  <1>1. CASE h[a].rc = 1
    <2>1. Free \in LooseCell /\ Free.rc = 0
      BY DEF Free, LooseCell, Datas
    <2> QED
      BY <1>1, <2>1 DEF Loose, LooseCell, ReleaseRow
  <1>2. CASE h[a].rc # 1
    BY <1>2, UnshareData DEF ReleaseRow
  <1> QED
    BY <1>1, <1>2

LEMMA ReleaseNestedData ==
  ASSUME NEW h \in Loose, NEW a \in Addr
  PROVE  /\ ReleaseNested(h, a) \in Loose
         /\ \A c \in Addr : ReleaseNested(h, a)[c].rc > 0 => ReleaseNested(h, a)[c].data = h[c].data
PROOF
  <1>1. CASE h[a].rc = 1
    <2>1. Free \in LooseCell /\ Free.rc = 0
      BY DEF Free, LooseCell, Datas
    <2>2. PICK s : s = h[a].data
      OBVIOUS
    <2>3. \A c \in Addr : Times(c, s, DOMAIN s) \in Nat
      BY <2>2, TimesType DEF Loose, LooseCell, Datas
    <2> DEFINE g == ReleaseSlots(h, s)
    <2>4. g \in Loose /\ \A c \in Addr : g[c].rc > 0 => g[c].data = h[c].data
      <3>1. ASSUME NEW c \in Addr
            PROVE  g[c] \in LooseCell /\ (g[c].rc > 0 => g[c].data = h[c].data)
        <4>1. h[c] \in LooseCell /\ Times(c, s, DOMAIN s) \in Nat
          BY <2>3 DEF Loose
        <4>2. g[c] \in {h[c], [h[c] EXCEPT !.rc = @ - Times(c, s, DOMAIN s)], Free}
          BY DEF ReleaseSlots
        <4> QED
          BY <2>1, <4>1, <4>2 DEF LooseCell
      <3>2. g = [c \in Addr |-> g[c]]
        BY DEF ReleaseSlots
      <3> QED
        BY <3>1, <3>2 DEF Loose
    <2> HIDE DEF g
    <2>5. ReleaseNested(h, a) = [g EXCEPT ![a] = Free]
      BY <1>1, <2>2 DEF ReleaseNested, g
    <2> QED
      <3>1. \A c \in Addr : ReleaseNested(h, a)[c] = IF c = a THEN Free ELSE g[c]
        BY <2>4, <2>5 DEF Loose
      <3>2. ReleaseNested(h, a) = [c \in Addr |-> ReleaseNested(h, a)[c]]
        BY <2>4, <2>5 DEF Loose
      <3> QED
        BY <2>1, <2>4, <3>1, <3>2 DEF Loose
  <1>2. CASE h[a].rc # 1
    BY <1>2, UnshareData DEF ReleaseNested
  <1> QED
    BY <1>1, <1>2

LEMMA ReleaseData ==
  ASSUME NEW h \in Loose, NEW k, NEW a \in Addr
  PROVE  /\ Release(h, k, a) \in Loose
         /\ \A c \in Addr : Release(h, k, a)[c].rc > 0 => Release(h, k, a)[c].data = h[c].data
PROOF
  BY ReleaseRowData, ReleaseNestedData DEF Release

\* What every live object outside T held, it holds after the step.
Saves(T) == \A c \in Addr \ T : heap'[c].rc > 0 => heap'[c].data = heap[c].data

\* What w shows does not pass through T.
Clear(T, w) ==
  Bound(w) => /\ Ptr(w) \notin T
              /\ \A i \in DOMAIN heap[Ptr(w)].data : heap[Ptr(w)].data[i] \notin T

\* An object of kind k shows something.
LEMMA DerefShape ==
  ASSUME NEW K \in Kinds, IInv(K), NEW p \in Addr
  PROVE  /\ Deref(K[p], p) \in Seq(Ints) \cup Seq(Seq(Ints))
         /\ Deref(K[p], p) # Nil
         /\ K[p] = "row" => Deref(K[p], p) = heap[p].data /\ heap[p].data \in Seq(Ints)
PROOF
  <1>1. \A c \in Addr : heap[c].data \in Contents(K, K[c])
    BY ShapedCell DEF IInv
  <1>2. CASE K[p] = "row"
    BY <1>1, <1>2, ArcAssumption DEF Deref, Contents
  <1>3. CASE K[p] # "row"
    <2>1. PICK s \in Seq(RowsOf(K)) : s = heap[p].data
      BY <1>1, <1>3 DEF Contents
    <2>2. \A i \in 1..Len(s) : heap[s[i]].data \in Seq(Ints)
      <3>1. ASSUME NEW i \in 1..Len(s) PROVE heap[s[i]].data \in Seq(Ints)
        <4>1. s[i] \in Addr /\ K[s[i]] = "row"
          BY DEF RowsOf
        <4> QED
          BY <1>1, <4>1 DEF Contents
      <3> QED
        BY <3>1
    <2>3. Deref(K[p], p) = [i \in 1..Len(s) |-> heap[s[i]].data]
      BY <1>3, <2>1 DEF Deref
    <2>4. Deref(K[p], p) \in Seq(Seq(Ints))
      BY <2>2, <2>3
    <2> QED
      BY <1>3, <2>4, ArcAssumption
  <1> QED
    BY <1>2, <1>3

\* A variable shows something exactly while it is in scope.
LEMMA ViewShape ==
  ASSUME NEW K \in Kinds, IInv(K), NEW w \in Vars
  PROVE  /\ View(w) # Nil <=> Bound(w) /\ w \notin leaving
         /\ Seen[w] = View(w) /\ DOMAIN Seen = Vars
PROOF
  <1>1. Bound(w) => Ptr(w) \in Addr /\ K[Ptr(w)] = Kind(w)
    BY Alive DEF IInv, Agreed
  <1>2. Bound(w) => Deref(Kind(w), Ptr(w)) # Nil
    <2>1. Bound(w) => Deref(K[Ptr(w)], Ptr(w)) # Nil
      BY <1>1, DerefShape
    <2> QED
      BY <1>1, <2>1
  <1> QED
    BY <1>2 DEF View, Seen

\* Free addresses show nothing.
LEMMA FreshClear ==
  ASSUME NEW K \in Kinds, IInv(K), NEW T \in SUBSET FreeCells(heap), NEW w \in Vars
  PROVE  Clear(T, w)
PROOF
  <1> SUFFICES ASSUME Bound(w) PROVE Ptr(w) \notin T /\ \A i \in DOMAIN heap[Ptr(w)].data :
                                                         heap[Ptr(w)].data[i] \notin T
    BY DEF Clear
  <1>1. \A c \in T : c \in Addr /\ heap[c].rc = 0
    BY DEF FreeCells
  <1>2. Ptr(w) \in Addr /\ heap[Ptr(w)].rc > 0
    BY Alive
  <1>3. ASSUME NEW i \in DOMAIN heap[Ptr(w)].data, heap[Ptr(w)].data[i] \in T PROVE FALSE
    BY <1>1, <1>2, <1>3, Alive
  <1> QED
    BY <1>1, <1>2, <1>3

LEMMA DerefKept ==
  ASSUME NEW J \in Kinds, IInv(J)', NEW T \in SUBSET Addr, Saves(T),
         NEW k, NEW p \in Addr, p \notin T, heap'[p].rc > 0,
         k # "row" => \A i \in DOMAIN heap[p].data : heap[p].data[i] \in Addr \ T
  PROVE  Deref(k, p)' = Deref(k, p)
PROOF
  <1>1. heap'[p].data = heap[p].data
    BY DEF Saves
  <1>2. CASE k = "row"
    BY <1>1, <1>2 DEF Deref
  <1>3. CASE k # "row"
    <2>1. \A i \in DOMAIN heap[p].data : heap'[heap[p].data[i]].data = heap[heap[p].data[i]].data
      <3>1. ASSUME NEW i \in DOMAIN heap[p].data
            PROVE  heap'[heap[p].data[i]].data = heap[heap[p].data[i]].data
        <4>1. Living(J)'
          BY AliveNext
        <4>2. heap[p].data[i] \in Addr \ T /\ heap'[p].data[i] = heap[p].data[i]
              /\ i \in DOMAIN heap'[p].data
          BY <1>1, <1>3
        <4>3. heap'[heap[p].data[i]].rc > 0
          BY <4>1, <4>2 DEF Living
        <4> QED
          BY <4>2, <4>3 DEF Saves
      <3> QED
        BY <3>1
    <2> QED
      BY <1>1, <1>3, <2>1 DEF Deref
  <1> QED
    BY <1>2, <1>3

LEMMA ViewKept ==
  ASSUME NEW K \in Kinds, IInv(K), NEW J \in Kinds, IInv(J)', NEW T \in SUBSET Addr, Saves(T),
         NEW w \in Vars, env'[w] = env[w], w \in leaving' <=> w \in leaving, Clear(T, w)
  PROVE  View(w)' = View(w)
PROOF
  <1>1. CASE ~Bound(w)
    <2>1. ~Bound(w)'
      BY <1>1 DEF Bound
    <2> QED
      BY <1>1, <2>1 DEF View
  <1>2. CASE Bound(w)
    <2>1. PICK p \in Addr : p = Ptr(w)
      BY <1>2, Alive
    <2>2. Ptr(w)' = p /\ Bound(w)' /\ heap'[p].rc > 0
      <3>1. Ptr(w)' = p /\ Bound(w)'
        BY <1>2, <2>1 DEF Ptr, Bound
      <3>2. Living(J)'
        BY AliveNext
      <3> QED
        BY <3>1, <3>2 DEF Living
    <2>3. Kind(w) # "row" => \A i \in DOMAIN heap[p].data : heap[p].data[i] \in Addr
      BY <1>2, <2>1, Contained, KindOf
    <2>4. p \notin T /\ \A i \in DOMAIN heap[p].data : heap[p].data[i] \notin T
      BY <1>2, <2>1 DEF Clear
    <2>5. PICK k : k = Kind(w)
      OBVIOUS
    <2>6. Deref(k, p)' = Deref(k, p)
      BY <2>2, <2>3, <2>4, <2>5, DerefKept
    <2>7. View(w) = IF w \notin leaving THEN Deref(k, p) ELSE Nil
      BY <1>2, <2>1, <2>5 DEF View
    <2>8. View(w)' = IF w \notin leaving' THEN Deref(k, p)' ELSE Nil
      BY <2>2, <2>5 DEF View
    <2> QED
      BY <2>6, <2>7, <2>8
  <1> QED
    BY <1>1, <1>2

\* Every variable but v shows what it showed.
LEMMA SeenBut ==
  ASSUME NEW v \in Vars, \A w \in Vars \ {v} : View(w)' = View(w)
  PROVE  Seen' = [Seen EXCEPT ![v] = View(v)']
PROOF
  BY DEF Seen

LEMMA SeenKept ==
  ASSUME \A w \in Vars : View(w)' = View(w)
  PROVE  Seen' = Seen
PROOF
  BY DEF Seen

LEMMA KindVars ==
  ASSUME NEW v \in Vars
  PROVE  v \in V!VarsOf(Kind(v)) /\ Kind(v) # "none" /\ v \in V!Vars
         /\ (v \in Nested => v \in V!Nested)
PROOF
  BY KindOf DEF V!VarsOf, V!Vars, V!Nested, Vars, Nested, KindNames

-----------------------------------------------------------------------------
(* What a step of Values looks like from here *)

\* The pending value is the new value of v.
LEMMA BindsShown ==
  ASSUME NEW v \in Vars, temp # NoTemp, temp.kind \in KindNames, temp' = NoTemp, Kind(v) = temp.kind,
         Seen' = [Seen EXCEPT ![v] = Shown]
  PROVE  V!Next
PROOF
  <1>1. temp'.kind = "none" /\ Shown' = Nil /\ temp.kind # "none"
    BY DEF Shown, NoTemp, KindNames
  <1>2. v \in V!VarsOf(temp.kind)
    BY KindVars
  <1>3. V!Bind
    BY <1>2 DEF V!Bind
  <1>4. V!Consume
    BY <1>1, <1>3 DEF V!Consume
  <1> QED
    BY <1>4 DEF V!Next

\* It becomes an element of v.
LEMMA StoresShown ==
  ASSUME NEW v \in Nested, temp # NoTemp, temp.kind = "row", temp' = NoTemp,
         View(v) # Nil, NEW i \in DOMAIN View(v),
         Seen' = [Seen EXCEPT ![v] = Put(View(v), i, Shown)]
  PROVE  V!Next
PROOF
  <1>1. temp'.kind = "none" /\ Shown' = Nil
    BY DEF Shown, NoTemp
  <1>2. v \in V!Nested /\ v \in Vars
    BY DEF V!Nested, Nested, Vars
  <1>3. Seen[v] = View(v) /\ V!Bound(v)
    BY <1>2 DEF Seen, V!Bound
  <1>4. Seen' = [Seen EXCEPT ![v][i] = Shown]
    BY <1>3 DEF Put
  <1>5. V!StoreElem
    BY <1>2, <1>3, <1>4 DEF V!StoreElem
  <1>6. V!Consume
    BY <1>1, <1>5 DEF V!Consume
  <1> QED
    BY <1>6 DEF V!Next

\* It is appended to v.
LEMMA AppendsShown ==
  ASSUME NEW v \in Grids, temp # NoTemp, temp.kind = "row", temp' = NoTemp, View(v) # Nil,
         Seen' = [Seen EXCEPT ![v] = Append(View(v), Shown)]
  PROVE  V!Next
PROOF
  <1>1. temp'.kind = "none" /\ Shown' = Nil
    BY DEF Shown, NoTemp
  <1>2. v \in Vars
    BY DEF Nested, Vars
  <1>3. Seen[v] = View(v) /\ V!Bound(v)
    BY <1>2 DEF Seen, V!Bound
  <1>5. V!AppendElem
    BY <1>2, <1>3 DEF V!AppendElem
  <1>6. V!Consume
    BY <1>1, <1>5 DEF V!Consume
  <1> QED
    BY <1>6 DEF V!Next

\* It is dropped.
LEMMA DropsShown ==
  ASSUME temp.kind \in KindNames, temp' = NoTemp, Seen' = Seen
  PROVE  V!Next
PROOF
  <1>1. temp'.kind = "none" /\ Shown' = Nil /\ temp.kind # "none"
    BY DEF Shown, NoTemp, KindNames
  <1>2. V!Consume
    BY <1>1 DEF V!Consume, V!Discard
  <1> QED
    BY <1>2 DEF V!Next

\* A statement on integers: one variable takes a value computed from those in scope.
LEMMA Mutates ==
  ASSUME temp = NoTemp, temp' = temp,
         V!StoreInt \/ V!AppendInt \/ V!StoreNested \/ V!AppendNested \/ V!BindAppended
  PROVE  V!Next
PROOF
  <1>1. temp.kind = "none" /\ UNCHANGED <<temp.kind, Shown>>
    BY DEF Shown, NoTemp
  <1> QED
    BY <1>1 DEF V!Next, V!Mutate

\* Variables leave the scope, and the pending value stays.
LEMMA LeavesScope ==
  ASSUME \A w \in Vars : View(w)' \in {Nil, View(w)}, temp'.kind = temp.kind, Shown' = Shown
  PROVE  V!Next
PROOF
  <1>1. DOMAIN Seen' = V!Vars /\ \A w \in V!Vars : Seen'[w] \in {Nil, Seen[w]}
    BY DEF Seen, V!Vars, V!Nested, Vars, Nested
  <1> QED
    BY <1>1 DEF V!Next, V!Leave

\* One element of a container is replaced, in place or in a copy at q.
LEMMA StoredView ==
  ASSUME NEW K \in Kinds, IInv(K), NEW J \in Kinds, IInv(J)', NEW T \in SUBSET Addr, Saves(T),
         NEW p \in Addr, NEW q \in Addr, heap[p].data \in Seq(RowsOf(K)),
         NEW i \in DOMAIN heap[p].data, NEW x, NEW R,
         heap'[q].data = Put(heap[p].data, i, x), heap'[x].data = R,
         \A j \in DOMAIN heap[p].data : j # i => heap[p].data[j] \notin T,
         NEW k, k # "row"
  PROVE  Deref(k, q)' = Put(Deref(k, p), i, R)
PROOF
  <1>1. PICK s \in Seq(RowsOf(K)) : s = heap[p].data
    OBVIOUS
  <1>2. heap'[q].data = [s EXCEPT ![i] = x] /\ i \in DOMAIN s
    BY <1>1 DEF Put
  <1>3. DOMAIN heap'[q].data = DOMAIN s /\ heap'[q].data[i] = x
        /\ \A j \in DOMAIN s \ {i} : heap'[q].data[j] = s[j]
    BY <1>2
  <1>4. Living(J)'
    BY AliveNext
  <1>5. ASSUME NEW j \in DOMAIN s \ {i} PROVE heap'[heap'[q].data[j]].data = heap[s[j]].data
    <2>1. s[j] \in Addr /\ s[j] \notin T
      BY <1>1 DEF RowsOf
    <2>2. heap'[s[j]].rc > 0
      BY <1>3, <1>4, <2>1 DEF Living
    <2> QED
      BY <1>3, <2>1, <2>2 DEF Saves
  <1>6. Deref(k, q)' = [j \in DOMAIN s |-> heap'[heap'[q].data[j]].data]
    BY <1>3 DEF Deref
  <1>7. Deref(k, p) = [j \in DOMAIN s |-> heap[s[j]].data]
    BY <1>1 DEF Deref
  <1>8. Put(Deref(k, p), i, R) = [j \in DOMAIN s |-> IF j = i THEN R ELSE heap[s[j]].data]
    BY <1>7 DEF Put
  <1>9. \A j \in DOMAIN s : heap'[heap'[q].data[j]].data = IF j = i THEN R ELSE heap[s[j]].data
    BY <1>3, <1>5
  <1> QED
    BY <1>6, <1>8, <1>9

\* An element is appended, in place or in a copy at q.
LEMMA AppendedView ==
  ASSUME NEW K \in Kinds, IInv(K), NEW J \in Kinds, IInv(J)', NEW T \in SUBSET Addr, Saves(T),
         NEW p \in Addr, NEW q \in Addr, heap[p].data \in Seq(RowsOf(K)),
         NEW x, NEW R, heap'[q].data = Append(heap[p].data, x), heap'[x].data = R,
         \A j \in DOMAIN heap[p].data : heap[p].data[j] \notin T,
         NEW k, k # "row"
  PROVE  Deref(k, q)' = Append(Deref(k, p), R)
PROOF
  <1>1. PICK s \in Seq(RowsOf(K)) : s = heap[p].data
    OBVIOUS
  <1>2. PICK t : t = heap'[q].data
    OBVIOUS
  <1>3. PICK n \in Nat : n = Len(s)
    OBVIOUS
  <1>4. t = Append(s, x)
    BY <1>1, <1>2
  <1>5. DOMAIN t = 1..(n + 1) /\ t[n + 1] = x /\ \A j \in 1..n : t[j] = s[j] /\ j \in 1..(n + 1)
    BY <1>3, <1>4
  <1>6. DOMAIN s = 1..n
    BY <1>3
  <1>7. Living(J)'
    BY AliveNext
  <1>8. ASSUME NEW j \in 1..n PROVE heap'[t[j]].data = heap[s[j]].data
    <2>1. s[j] \in Addr /\ s[j] \notin T /\ t[j] = s[j]
      BY <1>1, <1>5, <1>6 DEF RowsOf
    <2>2. j \in DOMAIN heap'[q].data /\ heap'[q].data[j] = s[j]
      BY <1>2, <1>5
    <2>3. heap'[s[j]].rc > 0
      BY <1>7, <2>1, <2>2 DEF Living
    <2> QED
      BY <2>1, <2>3 DEF Saves
  <1>9. Deref(k, q)' = [j \in 1..(n + 1) |-> heap'[t[j]].data]
    BY <1>2, <1>5 DEF Deref
  <1>10. Deref(k, p) = [j \in 1..n |-> heap[s[j]].data]
    BY <1>1, <1>6 DEF Deref
  <1>11. [j \in 1..(n + 1) |-> heap'[t[j]].data]
           = [j \in 1..(n + 1) |-> IF j = n + 1 THEN R ELSE heap[s[j]].data]
    <2>1. \A j \in 1..(n + 1) : j = n + 1 \/ j \in 1..n
      OBVIOUS
    <2>2. \A j \in 1..n : j # n + 1
      OBVIOUS
    <2>3. \A j \in 1..(n + 1) : heap'[t[j]].data = IF j = n + 1 THEN R ELSE heap[s[j]].data
      BY <1>5, <1>8, <2>1, <2>2
    <2> QED
      BY <2>3
  <1>12. ASSUME NEW f, f = [j \in 1..n |-> heap[s[j]].data]
         PROVE  Append(f, R) = [j \in 1..(n + 1) |-> IF j = n + 1 THEN R ELSE heap[s[j]].data]
    <2> DEFINE X == {heap[s[j]].data : j \in 1..n} \cup {R}
               g == [j \in 1..(n + 1) |-> IF j = n + 1 THEN R ELSE heap[s[j]].data]
    <2>1. f \in Seq(X) /\ Len(f) = n /\ \A j \in 1..n : f[j] = heap[s[j]].data
      <3>1. \A j \in 1..n : heap[s[j]].data \in X
        OBVIOUS
      <3>2. f \in [1..n -> X]
        BY <1>12, <3>1
      <3> HIDE DEF X
      <3> QED
        BY <1>12, <3>2
    <2>2. R \in X
      OBVIOUS
    <2>3. g \in Seq(X) /\ Len(g) = n + 1
      <3>1. \A j \in 1..(n + 1) : g[j] \in X
        <4>1. \A j \in 1..(n + 1) : j = n + 1 \/ j \in 1..n
          OBVIOUS
        <4> QED
          BY <4>1
      <3>2. g \in [1..(n + 1) -> X]
        BY <3>1
      <3>3. n + 1 \in Nat
        OBVIOUS
      <3> HIDE DEF X, g
      <3> QED
        BY <3>2, <3>3
    <2> HIDE DEF X
    <2>4. \A j \in 1..(n + 1) : Append(f, R)[j] = g[j]
      <3>1. ASSUME NEW j \in 1..(n + 1) PROVE Append(f, R)[j] = g[j]
        <4>1. CASE j = n + 1
          BY <2>1, <2>2, <4>1
        <4>2. CASE j # n + 1
          <5>1. j \in 1..n
            BY <4>2
          <5>2. Append(f, R)[j] = f[j]
            BY <2>1, <2>2, <5>1
          <5> QED
            BY <2>1, <4>2, <5>1, <5>2
        <4> QED
          BY <4>1, <4>2
      <3> QED
        BY <3>1
    <2>5. Append(f, R) \in Seq(X) /\ Len(Append(f, R)) = n + 1
      BY <2>1, <2>2
    <2> HIDE DEF g
    <2> QED
      <3>1. Append(f, R) = g
        BY <2>3, <2>4, <2>5
      <3> QED
        BY <3>1 DEF g
  <1> QED
    BY <1>9, <1>10, <1>11, <1>12

\* The only reference to the object of v: no other variable shows it.
LEMMA Alone ==
  ASSUME NEW K \in Kinds, IInv(K), NEW v \in Vars, env[v].mode \in Owning, NEW p \in Addr,
         p = Ptr(v), heap[p].rc = 1
  PROVE  \A w \in Vars \ {v} : Clear({p}, w)
PROOF
  <1>1. frames \in Seq(Frame) /\ Outer(heap, p) = Holders(env, frames, temp, owed, p)
    BY DEF IInv, Scoped, Counted
  <1>2. PICK n \in Nat : n = Cardinality(OwnersOf(env, p)) /\ IsFiniteSet(OwnersOf(env, p))
    BY <1>1, HoldersFinite
  <1>3. PICK m \in Nat : m = Cardinality(CallsOf(frames, p)) /\ IsFiniteSet(CallsOf(frames, p))
    BY <1>1, HoldersFinite
  <1>4. PICK l \in Nat : l = Cardinality(SlotsOf(heap, p)) /\ IsFiniteSet(SlotsOf(heap, p))
    BY SlotsFinite
  <1>5. 1 - l = n + m + Keeps(temp, p) + Is(p, owed.ptr)
    BY <1>1, <1>2, <1>3, <1>4 DEF Outer, Holders
  <1>6. Keeps(temp, p) \in Nat /\ Is(p, owed.ptr) \in Nat
    BY DEF Keeps, Is
  <1>7. v \in OwnersOf(env, p)
    BY DEF OwnersOf, Ptr
  <1>8. n # 0
    BY <1>2, <1>7, FS_EmptySet
  <1>9. n = 1 /\ m = 0 /\ l = 0
    BY <1>5, <1>6, <1>8
  <1>10. CallsOf(frames, p) = {} /\ SlotsOf(heap, p) = {}
    BY <1>3, <1>4, <1>9, FS_EmptySet
  <1>11. \A w \in OwnersOf(env, p) : w = v
    <2>1. PICK w : OwnersOf(env, p) = {w}
      BY <1>2, <1>9, FS_Singleton
    <2> QED
      BY <1>7, <2>1
  <1>12. ASSUME NEW w \in Vars \ {v} PROVE Clear({p}, w)
    <2> SUFFICES ASSUME Bound(w) PROVE Ptr(w) # p /\ \A i \in DOMAIN heap[Ptr(w)].data :
                                                        heap[Ptr(w)].data[i] # p
      BY DEF Clear
    <2>1. env[w] \in Slot /\ env[w].mode # "none" /\ Ptr(w) \in Addr
      BY Alive DEF IInv, Scoped, Bound
    <2>2. Ptr(w) # p
      <3>1. CASE env[w].mode = "param"
        <4>1. env[w].depth \in 1..Depth /\ frames[env[w].depth].held.ptr = Ptr(w)
          BY <3>1 DEF IInv, Params
        <4> QED
          BY <1>10, <4>1 DEF CallsOf, Depth
      <3>2. CASE env[w].mode # "param"
        <4>1. env[w].mode \in Owning
          BY <2>1, <3>2, Typed
        <4> QED
          BY <1>11, <4>1 DEF OwnersOf, Ptr
      <3> QED
        BY <3>1, <3>2
    <2>3. ASSUME NEW i \in DOMAIN heap[Ptr(w)].data, heap[Ptr(w)].data[i] = p PROVE FALSE
      <3>1. heap[Ptr(w)].data \in Seq(Ints \cup Addr) /\ Len(heap[Ptr(w)].data) <= MaxLen
        BY <2>1, ShapedCell DEF IInv
      <3>2. i \in 1..MaxLen
        BY <3>1, ArcAssumption
      <3>3. <<Ptr(w), i>> \in SlotsOf(heap, p)
        BY <2>1, <2>3, <3>2 DEF SlotsOf
      <3> QED
        BY <1>10, <3>3
    <2> QED
      BY <2>2, <2>3
  <1> QED
    BY <1>12

\* The same for a row that one slot of that object refers to.
LEMMA AloneInside ==
  ASSUME NEW K \in Kinds, IInv(K), NEW v \in Vars, env[v].mode \in Owning, NEW p \in Addr,
         p = Ptr(v), heap[p].rc = 1,
         NEW i \in DOMAIN heap[p].data, NEW r \in Addr, r = heap[p].data[i], heap[r].rc = 1
  PROVE  /\ \A w \in Vars \ {v} : Clear({r}, w)
         /\ \A j \in DOMAIN heap[p].data : j # i => heap[p].data[j] # r
PROOF
  <1>1. frames \in Seq(Frame) /\ Outer(heap, r) = Holders(env, frames, temp, owed, r)
    BY DEF IInv, Scoped, Counted
  <1>2. PICK n \in Nat : n = Cardinality(OwnersOf(env, r)) /\ IsFiniteSet(OwnersOf(env, r))
    BY <1>1, HoldersFinite
  <1>3. PICK m \in Nat : m = Cardinality(CallsOf(frames, r)) /\ IsFiniteSet(CallsOf(frames, r))
    BY <1>1, HoldersFinite
  <1>4. PICK l \in Nat : l = Cardinality(SlotsOf(heap, r)) /\ IsFiniteSet(SlotsOf(heap, r))
    BY SlotsFinite
  <1>5. 1 - l = n + m + Keeps(temp, r) + Is(r, owed.ptr)
    BY <1>1, <1>2, <1>3, <1>4 DEF Outer, Holders
  <1>6. Keeps(temp, r) \in Nat /\ Is(r, owed.ptr) \in Nat
    BY DEF Keeps, Is
  <1>7. \A b \in Addr : \A j \in DOMAIN heap[b].data : heap[b].data[j] = r => <<b, j>> \in SlotsOf(heap, r)
    <2>1. ASSUME NEW b \in Addr, NEW j \in DOMAIN heap[b].data, heap[b].data[j] = r
          PROVE  <<b, j>> \in SlotsOf(heap, r)
      <3>1. heap[b].data \in Seq(Ints \cup Addr) /\ Len(heap[b].data) <= MaxLen
        BY ShapedCell DEF IInv
      <3>2. j \in 1..MaxLen
        BY <3>1, ArcAssumption
      <3> QED
        BY <2>1, <3>2 DEF SlotsOf
    <2> QED
      BY <2>1
  <1>8. <<p, i>> \in SlotsOf(heap, r) /\ l # 0
    BY <1>4, <1>7, FS_EmptySet
  <1>9. n = 0 /\ m = 0 /\ l = 1
    <2>1. PICK x \in Nat, y \in Nat : x = Keeps(temp, r) /\ y = Is(r, owed.ptr)
      BY <1>6
    <2>2. 1 - l = n + m + x + y
      BY <1>5, <2>1
    <2> QED
      BY <1>2, <1>3, <1>4, <1>8, <2>1, <2>2
  <1>10. CallsOf(frames, r) = {} /\ OwnersOf(env, r) = {}
    BY <1>2, <1>3, <1>9, FS_EmptySet
  <1>11. \A s \in SlotsOf(heap, r) : s = <<p, i>>
    <2>1. PICK s : SlotsOf(heap, r) = {s}
      BY <1>4, <1>9, FS_Singleton
    <2> QED
      BY <1>8, <2>1
  <1>12. \A w \in Vars \ {v} : Clear({p}, w)
    BY Alone
  <1>13. ASSUME NEW w \in Vars \ {v} PROVE Clear({r}, w)
    <2> SUFFICES ASSUME Bound(w) PROVE Ptr(w) # r /\ \A j \in DOMAIN heap[Ptr(w)].data :
                                                        heap[Ptr(w)].data[j] # r
      BY DEF Clear
    <2>1. env[w] \in Slot /\ env[w].mode # "none" /\ Ptr(w) \in Addr
      BY Alive DEF IInv, Scoped, Bound
    <2>2. Ptr(w) # r
      <3>1. CASE env[w].mode = "param"
        <4>1. env[w].depth \in 1..Depth /\ frames[env[w].depth].held.ptr = Ptr(w)
          BY <3>1 DEF IInv, Params
        <4> QED
          BY <1>10, <4>1 DEF CallsOf, Depth
      <3>2. CASE env[w].mode # "param"
        <4>1. env[w].mode \in Owning
          BY <2>1, <3>2, Typed
        <4> QED
          BY <1>10, <4>1 DEF OwnersOf, Ptr
      <3> QED
        BY <3>1, <3>2
    <2>3. ASSUME NEW j \in DOMAIN heap[Ptr(w)].data, heap[Ptr(w)].data[j] = r PROVE FALSE
      <3>1. <<Ptr(w), j>> \in SlotsOf(heap, r)
        BY <1>7, <2>1, <2>3
      <3>2. Ptr(w) = p
        BY <1>11, <3>1
      <3> QED
        BY <1>12, <3>2 DEF Clear
    <2> QED
      BY <2>2, <2>3
  <1>14. ASSUME NEW j \in DOMAIN heap[p].data, j # i PROVE heap[p].data[j] # r
    BY <1>7, <1>11, <1>14
  <1> QED
    BY <1>13, <1>14

-----------------------------------------------------------------------------
(* Expressions *)

\* A heap operation followed by another.
LEMMA KeepsAll ==
  ASSUME NEW K \in Kinds, IInv(K), NEW J \in Kinds, IInv(J)', NEW T \in SUBSET FreeCells(heap), Saves(T),
         UNCHANGED <<env, leaving>>
  PROVE  Seen' = Seen
PROOF
  <1>1. ASSUME NEW w \in Vars PROVE View(w)' = View(w)
    <2>1. Clear(T, w) /\ T \in SUBSET Addr
      BY FreshClear DEF FreeCells
    <2> QED
      BY <2>1, ViewKept
  <1> QED
    BY <1>1, SeenKept

LEMMA RowLitMaps ==
  ASSUME NEW K \in Kinds, IInv(K), NEW J \in Kinds, IInv(J)', RowLit
  PROVE  V!Next
PROOF
  <1>1. PICK a \in FreeCells(heap), s \in {<< >>} \cup {<<n>> : n \in Ints} :
          heap' = Alloc(heap, a, s, Len(s)) /\ Owned(a, "row")
    BY DEF RowLit
  <1>2. a \in Addr /\ temp = NoTemp /\ UNCHANGED <<env, leaving>>
    BY <1>1 DEF RowLit, AtStmt, FreeCells
  <1>3. s \in Datas /\ Len(s) \in Int
    <2>1. CASE s = << >>
      BY <2>1 DEF Datas
    <2>2. CASE \E n \in Ints : s = <<n>>
      BY <2>2 DEF Datas
    <2> QED
      BY <1>1, <2>1, <2>2
  <1>4. heap \in Loose
    BY HeapsAreLoose DEF IInv
  <1>5. heap'[a].data = s /\ \A c \in Addr \ {a} : heap'[c].data = heap[c].data
    BY <1>1, <1>2, <1>3, <1>4, AllocData
  <1>6. Saves({a})
    BY <1>5 DEF Saves
  <1>7. Seen' = Seen
    BY <1>1, <1>2, <1>6, KeepsAll
  <1>8. temp.kind = "none" /\ temp' # NoTemp /\ temp'.kind = "row" /\ temp'.ptr = a
    BY <1>1, <1>2 DEF Owned, NoTemp
  <1>9. Shown' = s
    BY <1>5, <1>8 DEF Shown, Deref
  <1>10. V!Literal
    BY <1>1, <1>8, <1>9 DEF V!Literal
  <1> QED
    BY <1>7, <1>10 DEF V!Next, V!Evaluate

LEMMA IdentMaps ==
  ASSUME NEW K \in Kinds, IInv(K), NEW J \in Kinds, IInv(J)', NEW v \in Vars, Ident(v)
  PROVE  V!Next
PROOF
  <1>1. Visible(v) /\ temp = NoTemp /\ UNCHANGED <<heap, env, leaving>>
        /\ temp' = [ptr |-> Ptr(v), kind |-> Kind(v), owned |-> FALSE, name |-> v]
    BY DEF Ident, AtStmt, Borrowed
  <1>2. Bound(v) /\ v \notin leaving
    BY <1>1 DEF Visible
  <1>3. Seen' = Seen
    BY <1>1 DEF Seen, View, Bound, Ptr, Deref
  <1>4. temp.kind = "none" /\ temp' # NoTemp /\ temp'.kind = Kind(v) /\ temp'.ptr = Ptr(v)
    <2>1. Ptr(v) # Nil
      BY <1>2, Alive, ArcAssumption
    <2> QED
      BY <1>1, <2>1 DEF NoTemp
  <1>5. Shown' = View(v)
    BY <1>1, <1>2, <1>4 DEF Shown, View, Deref, Ptr
  <1>6. Seen[v] = View(v) /\ Seen[v] # Nil
    BY <1>2, ViewShape
  <1>7. V!Read
    <2>1. v \in V!VarsOf(temp'.kind) /\ temp'.kind # "none"
      BY <1>4, KindVars
    <2> QED
      BY <1>4, <1>5, <1>6, <2>1 DEF V!Read, V!Bound
  <1> QED
    BY <1>3, <1>7 DEF V!Next, V!Evaluate

LEMMA PlaceMaps ==
  ASSUME NEW K \in Kinds, IInv(K), NEW J \in Kinds, IInv(J)', NEW g \in Nested, NEW i, Place(g, i)
  PROVE  V!Next
PROOF
  <1>1. PICK p, r : p = Ptr(g) /\ r = heap[p].data[i]
    OBVIOUS
  <1>2. Visible(g) /\ temp = NoTemp /\ UNCHANGED <<heap, env, leaving>> /\ i \in DOMAIN heap[p].data
        /\ temp' = [ptr |-> r, kind |-> "row", owned |-> FALSE, name |-> Nil]
    BY <1>1 DEF Place, AtStmt, Borrowed
  <1>3. Bound(g) /\ g \notin leaving /\ g \in Vars /\ Kind(g) # "row" /\ r \in Addr
    BY <1>1, <1>2, Contained DEF Visible
  <1>4. Seen' = Seen
    BY <1>2 DEF Seen, View, Bound, Ptr, Deref
  <1>5. temp.kind = "none" /\ temp' # NoTemp /\ temp'.kind = "row" /\ temp'.ptr = r
    BY <1>2, <1>3, ArcAssumption DEF NoTemp
  <1>6. Shown' = heap[r].data
    BY <1>2, <1>5 DEF Shown, Deref
  <1>7. View(g) = [j \in DOMAIN heap[p].data |-> heap[heap[p].data[j]].data]
    BY <1>1, <1>3 DEF View, Deref
  <1>8. Seen[g] = View(g) /\ Seen[g] # Nil
    BY <1>3, ViewShape
  <1>9. i \in DOMAIN Seen[g] /\ Seen[g][i] = heap[r].data
    BY <1>1, <1>2, <1>7, <1>8
  <1>10. V!ReadElem
    <2>1. g \in V!Nested
      BY DEF Nested, V!Nested
    <2> QED
      BY <1>5, <1>6, <1>8, <1>9, <2>1 DEF V!ReadElem, V!Bound
  <1> QED
    BY <1>4, <1>10 DEF V!Next, V!Evaluate

LEMMA RetainTempData ==
  ASSUME NEW h \in Loose, temp.ptr \in Addr
  PROVE  RetainTemp(h) \in Loose /\ \A c \in Addr : RetainTemp(h)[c].data = h[c].data
PROOF
  BY RetainData DEF RetainTemp

LEMMA GridLitMaps ==
  ASSUME NEW K \in Kinds, IInv(K), NEW J \in Kinds, IInv(J)', GridLit
  PROVE  V!Next
PROOF
  <1>1. PICK a \in FreeCells(heap) :
          /\ heap' = RetainTemp(Alloc(heap, a, <<temp.ptr>>, 1))
          /\ Owned(a, "grid")
    BY DEF GridLit, RetainTemp
  <1>2. /\ temp # NoTemp /\ temp.kind = "row" /\ a \in Addr /\ heap[a].rc = 0
        /\ UNCHANGED <<env, leaving>>
    BY <1>1 DEF GridLit, HasTemp, FreeCells
  <1>3. temp.ptr \in Addr /\ temp.ptr # a
    BY <1>2, Alive
  <1>4. heap \in Loose /\ <<temp.ptr>> \in Datas
    BY <1>3, HeapsAreLoose DEF IInv, Datas
  <1>5. PICK g : g = Alloc(heap, a, <<temp.ptr>>, 1)
    OBVIOUS
  <1>6. g \in Loose /\ g[a].data = <<temp.ptr>> /\ \A c \in Addr \ {a} : g[c].data = heap[c].data
    BY <1>2, <1>4, <1>5, AllocData
  <1>7. \A c \in Addr : heap'[c].data = g[c].data
    BY <1>1, <1>3, <1>5, <1>6, RetainTempData
  <1>8. Saves({a})
    BY <1>6, <1>7 DEF Saves
  <1>9. Seen' = Seen
    BY <1>1, <1>2, <1>8, KeepsAll
  <1>10. temp' # NoTemp /\ temp'.kind = "grid" /\ temp'.ptr = a
    BY <1>1 DEF Owned, NoTemp
  <1>11. heap'[a].data = <<temp.ptr>> /\ heap'[temp.ptr].data = Shown
    BY <1>2, <1>3, <1>6, <1>7 DEF Shown, Deref
  <1>12. Shown' = [i \in DOMAIN heap'[a].data |-> heap'[heap'[a].data[i]].data]
    BY <1>10 DEF Shown, Deref
  <1>13. Shown' = <<Shown>>
    <2>1. PICK x, y : x = Shown /\ y = temp.ptr
      OBVIOUS
    <2>2. DOMAIN <<y>> = {1} /\ <<y>>[1] = y
      OBVIOUS
    <2>3. [i \in {1} |-> x] = <<x>>
      OBVIOUS
    <2>4. Shown' = [i \in {1} |-> x]
      BY <1>11, <1>12, <2>1, <2>2
    <2> QED
      BY <2>1, <2>3, <2>4
  <1>14. V!Wrap
    BY <1>2, <1>10, <1>13 DEF V!Wrap
  <1> QED
    BY <1>9, <1>14 DEF V!Next, V!Evaluate

LEMMA StructLitMaps ==
  ASSUME NEW K \in Kinds, IInv(K), NEW J \in Kinds, IInv(J)', StructLit
  PROVE  V!Next
PROOF
  <1>1. PICK a \in FreeCells(heap), rs \in [1..NFields -> {r \in Rows : Visible(r)}] :
          /\ heap' = RetainSlots(Alloc(heap, a, [f \in 1..NFields |-> Ptr(rs[f])], 0),
                                 [f \in 1..NFields |-> Ptr(rs[f])], 1..NFields)
          /\ Owned(a, "struct")
    BY DEF StructLit
  <1>2. /\ temp = NoTemp /\ a \in Addr /\ heap[a].rc = 0
        /\ UNCHANGED <<env, leaving>>
    BY <1>1 DEF StructLit, AtStmt, FreeCells
  <1> DEFINE d == [f \in 1..NFields |-> Ptr(rs[f])]
  <1>3. ASSUME NEW f \in 1..NFields
        PROVE  /\ rs[f] \in Rows /\ rs[f] \in Vars /\ d[f] = Ptr(rs[f]) /\ d[f] \in Addr /\ d[f] # a
               /\ Seen[rs[f]] # Nil /\ Seen[rs[f]] = heap[d[f]].data
    <2>1. rs[f] \in Rows /\ Visible(rs[f])
      BY <1>1
    <2>2. rs[f] \in Vars /\ Bound(rs[f]) /\ rs[f] \notin leaving /\ Kind(rs[f]) = "row"
      BY <2>1 DEF Visible, Vars, Kind
    <2>3. d[f] = Ptr(rs[f]) /\ d[f] \in Addr /\ d[f] # a
      BY <1>2, <2>2, Alive
    <2>4. Seen[rs[f]] = View(rs[f]) /\ Seen[rs[f]] # Nil
      BY <2>2, ViewShape
    <2>5. View(rs[f]) = heap[d[f]].data
      BY <2>2, <2>3 DEF View, Deref
    <2> QED
      BY <2>1, <2>2, <2>3, <2>4, <2>5
  <1>4. NFields \in Nat
    BY ArcAssumption
  <1>5. d \in Datas /\ d \in Seq(Addr) /\ DOMAIN d = 1..NFields
    BY <1>3, <1>4 DEF Datas
  <1>6. heap' = RetainSlots(Alloc(heap, a, d, 0), d, 1..NFields)
    BY <1>1
  <1> HIDE DEF d
  <1>7. heap \in Loose
    BY HeapsAreLoose DEF IInv
  <1>8. PICK g : g = Alloc(heap, a, d, 0)
    OBVIOUS
  <1>9. g \in Loose /\ g[a].data = d /\ \A c \in Addr \ {a} : g[c].data = heap[c].data
    BY <1>2, <1>5, <1>7, <1>8, AllocData
  <1>10. \A c \in Addr : heap'[c].data = g[c].data
    BY <1>5, <1>6, <1>8, <1>9, RetainSlotsData
  <1>11. Saves({a})
    BY <1>9, <1>10 DEF Saves
  <1>12. Seen' = Seen
    BY <1>1, <1>2, <1>11, KeepsAll
  <1>13. temp' # NoTemp /\ temp'.kind = "struct" /\ temp'.ptr = a /\ temp.kind = "none"
    BY <1>1, <1>2 DEF Owned, NoTemp
  <1>14. heap'[a].data = d /\ \A f \in 1..NFields : heap'[d[f]].data = Seen[rs[f]]
    BY <1>2, <1>3, <1>9, <1>10
  <1>15. Shown' = [i \in DOMAIN heap'[a].data |-> heap'[heap'[a].data[i]].data]
    BY <1>13 DEF Shown, Deref
  <1>16. Shown' = [f \in 1..NFields |-> Seen[rs[f]]]
    BY <1>5, <1>14, <1>15
  <1>17. V!Build
    <2>1. rs \in [1..NFields -> Rows] /\ \A f \in 1..NFields : V!Bound(rs[f])
      BY <1>1, <1>3 DEF V!Bound
    <2> QED
      BY <1>13, <1>16, <2>1 DEF V!Build
  <1> QED
    BY <1>12, <1>17 DEF V!Next, V!Evaluate

-----------------------------------------------------------------------------
(* Values that are bound or dropped *)

\* v is bound to the object of the pending value.
LEMMA BoundShown ==
  ASSUME NEW K \in Kinds, IInv(K), NEW J \in Kinds, IInv(J)', Saves({}),
         NEW v \in Vars, temp # NoTemp, Kind(v) = temp.kind, temp' = NoTemp,
         v \notin leaving, leaving' = leaving,
         NEW x, x.ptr = temp.ptr, x.mode # "none", env' = [env EXCEPT ![v] = x]
  PROVE  V!Next
PROOF
  <1>1. env'[v] = x /\ \A w \in Vars \ {v} : env'[w] = env[w]
    BY DEF IInv, Scoped
  <1>2. \A w \in Vars \ {v} : View(w)' = View(w)
    <2>1. ASSUME NEW w \in Vars \ {v} PROVE View(w)' = View(w)
      <3>1. Clear({}, w) /\ env'[w] = env[w]
        BY <1>1 DEF Clear
      <3> QED
        BY <3>1, ViewKept
    <2> QED
      BY <2>1
  <1>3. PICK p \in Addr : p = temp.ptr
    BY Alive
  <1>4. PICK k : k = temp.kind
    OBVIOUS
  <1>5. k \in KindNames /\ K[p] = k
    BY <1>3, <1>4 DEF IInv, Agreed, Kinds
  <1>6. Bound(v)' /\ Ptr(v)' = p
    BY <1>1, <1>3 DEF Bound, Ptr
  <1>7. heap'[p].rc > 0
    BY <1>6, AliveNext DEF Living
  <1>8. k # "row" => \A i \in DOMAIN heap[p].data : heap[p].data[i] \in Addr
    <2>1. heap[p].data \in Contents(K, K[p])
      BY ShapedCell DEF IInv
    <2>2. k # "row" => heap[p].data \in Seq(RowsOf(K))
      BY <1>5, <2>1 DEF Contents
    <2> QED
      BY <2>2 DEF RowsOf
  <1>9. Deref(k, p)' = Deref(k, p)
    BY <1>7, <1>8, DerefKept
  <1>10. Shown = Deref(k, p)
    BY <1>3, <1>4 DEF Shown
  <1>11. View(v)' = Deref(k, p)'
    BY <1>4, <1>6 DEF View
  <1>12. Seen' = [Seen EXCEPT ![v] = Shown]
    BY <1>2, <1>9, <1>10, <1>11, SeenBut
  <1> QED
    BY <1>4, <1>5, <1>12, BindsShown

LEMMA LetMaps ==
  ASSUME NEW K \in Kinds, IInv(K), NEW J \in Kinds, IInv(J)', NEW v \in Vars, Let(v)
  PROVE  V!Next
PROOF
  <1>1. temp # NoTemp /\ Kind(v) = temp.kind /\ temp' = NoTemp /\ leaving = {} /\ leaving' = leaving
        /\ heap' = RetainTemp(heap)
    BY DEF Let, HasTemp, Working
  <1>2. PICK x : x = [ptr |-> temp.ptr, mode |-> "local", depth |-> Depth]
    OBVIOUS
  <1>3. x.ptr = temp.ptr /\ x.mode # "none" /\ env' = [env EXCEPT ![v] = x]
    BY <1>2 DEF Let
  <1>4. temp.ptr \in Addr /\ heap \in Loose
    BY <1>1, Alive, HeapsAreLoose DEF IInv
  <1>5. Saves({})
    BY <1>1, <1>4, RetainTempData DEF Saves
  <1> QED
    BY <1>1, <1>3, <1>5, BoundShown

LEMMA AssignMaps ==
  ASSUME NEW K \in Kinds, IInv(K), NEW J \in Kinds, IInv(J)', NEW v \in Vars, Assign(v)
  PROVE  V!Next
PROOF
  <1>1. temp # NoTemp /\ Kind(v) = temp.kind /\ temp' = NoTemp /\ leaving = {} /\ leaving' = leaving
        /\ Mutable(v) /\ Repoint(v, temp.ptr)
        /\ heap' = IF Ptr(v) = temp.ptr THEN heap ELSE Release(RetainTemp(heap), Kind(v), Ptr(v))
    BY DEF Assign, HasTemp, Working
  <1>2. Bound(v)
    BY <1>1 DEF Mutable, Visible
  <1>3. temp.ptr \in Addr /\ heap \in Loose /\ Ptr(v) \in Addr
    BY <1>1, <1>2, Alive, HeapsAreLoose DEF IInv
  <1>4. Saves({})
    <2>1. PICK h : h = RetainTemp(heap)
      OBVIOUS
    <2>2. h \in Loose /\ \A c \in Addr : h[c].data = heap[c].data
      BY <1>3, <2>1, RetainTempData
    <2>3. PICK p, k : p = Ptr(v) /\ k = Kind(v)
      OBVIOUS
    <2>4. \A c \in Addr : Release(h, k, p)[c].rc > 0 => Release(h, k, p)[c].data = h[c].data
      BY <1>3, <2>2, <2>3, ReleaseData
    <2> QED
      BY <1>1, <2>1, <2>2, <2>3, <2>4 DEF Saves
  <1>5. PICK x : x = [env[v] EXCEPT !.ptr = temp.ptr]
    OBVIOUS
  <1>6. x.ptr = temp.ptr /\ x.mode # "none" /\ env' = [env EXCEPT ![v] = x]
    <2>1. env[v] \in Slot /\ env[v].mode # "none"
      BY <1>2 DEF IInv, Scoped, Bound
    <2>2. env[v].ptr = env[v].ptr /\ x.ptr = temp.ptr /\ x.mode = env[v].mode
      BY <1>5, <2>1 DEF Slot, Unbound
    <2> QED
      BY <1>1, <1>5, <2>1, <2>2 DEF Repoint
  <1> QED
    BY <1>1, <1>4, <1>6, BoundShown

LEMMA ExprStmtMaps ==
  ASSUME NEW K \in Kinds, IInv(K), NEW J \in Kinds, IInv(J)', ExprStmt
  PROVE  V!Next
PROOF
  <1>1. temp # NoTemp /\ temp' = NoTemp /\ UNCHANGED <<env, leaving>>
        /\ heap' = IF temp.owned THEN Release(heap, temp.kind, temp.ptr) ELSE heap
    BY DEF ExprStmt
  <1>2. temp.ptr \in Addr /\ heap \in Loose /\ temp.kind \in KindNames
    BY <1>1, Alive, HeapsAreLoose DEF IInv, Agreed, Kinds
  <1>3. Saves({})
    <2>1. PICK p, k : p = temp.ptr /\ k = temp.kind
      OBVIOUS
    <2>2. \A c \in Addr : Release(heap, k, p)[c].rc > 0 => Release(heap, k, p)[c].data = heap[c].data
      BY <1>2, <2>1, ReleaseData
    <2> QED
      BY <1>1, <2>1, <2>2 DEF Saves
  <1>4. Seen' = Seen
    BY <1>1, <1>3, KeepsAll
  <1> QED
    BY <1>1, <1>2, <1>4, DropsShown

LEMMA CallBorrowingMaps ==
  ASSUME NEW K \in Kinds, IInv(K), NEW J \in Kinds, IInv(J)', NEW v \in Vars, CallBorrowing(v)
  PROVE  V!Next
PROOF
  <1>1. temp # NoTemp /\ Kind(v) = temp.kind /\ temp' = NoTemp /\ leaving = {} /\ leaving' = leaving
        /\ heap' = RetainTemp(heap)
    BY DEF CallBorrowing, HasTemp, Working
  <1>2. PICK x : x = [ptr |-> temp.ptr, mode |-> "param", depth |-> Depth + 1]
    OBVIOUS
  <1>3. x.ptr = temp.ptr /\ x.mode # "none" /\ env' = [env EXCEPT ![v] = x]
    BY <1>2 DEF CallBorrowing
  <1>4. temp.ptr \in Addr /\ heap \in Loose
    BY <1>1, Alive, HeapsAreLoose DEF IInv
  <1>5. Saves({})
    BY <1>1, <1>4, RetainTempData DEF Saves
  <1> QED
    BY <1>1, <1>3, <1>5, BoundShown

LEMMA CallMutableMaps ==
  ASSUME NEW K \in Kinds, IInv(K), NEW J \in Kinds, IInv(J)', NEW v \in Vars, CallMutable(v)
  PROVE  V!Next
PROOF
  <1>1. temp # NoTemp /\ Kind(v) = temp.kind /\ temp' = NoTemp /\ leaving = {} /\ leaving' = leaving
        /\ heap' = Retain(heap, temp.ptr)
    BY DEF CallMutable, HasTemp, Working
  <1>2. PICK x : x = [ptr |-> temp.ptr, mode |-> "mutparam", depth |-> Depth + 1]
    OBVIOUS
  <1>3. x.ptr = temp.ptr /\ x.mode # "none" /\ env' = [env EXCEPT ![v] = x]
    BY <1>2 DEF CallMutable
  <1>4. temp.ptr \in Addr /\ heap \in Loose
    BY <1>1, Alive, HeapsAreLoose DEF IInv
  <1>5. Saves({})
    BY <1>1, <1>4, RetainData DEF Saves
  <1> QED
    BY <1>1, <1>3, <1>5, BoundShown

-----------------------------------------------------------------------------
(* Writes: in place when the object has one reference, in a copy otherwise *)

LEMMA ClearBoth ==
  ASSUME NEW S, NEW T, NEW w \in Vars, Clear(S, w), Clear(T, w)
  PROVE  Clear(S \cup T, w)
PROOF
  BY DEF Clear

\* v, and nothing else, shows what the object at q now holds.
LEMMA Updated ==
  ASSUME NEW K \in Kinds, IInv(K), NEW J \in Kinds, IInv(J)', NEW T \in SUBSET Addr, Saves(T),
         NEW v \in Vars, Mutable(v), leaving' = leaving,
         NEW q \in Addr, Repoint(v, q) \/ (UNCHANGED env /\ q = Ptr(v)),
         \A w \in Vars \ {v} : Clear(T, w)
  PROVE  /\ Seen' = [Seen EXCEPT ![v] = Deref(Kind(v), q)']
         /\ heap'[q].rc > 0
         /\ View(v) = Deref(Kind(v), Ptr(v)) /\ View(v) # Nil /\ Seen[v] = View(v)
PROOF
  <1>1. Bound(v) /\ v \notin leaving /\ env \in [Vars -> Slot]
    BY DEF Mutable, Visible, IInv, Scoped
  <1>2. env'[v].ptr = q /\ env'[v].mode = env[v].mode /\ \A w \in Vars \ {v} : env'[w] = env[w]
    <2>1. CASE Repoint(v, q)
      <3>1. env[v] \in Slot
        BY <1>1
      <3>2. env' = [env EXCEPT ![v] = [env[v] EXCEPT !.ptr = q]]
        BY <1>1, <2>1 DEF Repoint
      <3> QED
        BY <1>1, <3>1, <3>2 DEF Slot, Unbound
    <2>2. CASE UNCHANGED env /\ q = Ptr(v)
      BY <2>2 DEF Ptr
    <2> QED
      BY <2>1, <2>2
  <1>3. Bound(v)' /\ Ptr(v)' = q
    BY <1>1, <1>2 DEF Bound, Ptr
  <1>4. heap'[q].rc > 0
    BY <1>3, AliveNext DEF Living
  <1>5. View(v)' = Deref(Kind(v), q)'
    BY <1>1, <1>3 DEF View
  <1>6. \A w \in Vars \ {v} : View(w)' = View(w)
    BY <1>2, ViewKept
  <1>7. Seen' = [Seen EXCEPT ![v] = Deref(Kind(v), q)']
    BY <1>5, <1>6, SeenBut
  <1>8. View(v) = Deref(Kind(v), Ptr(v))
    BY <1>1 DEF View
  <1> QED
    BY <1>1, <1>4, <1>7, <1>8, ViewShape

\* The target of a write: the object of v alone, or a new one.
Target(v, q) ==
  \/ UNCHANGED env /\ q = Ptr(v) /\ heap[q].rc = 1
  \/ q \in FreeCells(heap) /\ Repoint(v, q)

LEMMA TargetClear ==
  ASSUME NEW K \in Kinds, IInv(K), NEW v \in Vars, Mutable(v), NEW q, Target(v, q)
  PROVE  /\ q \in Addr /\ (Repoint(v, q) \/ (UNCHANGED env /\ q = Ptr(v)))
         /\ \A w \in Vars \ {v} : Clear({q}, w)
         /\ Ptr(v) \in Addr /\ K[Ptr(v)] = Kind(v)
         /\ \A c \in Addr : K[c] # Kind(v) /\ heap[c].rc > 0 => c # q
PROOF
  <1>1. Bound(v) /\ env[v].mode # "param" /\ env[v] \in Slot /\ env[v].mode # "none"
    BY DEF Mutable, Visible, IInv, Scoped, Bound
  <1>2. env[v].mode \in Owning
    BY <1>1, Typed
  <1>3. Ptr(v) \in Addr /\ K[Ptr(v)] = Kind(v)
    BY <1>1, Alive DEF IInv, Agreed
  <1>4. CASE UNCHANGED env /\ q = Ptr(v) /\ heap[q].rc = 1
    <2>1. \A w \in Vars \ {v} : Clear({q}, w)
      BY <1>2, <1>3, <1>4, Alone
    <2> QED
      BY <1>3, <1>4, <2>1
  <1>5. CASE q \in FreeCells(heap) /\ Repoint(v, q)
    <2>1. \A w \in Vars \ {v} : Clear({q}, w)
      BY <1>5, FreshClear
    <2>2. q \in Addr /\ heap[q].rc = 0
      BY <1>5 DEF FreeCells
    <2> QED
      BY <1>3, <1>5, <2>1, <2>2
  <1> QED
    BY <1>4, <1>5 DEF Target

LEMMA ElementStored ==
  ASSUME NEW K \in Kinds, IInv(K), NEW J \in Kinds, IInv(J)', NEW v \in Nested, Mutable(v),
         leaving' = leaving, temp # NoTemp, temp.kind = "row", temp' = NoTemp,
         NEW p, p = Ptr(v), NEW i \in DOMAIN heap[p].data,
         NEW q, Target(v, q), Saves({q}),
         heap'[q].rc > 0 => heap'[q].data = Put(heap[p].data, i, temp.ptr)
  PROVE  V!Next
PROOF
  <1>0. v \in Vars
    BY DEF Vars
  <1>1. v \in Vars /\ Bound(v) /\ Kind(v) # "row" /\ p \in Addr /\ K[p] = Kind(v)
        /\ heap[p].data \in Seq(RowsOf(K))
        /\ \A j \in DOMAIN heap[p].data : heap[p].data[j] \in Addr /\ K[heap[p].data[j]] = "row"
                                            /\ heap[heap[p].data[j]].rc > 0
    BY Contained DEF Mutable, Visible
  <1>2. /\ q \in Addr /\ (Repoint(v, q) \/ (UNCHANGED env /\ q = Ptr(v)))
        /\ \A w \in Vars \ {v} : Clear({q}, w)
        /\ \A c \in Addr : K[c] # Kind(v) /\ heap[c].rc > 0 => c # q
    BY <1>0, TargetClear
  <1>3. /\ Seen' = [Seen EXCEPT ![v] = Deref(Kind(v), q)']
        /\ heap'[q].rc > 0
        /\ View(v) = Deref(Kind(v), p) /\ View(v) # Nil
    <2>1. {q} \in SUBSET Addr
      BY <1>2
    <2>2. PICK T : T = {q}
      OBVIOUS
    <2>3. T \in SUBSET Addr /\ Saves(T) /\ \A w \in Vars \ {v} : Clear(T, w)
      BY <1>2, <2>1, <2>2
    <2> QED
      BY <1>0, <1>2, <2>3, Updated
  <1>4. PICK x \in Addr : x = temp.ptr /\ K[x] = "row" /\ heap[x].rc > 0
    BY Alive DEF IInv, Agreed
  <1>5. x # q /\ heap'[q].data = Put(heap[p].data, i, x) /\ Shown = heap[x].data
    BY <1>1, <1>2, <1>3, <1>4 DEF Shown, Deref
  <1>6. heap'[x].rc > 0
    <2>1. Living(J)'
      BY AliveNext
    <2>2. i \in DOMAIN heap'[q].data /\ heap'[q].data[i] = x
      BY <1>1, <1>5 DEF Put
    <2> QED
      BY <1>2, <1>4, <2>1, <2>2 DEF Living
  <1>7. heap'[x].data = Shown
    BY <1>4, <1>5, <1>6 DEF Saves
  <1>8. PICK k : k = Kind(v)
    OBVIOUS
  <1>9. Deref(k, q)' = Put(Deref(k, p), i, Shown)
    <2>1. \A j \in DOMAIN heap[p].data : j # i => heap[p].data[j] \notin {q}
      BY <1>1, <1>2
    <2>2. {q} \in SUBSET Addr
      BY <1>2
    <2>3. PICK R : R = Shown
      OBVIOUS
    <2>4. heap'[x].data = R
      BY <1>7, <2>3
    <2>5. Deref(k, q)' = Put(Deref(k, p), i, R)
      BY <1>1, <1>2, <1>3, <1>5, <1>8, <2>1, <2>2, <2>4, StoredView
    <2> QED
      BY <2>3, <2>5
  <1>10. Seen' = [Seen EXCEPT ![v] = Put(View(v), i, Shown)]
    BY <1>3, <1>8, <1>9
  <1>11. i \in DOMAIN View(v)
    BY <1>1, <1>3 DEF Deref
  <1> QED
    BY <1>3, <1>10, <1>11, StoresShown

LEMMA IndexAssignMaps ==
  ASSUME NEW K \in Kinds, IInv(K), NEW J \in Kinds, IInv(J)', NEW g \in Grids, NEW i, IndexAssign(g, i)
  PROVE  V!Next
PROOF
  <1>1. PICK p, old : p = Ptr(g) /\ old = heap[Ptr(g)].data
    OBVIOUS
  <1>2. /\ temp # NoTemp /\ temp.kind = "row" /\ Mutable(g) /\ i \in DOMAIN heap[p].data
        /\ temp' = NoTemp /\ leaving' = leaving
    BY <1>1 DEF IndexAssign, HasTemp
  <1>3. PICK h, x, d : h = RetainTemp(heap) /\ x = temp.ptr /\ d = Put(old, i, temp.ptr)
    OBVIOUS
  <1>4. \/ \E a \in FreeCells(heap) :
             /\ heap' = RetainSlots(CowCopy(h, p, d, a), d, DOMAIN d \ {i})
             /\ Repoint(g, a)
        \/ /\ ~(heap[p].rc > 1)
           /\ heap' = ReleaseRow(Write(h, p, d), old[i])
           /\ UNCHANGED env
    BY <1>1, <1>3 DEF IndexAssign, Shared, Write, Put
  <1>5. /\ g \in Nested /\ Bound(g) /\ g \in Vars /\ p \in Addr /\ old \in Seq(RowsOf(K))
        /\ old[i] \in Addr /\ heap[p].rc > 0 /\ heap[p].rc \in Nat
    BY <1>1, <1>2, Contained, Alive DEF Mutable, Visible, Nested
  <1>6. x \in Addr /\ temp.ptr \in Addr /\ heap \in Loose
    BY <1>2, <1>3, Alive, HeapsAreLoose DEF IInv
  <1>7. h \in Loose /\ \A c \in Addr : h[c].data = heap[c].data
    BY <1>3, <1>6, RetainTempData
  <1>8. d \in Seq(Addr) /\ d \in Datas
    <2>1. old \in Seq(Addr)
      BY <1>5 DEF RowsOf
    <2>2. Put(old, i, x) \in Seq(Addr)
      BY <1>1, <1>2, <1>6, <2>1, AmongStored
    <2> QED
      BY <1>3, <2>2 DEF Datas
  <1>9. CASE ~(heap[p].rc > 1) /\ heap' = ReleaseRow(Write(h, p, d), old[i]) /\ UNCHANGED env
    <2>1. PICK f : f = Write(h, p, d)
      OBVIOUS
    <2>2. f \in Loose /\ f[p].data = d /\ \A c \in Addr \ {p} : f[c].data = h[c].data
      BY <1>5, <1>7, <1>8, <2>1, WriteData
    <2>3. PICK y \in Addr : y = old[i]
      BY <1>5
    <2>4. \A c \in Addr : ReleaseRow(f, y)[c].rc > 0 => ReleaseRow(f, y)[c].data = f[c].data
      BY <2>2, ReleaseRowData
    <2>5. heap' = ReleaseRow(f, y)
      BY <1>9, <2>1, <2>3
    <2>6. Saves({p}) /\ (heap'[p].rc > 0 => heap'[p].data = d)
      BY <1>5, <1>7, <2>2, <2>4, <2>5 DEF Saves
    <2>7. Target(g, p)
      BY <1>1, <1>5, <1>9 DEF Target
    <2>8. heap'[p].rc > 0 => heap'[p].data = Put(heap[p].data, i, temp.ptr)
      BY <1>1, <1>3, <2>6
    <2> QED
      BY <1>1, <1>2, <1>5, <2>6, <2>7, <2>8, ElementStored
  <1>10. CASE \E a \in FreeCells(heap) :
                /\ heap' = RetainSlots(CowCopy(h, p, d, a), d, DOMAIN d \ {i})
                /\ Repoint(g, a)
    <2>1. PICK a \in FreeCells(heap) :
            /\ heap' = RetainSlots(CowCopy(h, p, d, a), d, DOMAIN d \ {i})
            /\ Repoint(g, a)
      BY <1>10
    <2>2. a \in Addr
      BY DEF FreeCells
    <2>3. PICK f : f = CowCopy(h, p, d, a)
      OBVIOUS
    <2>4. f \in Loose /\ f[a].data = d /\ \A c \in Addr \ {a} : f[c].data = h[c].data
      BY <1>5, <1>7, <1>8, <2>2, <2>3, CowData, SMTT(30)
    <2>5. PICK I \in SUBSET (DOMAIN d) : I = DOMAIN d \ {i}
      OBVIOUS
    <2>6. \A c \in Addr : RetainSlots(f, d, I)[c].data = f[c].data
      BY <1>8, <2>4, RetainSlotsData
    <2>7. heap' = RetainSlots(f, d, I)
      BY <2>1, <2>3, <2>5
    <2>8. Saves({a}) /\ heap'[a].data = d
      BY <1>7, <2>2, <2>4, <2>6, <2>7 DEF Saves
    <2>9. Target(g, a)
      BY <2>1 DEF Target
    <2>10. heap'[a].data = Put(heap[p].data, i, temp.ptr)
      BY <1>1, <1>3, <2>8
    <2> QED
      BY <1>1, <1>2, <1>5, <2>8, <2>9, <2>10, ElementStored
  <1> QED
    BY <1>4, <1>9, <1>10

\* A field is replaced once its old value has been released.
FieldSet(f, r, a, i, x) == [ReleaseRow(f, r) EXCEPT ![a].data[i] = x]

LEMMA FieldData ==
  ASSUME NEW f \in Loose, NEW a \in Addr, NEW r \in Addr, NEW i, NEW x,
         NEW g, g = FieldSet(f, r, a, i, x)
  PROVE  /\ \A c \in Addr \ {a} : g[c].rc > 0 => g[c].data = f[c].data
         /\ g[a].rc > 0 => g[a].data = Put(f[a].data, i, x)
PROOF
  <1>1. PICK e : e = ReleaseRow(f, r)
    OBVIOUS
  <1>2. e \in Loose /\ \A c \in Addr : e[c].rc > 0 => e[c].data = f[c].data
    BY <1>1, ReleaseRowData
  <1>3. PICK d : d = [e[a].data EXCEPT ![i] = x]
    OBVIOUS
  <1>4. g = [e EXCEPT ![a] = [e[a] EXCEPT !.data = d]]
    BY <1>1, <1>3 DEF FieldSet
  <1>5. e[a] \in LooseCell /\ e \in [Addr -> LooseCell]
    BY <1>2 DEF Loose
  <1>6. g[a].rc = e[a].rc /\ g[a].data = d /\ \A c \in Addr \ {a} : g[c] = e[c]
    BY <1>4, <1>5 DEF LooseCell
  <1> QED
    BY <1>2, <1>3, <1>6 DEF Put

LEMMA FieldAssignMaps ==
  ASSUME NEW K \in Kinds, IInv(K), NEW J \in Kinds, IInv(J)', NEW s \in Structs, NEW i, FieldAssign(s, i)
  PROVE  V!Next
PROOF
  <1>1. PICK p, old, x : p = Ptr(s) /\ old = heap[Ptr(s)].data /\ x = temp.ptr
    OBVIOUS
  <1>2. /\ temp # NoTemp /\ temp.kind = "row" /\ Mutable(s) /\ i \in DOMAIN heap[p].data
        /\ temp' = NoTemp /\ leaving' = leaving
    BY <1>1 DEF FieldAssign, HasTemp
  <1>3. /\ s \in Nested /\ Bound(s) /\ s \in Vars /\ p \in Addr /\ old \in Seq(RowsOf(K))
        /\ old[i] \in Addr /\ heap[p].rc > 0 /\ heap[p].rc \in Nat
    BY <1>1, <1>2, Contained, Alive DEF Mutable, Visible, Nested
  <1>4. x \in Addr /\ temp.ptr \in Addr /\ heap \in Loose
    BY <1>1, <1>2, Alive, HeapsAreLoose DEF IInv
  <1>5. PICK r \in Addr : r = old[i]
    BY <1>3
  <1>6. \/ \E a \in FreeCells(heap) :
             /\ heap' = [ReleaseRow(RetainTemp(RetainSlots(CowCopy(heap, p, old, a), old, DOMAIN old)), r)
                           EXCEPT ![a].data[i] = x]
             /\ Repoint(s, a)
        \/ /\ ~(heap[p].rc > 1)
           /\ heap' = [ReleaseRow(RetainTemp(heap), r) EXCEPT ![p].data[i] = x]
           /\ UNCHANGED env
    BY <1>1, <1>5 DEF FieldAssign, Shared
  <1>7. CASE /\ ~(heap[p].rc > 1)
             /\ heap' = [ReleaseRow(RetainTemp(heap), r) EXCEPT ![p].data[i] = x]
             /\ UNCHANGED env
    <2>1. PICK h : h = RetainTemp(heap)
      OBVIOUS
    <2>2. h \in Loose /\ \A c \in Addr : h[c].data = heap[c].data
      BY <1>4, <2>1, RetainTempData
    <2>3. PICK g : g = FieldSet(h, r, p, i, x)
      OBVIOUS
    <2>4. /\ \A c \in Addr \ {p} : g[c].rc > 0 => g[c].data = h[c].data
          /\ g[p].rc > 0 => g[p].data = Put(h[p].data, i, x)
      BY <1>3, <1>5, <2>2, <2>3, FieldData
    <2>5. heap' = g
      BY <1>7, <2>1, <2>3 DEF FieldSet
    <2>6. Saves({p})
      BY <2>2, <2>4, <2>5 DEF Saves
    <2>7. heap'[p].rc > 0 => heap'[p].data = Put(heap[p].data, i, temp.ptr)
      BY <1>1, <1>3, <2>2, <2>4, <2>5
    <2>8. Target(s, p)
      BY <1>1, <1>3, <1>7 DEF Target
    <2> QED
      BY <1>1, <1>2, <1>3, <2>6, <2>7, <2>8, ElementStored
  <1>8. CASE \E a \in FreeCells(heap) :
               /\ heap' = [ReleaseRow(RetainTemp(RetainSlots(CowCopy(heap, p, old, a), old, DOMAIN old)), r)
                             EXCEPT ![a].data[i] = x]
               /\ Repoint(s, a)
    <2>1. PICK a \in FreeCells(heap) :
            /\ heap' = [ReleaseRow(RetainTemp(RetainSlots(CowCopy(heap, p, old, a), old, DOMAIN old)), r)
                          EXCEPT ![a].data[i] = x]
            /\ Repoint(s, a)
      BY <1>8
    <2>2. a \in Addr
      BY DEF FreeCells
    <2>3. old \in Seq(Addr) /\ old \in Datas
      BY <1>3 DEF RowsOf, Datas
    <2>4. PICK f : f = CowCopy(heap, p, old, a)
      OBVIOUS
    <2>5. f \in Loose /\ f[a].data = old /\ \A c \in Addr \ {a} : f[c].data = heap[c].data
      <3>1. p \in Addr /\ a \in Addr /\ heap \in Loose /\ old \in Datas
        BY <1>3, <1>4, <2>2, <2>3
      <3>2. /\ CowCopy(heap, p, old, a) \in Loose
            /\ CowCopy(heap, p, old, a)[a].data = old
            /\ \A c \in Addr \ {a} : CowCopy(heap, p, old, a)[c].data = heap[c].data
        BY <3>1, CowData
      <3> QED
        BY <2>4, <3>2
    <2>6. PICK e : e = RetainSlots(f, old, DOMAIN old)
      OBVIOUS
    <2>7. e \in Loose /\ \A c \in Addr : e[c].data = f[c].data
      BY <2>3, <2>5, <2>6, RetainSlotsData
    <2>8. PICK h : h = RetainTemp(e)
      OBVIOUS
    <2>9. h \in Loose /\ \A c \in Addr : h[c].data = e[c].data
      BY <1>4, <2>7, <2>8, RetainTempData
    <2>10. PICK g : g = FieldSet(h, r, a, i, x)
      OBVIOUS
    <2>11. /\ \A c \in Addr \ {a} : g[c].rc > 0 => g[c].data = h[c].data
           /\ g[a].rc > 0 => g[a].data = Put(h[a].data, i, x)
      BY <1>5, <2>2, <2>9, <2>10, FieldData
    <2>12. heap' = g
      BY <2>1, <2>4, <2>6, <2>8, <2>10 DEF FieldSet
    <2>13. Saves({a})
      BY <2>5, <2>7, <2>9, <2>11, <2>12 DEF Saves
    <2>14. heap'[a].rc > 0 => heap'[a].data = Put(heap[p].data, i, temp.ptr)
      BY <1>1, <2>2, <2>5, <2>7, <2>9, <2>11, <2>12
    <2>15. Target(s, a)
      BY <2>1 DEF Target
    <2> QED
      BY <1>1, <1>2, <1>3, <2>13, <2>14, <2>15, ElementStored
  <1> QED
    BY <1>6, <1>7, <1>8

LEMMA ElementAppended ==
  ASSUME NEW K \in Kinds, IInv(K), NEW J \in Kinds, IInv(J)', NEW v \in Grids, Mutable(v),
         leaving' = leaving, temp # NoTemp, temp.kind = "row", temp' = NoTemp,
         NEW p, p = Ptr(v),
         NEW q, Target(v, q), Saves({q}),
         heap'[q].rc > 0 => heap'[q].data = Append(heap[p].data, temp.ptr)
  PROVE  V!Next
PROOF
  <1>0. v \in Vars /\ v \in Nested
    BY DEF Vars, Nested
  <1>1. v \in Vars /\ Bound(v) /\ Kind(v) # "row" /\ p \in Addr /\ K[p] = Kind(v)
        /\ heap[p].data \in Seq(RowsOf(K))
        /\ \A j \in DOMAIN heap[p].data : heap[p].data[j] \in Addr /\ K[heap[p].data[j]] = "row"
                                            /\ heap[heap[p].data[j]].rc > 0
    BY <1>0, Contained DEF Mutable, Visible
  <1>2. /\ q \in Addr /\ (Repoint(v, q) \/ (UNCHANGED env /\ q = Ptr(v)))
        /\ \A w \in Vars \ {v} : Clear({q}, w)
        /\ \A c \in Addr : K[c] # Kind(v) /\ heap[c].rc > 0 => c # q
    BY <1>0, TargetClear
  <1>3. /\ Seen' = [Seen EXCEPT ![v] = Deref(Kind(v), q)']
        /\ heap'[q].rc > 0
        /\ View(v) = Deref(Kind(v), p) /\ View(v) # Nil
    <2>1. {q} \in SUBSET Addr
      BY <1>2
    <2>2. PICK T : T = {q}
      OBVIOUS
    <2>3. T \in SUBSET Addr /\ Saves(T) /\ \A w \in Vars \ {v} : Clear(T, w)
      BY <1>2, <2>1, <2>2
    <2> QED
      BY <1>0, <1>2, <2>3, Updated
  <1>4. PICK x \in Addr : x = temp.ptr /\ K[x] = "row" /\ heap[x].rc > 0
    BY Alive DEF IInv, Agreed
  <1>5. x # q /\ heap'[q].data = Append(heap[p].data, x) /\ Shown = heap[x].data
    BY <1>1, <1>2, <1>3, <1>4 DEF Shown, Deref
  <1>6. heap'[x].rc > 0
    <2>1. Living(J)'
      BY AliveNext
    <2>2. PICK t : t = Append(heap[p].data, x)
      OBVIOUS
    <2>3. x \in RowsOf(K)
      BY <1>4 DEF RowsOf
    <2>4. Len(heap[p].data) + 1 \in DOMAIN t /\ t[Len(heap[p].data) + 1] = x
      BY <1>1, <2>2, <2>3
    <2>5. heap'[q].data = t
      BY <1>5, <2>2
    <2> QED
      BY <1>2, <1>4, <2>1, <2>4, <2>5 DEF Living
  <1>7. heap'[x].data = Shown
    BY <1>4, <1>5, <1>6 DEF Saves
  <1>8. PICK k : k = Kind(v)
    OBVIOUS
  <1>9. Deref(k, q)' = Append(Deref(k, p), Shown)
    <2>1. \A j \in DOMAIN heap[p].data : heap[p].data[j] \notin {q}
      BY <1>1, <1>2
    <2>2. {q} \in SUBSET Addr
      BY <1>2
    <2>3. PICK R : R = Shown
      OBVIOUS
    <2>4. heap'[x].data = R
      BY <1>7, <2>3
    <2>5. Deref(k, q)' = Append(Deref(k, p), R)
      <3>1. p \in Addr /\ q \in Addr /\ heap[p].data \in Seq(RowsOf(K)) /\ k # "row"
        BY <1>1, <1>2, <1>8
      <3>2. heap'[q].data = Append(heap[p].data, x)
        BY <1>5
      <3> QED
        BY <2>1, <2>2, <2>4, <3>1, <3>2, AppendedView
    <2> QED
      BY <2>3, <2>5
  <1>10. Seen' = [Seen EXCEPT ![v] = Append(View(v), Shown)]
    BY <1>3, <1>8, <1>9
  <1> QED
    BY <1>3, <1>10, AppendsShown

LEMMA PushRowMaps ==
  ASSUME NEW K \in Kinds, IInv(K), NEW J \in Kinds, IInv(J)', NEW g \in Grids, PushRow(g)
  PROVE  V!Next
PROOF
  <1>1. PICK p, h, x, old : p = Ptr(g) /\ h = RetainTemp(heap) /\ x = temp.ptr /\ old = heap[Ptr(g)].data
    OBVIOUS
  <1>2. /\ temp # NoTemp /\ temp.kind = "row" /\ Mutable(g)
        /\ temp' = NoTemp /\ leaving' = leaving
    BY DEF PushRow, HasTemp
  <1>3. \/ /\ heap[p].rc = 1
           /\ heap' = PushInPlace(h, p, x)
           /\ UNCHANGED env
        \/ \E a \in FreeCells(heap) :
             /\ heap' = ReleaseNested(RetainSlots(PushedCopy(h, p, x, a), old, DOMAIN old), p)
             /\ Repoint(g, a)
    BY <1>1 DEF PushRow, PushesInPlace
  <1>4. g \in Nested /\ Bound(g) /\ g \in Vars /\ p \in Addr /\ old \in Seq(RowsOf(K))
    BY <1>1, <1>2, Contained DEF Mutable, Visible, Nested
  <1>5. x \in Addr /\ temp.ptr \in Addr /\ heap \in Loose
    BY <1>1, <1>2, Alive, HeapsAreLoose DEF IInv
  <1>6. h \in Loose /\ \A c \in Addr : h[c].data = heap[c].data
    BY <1>1, <1>5, RetainTempData
  <1>7. CASE heap[p].rc = 1 /\ heap' = PushInPlace(h, p, x) /\ UNCHANGED env
    <2>1. PICK d : d = Append(h[p].data, x)
      OBVIOUS
    <2>2. h[p] \in LooseCell /\ h \in [Addr -> LooseCell]
      BY <1>4, <1>6 DEF Loose
    <2>3. heap' = [h EXCEPT ![p] = [h[p] EXCEPT !.data = d]]
      BY <1>7, <2>1 DEF PushInPlace
    <2>4. heap'[p].data = d /\ \A c \in Addr \ {p} : heap'[c].data = h[c].data
      BY <1>4, <2>2, <2>3 DEF LooseCell
    <2>5. Saves({p})
      BY <1>6, <2>4 DEF Saves
    <2>6. Target(g, p)
      BY <1>1, <1>7 DEF Target
    <2>7. heap'[p].data = Append(heap[p].data, temp.ptr)
      BY <1>1, <1>4, <1>6, <2>1, <2>4
    <2> QED
      BY <1>1, <1>2, <2>5, <2>6, <2>7, ElementAppended
  <1>8. CASE \E a \in FreeCells(heap) :
               /\ heap' = ReleaseNested(RetainSlots(PushedCopy(h, p, x, a), old, DOMAIN old), p)
               /\ Repoint(g, a)
    <2>1. PICK a \in FreeCells(heap) :
            /\ heap' = ReleaseNested(RetainSlots(PushedCopy(h, p, x, a), old, DOMAIN old), p)
            /\ Repoint(g, a)
      BY <1>8
    <2>2. a \in Addr /\ x \in Ints \cup Addr
      BY <1>5 DEF FreeCells
    <2>3. PICK f : f = PushedCopy(h, p, x, a)
      OBVIOUS
    <2>4. f \in Loose /\ f[a].data = Append(h[p].data, x)
          /\ \A c \in Addr \ {a} : f[c].data = h[c].data
      <3>1. p \in Addr /\ h \in Loose
        BY <1>4, <1>6
      <3>2. /\ PushedCopy(h, p, x, a) \in Loose
            /\ PushedCopy(h, p, x, a)[a].data = Append(h[p].data, x)
            /\ \A c \in Addr \ {a} : PushedCopy(h, p, x, a)[c].data = h[c].data
        BY <2>2, <3>1, PushedData
      <3> QED
        BY <2>3, <3>2
    <2>5. PICK e : e = RetainSlots(f, old, DOMAIN old)
      OBVIOUS
    <2>6. e \in Loose /\ \A c \in Addr : e[c].data = f[c].data
      BY <1>4, <2>4, <2>5, RetainSlotsData
    <2>7. \A c \in Addr : ReleaseNested(e, p)[c].rc > 0 => ReleaseNested(e, p)[c].data = e[c].data
      BY <1>4, <2>6, ReleaseNestedData
    <2>8. heap' = ReleaseNested(e, p)
      BY <2>1, <2>3, <2>5
    <2>9. Saves({a})
      BY <1>6, <2>4, <2>6, <2>7, <2>8 DEF Saves
    <2>10. heap'[a].rc > 0 => heap'[a].data = Append(heap[p].data, temp.ptr)
      BY <1>1, <1>4, <1>6, <2>2, <2>4, <2>6, <2>7, <2>8
    <2>11. Target(g, a)
      BY <2>1 DEF Target
    <2> QED
      BY <1>1, <1>2, <2>9, <2>10, <2>11, ElementAppended
  <1> QED
    BY <1>3, <1>7, <1>8

-----------------------------------------------------------------------------
(* Statements on integers, seen from Values *)

LEMMA RowUpdated ==
  ASSUME NEW K \in Kinds, IInv(K), NEW J \in Kinds, IInv(J)', NEW v \in Rows, Mutable(v),
         leaving' = leaving, NEW q, Target(v, q), Saves({q}), NEW d,
         heap'[q].rc > 0 => heap'[q].data = d
  PROVE  /\ Seen' = [Seen EXCEPT ![v] = d]
         /\ Seen[v] = heap[Ptr(v)].data /\ Seen[v] # Nil
PROOF
  <1>0. v \in Vars /\ Kind(v) = "row"
    BY DEF Vars, Kind
  <1>1. /\ q \in Addr /\ (Repoint(v, q) \/ (UNCHANGED env /\ q = Ptr(v)))
        /\ \A w \in Vars \ {v} : Clear({q}, w)
    BY <1>0, TargetClear
  <1>2. PICK T : T = {q}
    OBVIOUS
  <1>3. T \in SUBSET Addr /\ Saves(T) /\ \A w \in Vars \ {v} : Clear(T, w)
    BY <1>1, <1>2
  <1>4. /\ Seen' = [Seen EXCEPT ![v] = Deref(Kind(v), q)']
        /\ heap'[q].rc > 0
        /\ View(v) = Deref(Kind(v), Ptr(v)) /\ View(v) # Nil /\ Seen[v] = View(v)
    BY <1>0, <1>1, <1>3, Updated
  <1>5. Deref(Kind(v), q)' = heap'[q].data /\ Deref(Kind(v), Ptr(v)) = heap[Ptr(v)].data
    BY <1>0 DEF Deref
  <1> QED
    BY <1>4, <1>5

LEMMA SetIntMaps ==
  ASSUME NEW K \in Kinds, IInv(K), NEW J \in Kinds, IInv(J)',
         NEW v \in Rows, NEW i, NEW n \in Ints, SetInt(v, i, n)
  PROVE  V!Next
PROOF
  <1>1. PICK p, d : p = Ptr(v) /\ d = Put(heap[Ptr(v)].data, i, n)
    OBVIOUS
  <1>2. /\ temp = NoTemp /\ Mutable(v) /\ Bound(v) /\ i \in DOMAIN heap[p].data
        /\ temp' = temp /\ leaving' = leaving
    BY <1>1 DEF SetInt, AtStmt, Mutable, Visible
  <1>3. \/ \E a \in FreeCells(heap) : heap' = CowCopy(heap, p, d, a) /\ Repoint(v, a)
        \/ ~(heap[p].rc > 1) /\ heap' = Write(heap, p, d) /\ UNCHANGED env
    BY <1>1 DEF SetInt, Shared, Write, Put
  <1>4. /\ p \in Addr /\ heap[p].rc > 0 /\ heap[p].rc \in Nat /\ heap[p].data \in Seq(Ints)
        /\ heap \in Loose
    BY <1>1, <1>2, RowAt, Alive, HeapsAreLoose DEF IInv
  <1>5. d \in Datas
    <2>1. d \in Seq(Ints)
      BY <1>1, <1>2, <1>4, IntPut
    <2> QED
      BY <2>1 DEF Datas
  <1>6. \E q : Target(v, q) /\ Saves({q}) /\ (heap'[q].rc > 0 => heap'[q].data = d)
    <2>1. CASE ~(heap[p].rc > 1) /\ heap' = Write(heap, p, d) /\ UNCHANGED env
      <3>1. Target(v, p)
        BY <1>1, <1>4, <2>1 DEF Target
      <3>2. heap'[p].data = d /\ \A c \in Addr \ {p} : heap'[c].data = heap[c].data
        BY <1>4, <1>5, <2>1, WriteData
      <3>3. Saves({p})
        BY <3>2 DEF Saves
      <3> QED
        BY <3>1, <3>2, <3>3
    <2>2. CASE \E a \in FreeCells(heap) : heap' = CowCopy(heap, p, d, a) /\ Repoint(v, a)
      <3>1. PICK a \in FreeCells(heap) : heap' = CowCopy(heap, p, d, a) /\ Repoint(v, a)
        BY <2>2
      <3>2. a \in Addr /\ Target(v, a)
        BY <3>1 DEF Target, FreeCells
      <3>3. heap'[a].data = d /\ \A c \in Addr \ {a} : heap'[c].data = heap[c].data
        BY <1>4, <1>5, <3>1, <3>2, CowData
      <3>4. Saves({a})
        BY <3>3 DEF Saves
      <3> QED
        BY <3>2, <3>3, <3>4
    <2> QED
      BY <1>3, <2>1, <2>2
  <1>7. Seen' = [Seen EXCEPT ![v] = d] /\ Seen[v] = heap[p].data /\ Seen[v] # Nil
    <2>1. PICK q : Target(v, q) /\ Saves({q}) /\ (heap'[q].rc > 0 => heap'[q].data = d)
      BY <1>6
    <2> QED
      BY <1>1, <1>2, <2>1, RowUpdated
  <1>8. Seen' = [Seen EXCEPT ![v][i] = n] /\ i \in DOMAIN Seen[v]
    BY <1>1, <1>2, <1>7 DEF Put
  <1>9. V!StoreInt
    BY <1>7, <1>8 DEF V!StoreInt, V!Bound
  <1> QED
    BY <1>2, <1>9, Mutates

LEMMA PushIntMaps ==
  ASSUME NEW K \in Kinds, IInv(K), NEW J \in Kinds, IInv(J)',
         NEW v \in Rows, NEW n \in Ints, PushInt(v, n)
  PROVE  V!Next
PROOF
  <1>1. PICK p, d : p = Ptr(v) /\ d = Append(heap[Ptr(v)].data, n)
    OBVIOUS
  <1>2. /\ temp = NoTemp /\ Mutable(v) /\ Bound(v)
        /\ temp' = temp /\ leaving' = leaving
    BY DEF PushInt, AtStmt, Mutable, Visible
  <1>3. \/ \E a \in FreeCells(heap) : heap' = ReleaseRow(PushedCopy(heap, p, n, a), p) /\ Repoint(v, a)
        \/ heap[p].rc = 1 /\ heap' = PushInPlace(heap, p, n) /\ UNCHANGED env
    BY <1>1 DEF PushInt, PushesInPlace
  <1>4. /\ p \in Addr /\ heap[p].rc > 0 /\ heap[p].data \in Seq(Ints)
        /\ heap \in Loose
    BY <1>1, <1>2, RowAt, HeapsAreLoose DEF IInv
  <1>5. \E q : Target(v, q) /\ Saves({q}) /\ (heap'[q].rc > 0 => heap'[q].data = d)
    <2>1. CASE heap[p].rc = 1 /\ heap' = PushInPlace(heap, p, n) /\ UNCHANGED env
      <3>1. Target(v, p)
        BY <1>1, <2>1 DEF Target
      <3>2. heap'[p].data = d /\ \A c \in Addr \ {p} : heap'[c].data = heap[c].data
        <4>1. heap' = [heap EXCEPT ![p] = [heap[p] EXCEPT !.data = d]]
          BY <1>1, <2>1 DEF PushInPlace
        <4>2. heap[p] \in LooseCell /\ heap \in [Addr -> LooseCell]
          BY <1>4 DEF Loose
        <4> QED
          BY <1>4, <4>1, <4>2 DEF LooseCell
      <3>3. Saves({p})
        BY <3>2 DEF Saves
      <3> QED
        BY <3>1, <3>2, <3>3
    <2>2. CASE \E a \in FreeCells(heap) :
                 heap' = ReleaseRow(PushedCopy(heap, p, n, a), p) /\ Repoint(v, a)
      <3>1. PICK a \in FreeCells(heap) :
              heap' = ReleaseRow(PushedCopy(heap, p, n, a), p) /\ Repoint(v, a)
        BY <2>2
      <3>2. a \in Addr /\ Target(v, a)
        BY <3>1 DEF Target, FreeCells
      <3>3. /\ PushedCopy(heap, p, n, a) \in Loose
            /\ PushedCopy(heap, p, n, a)[a].data = Append(heap[p].data, n)
            /\ \A c \in Addr \ {a} : PushedCopy(heap, p, n, a)[c].data = heap[c].data
        <4>1. n \in Ints \cup Addr
          OBVIOUS
        <4> QED
          BY <1>4, <3>2, <4>1, PushedData
      <3>4. PICK f : f = PushedCopy(heap, p, n, a)
        OBVIOUS
      <3>5. f \in Loose /\ f[a].data = d /\ \A c \in Addr \ {a} : f[c].data = heap[c].data
        BY <1>1, <3>3, <3>4
      <3>6. \A c \in Addr : ReleaseRow(f, p)[c].rc > 0 => ReleaseRow(f, p)[c].data = f[c].data
        BY <1>4, <3>5, ReleaseRowData
      <3>7. heap' = ReleaseRow(f, p)
        BY <3>1, <3>4
      <3>8. Saves({a}) /\ (heap'[a].rc > 0 => heap'[a].data = d)
        BY <3>2, <3>5, <3>6, <3>7 DEF Saves
      <3> QED
        BY <3>2, <3>8
    <2> QED
      BY <1>3, <2>1, <2>2
  <1>6. Seen' = [Seen EXCEPT ![v] = d] /\ Seen[v] = heap[p].data /\ Seen[v] # Nil
    <2>1. PICK q : Target(v, q) /\ Saves({q}) /\ (heap'[q].rc > 0 => heap'[q].data = d)
      BY <1>5
    <2> QED
      BY <1>1, <1>2, <2>1, RowUpdated
  <1>7. Seen' = [Seen EXCEPT ![v] = Append(@, n)]
    BY <1>1, <1>6
  <1>8. V!AppendInt
    BY <1>6, <1>7 DEF V!AppendInt, V!Bound
  <1> QED
    BY <1>2, <1>8, Mutates

LEMMA LetPushMaps ==
  ASSUME Forms = {}, NEW K \in Kinds, IInv(K), NEW J \in Kinds, IInv(J)',
         NEW b \in Rows, NEW v \in Rows, NEW n \in Ints, LetPush(b, v, n)
  PROVE  V!Next
PROOF
  <1>1. PICK p : p = Ptr(v)
    OBVIOUS
  <1>2. PICK a \in FreeCells(heap) :
          /\ heap' = PushedCopy(heap, p, n, a)
          /\ env' = [env EXCEPT ![b] = [ptr |-> a, mode |-> "local", depth |-> Depth]]
    BY <1>1 DEF LetPush, Uses
  <1>3. /\ temp = NoTemp /\ Bound(v) /\ temp' = temp /\ leaving = {} /\ leaving' = leaving
        /\ v \notin leaving
    BY DEF LetPush, AtStmt, Working, Visible
  <1>4. a \in Addr /\ p \in Addr /\ heap \in Loose /\ b \in Vars /\ v \in Vars
        /\ Kind(b) = "row" /\ Kind(v) = "row"
    BY <1>1, <1>3, RowAt, KindOf, HeapsAreLoose DEF FreeCells, IInv, Vars
  <1>5. heap'[a].data = Append(heap[p].data, n) /\ \A c \in Addr \ {a} : heap'[c].data = heap[c].data
    <2>1. n \in Ints \cup Addr
      OBVIOUS
    <2>2. /\ PushedCopy(heap, p, n, a)[a].data = Append(heap[p].data, n)
          /\ \A c \in Addr \ {a} : PushedCopy(heap, p, n, a)[c].data = heap[c].data
      BY <1>4, <2>1, PushedData
    <2> QED
      BY <1>2, <2>2
  <1>6. Saves({a})
    BY <1>5 DEF Saves
  <1>7. PICK x : x = [ptr |-> a, mode |-> "local", depth |-> Depth]
    OBVIOUS
  <1>8. env'[b] = x /\ \A w \in Vars \ {b} : env'[w] = env[w]
    BY <1>2, <1>4, <1>7 DEF IInv, Scoped
  <1>9. \A w \in Vars \ {b} : View(w)' = View(w)
    <2>1. ASSUME NEW w \in Vars \ {b} PROVE View(w)' = View(w)
      <3>1. PICK T : T = {a}
        OBVIOUS
      <3>2. Clear(T, w) /\ T \in SUBSET Addr /\ Saves(T)
        BY <1>2, <1>4, <1>6, <3>1, FreshClear
      <3>3. env'[w] = env[w] /\ (w \in leaving' <=> w \in leaving)
        BY <1>3, <1>8
      <3> QED
        BY <3>2, <3>3, ViewKept
    <2> QED
      BY <2>1
  <1>10. View(b)' = heap'[a].data
    <2>1. env'[b].ptr = a /\ env'[b].mode # "none"
      BY <1>7, <1>8
    <2> QED
      BY <1>3, <1>4, <2>1 DEF View, Bound, Ptr, Deref
  <1>11. Seen[v] = heap[p].data /\ Seen[v] # Nil
    <2>1. View(v) = heap[p].data
      BY <1>1, <1>3, <1>4 DEF View, Deref
    <2> QED
      BY <1>3, <1>4, <2>1, ViewShape
  <1>12. Seen' = [Seen EXCEPT ![b] = Append(Seen[v], n)]
    <2>1. Seen' = [Seen EXCEPT ![b] = View(b)']
      BY <1>4, <1>9, SeenBut
    <2> QED
      BY <1>5, <1>10, <1>11, <2>1
  <1>13. V!BindAppended
    BY <1>11, <1>12 DEF V!BindAppended, V!Bound
  <1> QED
    BY <1>3, <1>13, Mutates

LEMMA PushedElsewhere ==
  ASSUME NEW h \in Loose, NEW a, NEW x, NEW new \in Addr
  PROVE  /\ PushedCopy(h, a, x, new)[new].rc = 1
         /\ \A c \in Addr \ {new} : PushedCopy(h, a, x, new)[c] = h[c]
PROOF
  <1>1. PICK d, n : d = Append(h[a].data, x) /\ n = Capped(NewCap(h, a))
    OBVIOUS
  <1>2. PushedCopy(h, a, x, new) = [h EXCEPT ![new] = [rc |-> 1, cap |-> n, data |-> d]]
    BY <1>1 DEF PushedCopy, Alloc
  <1> QED
    BY <1>2 DEF Loose

\* The row at i of v becomes the one at a, in place or in a copy of the container at q.
LEMMA RowReplaced ==
  ASSUME NEW K \in Kinds, IInv(K), NEW J \in Kinds, IInv(J)', NEW v \in Nested, Mutable(v),
         leaving' = leaving, temp = NoTemp, temp' = temp,
         NEW p, p = Ptr(v), NEW i \in DOMAIN heap[p].data,
         NEW n \in Ints, NEW r, r = heap[p].data[i],
         NEW a \in FreeCells(heap), NEW q, Target(v, q), Saves({q} \cup {a}),
         heap'[q].rc > 0 => heap'[q].data = Put(heap[p].data, i, a),
         heap'[a].rc > 0 => heap'[a].data = Append(heap[r].data, n)
  PROVE  V!Next
PROOF
  <1>0. v \in Vars
    BY DEF Vars
  <1>1. Kind(v) # "row" /\ p \in Addr
        /\ heap[p].data \in Seq(RowsOf(K))
        /\ \A j \in DOMAIN heap[p].data : heap[p].data[j] \in Addr /\ K[heap[p].data[j]] = "row"
                                            /\ heap[heap[p].data[j]].rc > 0
    BY Contained DEF Mutable, Visible
  <1>2. /\ q \in Addr /\ (Repoint(v, q) \/ (UNCHANGED env /\ q = Ptr(v)))
        /\ \A w \in Vars \ {v} : Clear({q}, w)
        /\ \A c \in Addr : K[c] # Kind(v) /\ heap[c].rc > 0 => c # q
    BY <1>0, TargetClear
  <1>3. a \in Addr /\ heap[a].rc = 0
    BY DEF FreeCells
  <1>4. PICK T : T = {q} \cup {a}
    OBVIOUS
  <1>5. T \in SUBSET Addr /\ Saves(T) /\ \A w \in Vars \ {v} : Clear(T, w)
    <2>1. ASSUME NEW w \in Vars \ {v} PROVE Clear({q} \cup {a}, w)
      <3>1. Clear({q}, w) /\ Clear({a}, w)
        BY <1>2, FreshClear
      <3> QED
        BY <3>1, ClearBoth
    <2> QED
      BY <1>2, <1>3, <1>4, <2>1
  <1>6. /\ Seen' = [Seen EXCEPT ![v] = Deref(Kind(v), q)']
        /\ heap'[q].rc > 0
        /\ View(v) = Deref(Kind(v), p) /\ View(v) # Nil /\ Seen[v] = View(v)
    BY <1>0, <1>2, <1>5, Updated
  <1>7. heap'[q].data = Put(heap[p].data, i, a)
    BY <1>6
  <1>8. heap'[a].rc > 0
    <2>1. Living(J)'
      BY AliveNext
    <2>2. i \in DOMAIN heap'[q].data /\ heap'[q].data[i] = a
      BY <1>7 DEF Put
    <2> QED
      BY <1>2, <1>3, <2>1, <2>2 DEF Living
  <1>9. PICK k, R : k = Kind(v) /\ R = Append(heap[r].data, n)
    OBVIOUS
  <1>10. Deref(k, q)' = Put(Deref(k, p), i, R)
    <2>1. \A j \in DOMAIN heap[p].data : j # i => heap[p].data[j] \notin T
      BY <1>1, <1>2, <1>3, <1>4
    <2>2. p \in Addr /\ q \in Addr /\ heap[p].data \in Seq(RowsOf(K)) /\ k # "row" /\ heap'[a].data = R
      BY <1>1, <1>2, <1>8, <1>9
    <2> QED
      BY <1>5, <1>6, <1>7, <2>1, <2>2, StoredView
  <1>11. i \in DOMAIN View(v) /\ View(v)[i] = heap[r].data
    BY <1>1, <1>6 DEF Deref
  <1>12. Seen' = [Seen EXCEPT ![v] = Put(View(v), i, Append(View(v)[i], n))]
    BY <1>6, <1>9, <1>10, <1>11
  <1>13. Seen' = [Seen EXCEPT ![v][i] = Append(@, n)]
    BY <1>6, <1>11, <1>12 DEF Put
  <1>14. v \in V!Nested /\ V!Bound(v) /\ i \in DOMAIN Seen[v]
    BY <1>6, <1>11 DEF V!Nested, Nested, V!Bound
  <1>15. V!AppendNested
    BY <1>13, <1>14 DEF V!AppendNested
  <1> QED
    BY <1>15, Mutates

\* What push made of the row before the container is written.
LEMMA GrownRow ==
  ASSUME NEW K \in Kinds, IInv(K), NEW p \in Addr, heap[p].rc > 0, NEW r \in Addr, NEW n \in Ints,
         NEW a \in FreeCells(heap), NEW h, h = PushedCopy(heap, r, n, a)
  PROVE  /\ h \in Loose /\ a \in Addr /\ p # a
         /\ h[a].data = Append(heap[r].data, n) /\ h[p] = heap[p]
         /\ \A c \in Addr \ {a} : h[c].data = heap[c].data
         /\ \A c \in FreeCells(h) : c \in FreeCells(heap) /\ c # a /\ c \in Addr
PROOF
  <1>1. a \in Addr /\ heap[a].rc = 0 /\ heap \in Loose /\ n \in Ints \cup Addr
    BY HeapsAreLoose DEF FreeCells, IInv
  <1>2. p # a
    BY <1>1
  <1>3. /\ PushedCopy(heap, r, n, a) \in Loose
        /\ PushedCopy(heap, r, n, a)[a].data = Append(heap[r].data, n)
        /\ \A c \in Addr \ {a} : PushedCopy(heap, r, n, a)[c].data = heap[c].data
    BY <1>1, PushedData
  <1>4. /\ PushedCopy(heap, r, n, a)[a].rc = 1
        /\ \A c \in Addr \ {a} : PushedCopy(heap, r, n, a)[c] = heap[c]
    BY <1>1, PushedElsewhere
  <1>5. \A c \in FreeCells(h) : c \in FreeCells(heap) /\ c # a /\ c \in Addr
    BY <1>1, <1>4 DEF FreeCells
  <1> QED
    BY <1>1, <1>2, <1>3, <1>4, <1>5

LEMMA PushFieldMaps ==
  ASSUME Forms = {}, NEW K \in Kinds, IInv(K), NEW J \in Kinds, IInv(J)',
         NEW s \in Structs, NEW i, NEW n \in Ints, PushField(s, i, n)
  PROVE  V!Next
PROOF
  <1>1. PICK p, old, r : p = Ptr(s) /\ old = heap[Ptr(s)].data /\ r = heap[Ptr(s)].data[i]
    OBVIOUS
  <1>2. /\ temp = NoTemp /\ Mutable(s) /\ Bound(s) /\ i \in DOMAIN heap[p].data
        /\ temp' = temp /\ leaving' = leaving
    BY <1>1 DEF PushField, AtStmt, Mutable, Visible
  <1>3. /\ s \in Nested /\ s \in Vars /\ p \in Addr /\ old \in Seq(RowsOf(K)) /\ r \in Addr
        /\ heap[p].rc > 0 /\ heap[p].rc \in Nat
    BY <1>1, <1>2, Contained, Alive DEF Nested
  <1>4. PICK a, h :
          /\ a \in FreeCells(heap)
          /\ h = PushedCopy(heap, r, n, a)
          /\ \/ /\ \E b \in FreeCells(h) :
                     /\ heap' = FieldSet(RetainSlots(CowCopy(h, p, old, b), old, DOMAIN old), r, b, i, a)
                     /\ Repoint(s, b)
             \/ /\ ~(h[p].rc > 1)
                /\ heap' = FieldSet(h, r, p, i, a)
                /\ UNCHANGED env
    BY <1>1 DEF PushField, Uses, Shared, FieldSet
  <1>5. /\ h \in Loose /\ a \in Addr /\ p # a
        /\ h[a].data = Append(heap[r].data, n) /\ h[p] = heap[p]
        /\ \A c \in Addr \ {a} : h[c].data = heap[c].data
        /\ \A c \in FreeCells(h) : c \in FreeCells(heap) /\ c # a /\ c \in Addr
    BY <1>3, <1>4, GrownRow
  <1>6. \E q : /\ Target(s, q) /\ Saves({q} \cup {a})
               /\ heap'[q].rc > 0 => heap'[q].data = Put(heap[p].data, i, a)
               /\ heap'[a].rc > 0 => heap'[a].data = Append(heap[r].data, n)
    <2>1. CASE ~(h[p].rc > 1) /\ heap' = FieldSet(h, r, p, i, a) /\ UNCHANGED env
      <3>1. Target(s, p)
        BY <1>1, <1>3, <1>5, <2>1 DEF Target
      <3>2. PICK g : g = FieldSet(h, r, p, i, a)
        OBVIOUS
      <3>3. /\ \A c \in Addr \ {p} : g[c].rc > 0 => g[c].data = h[c].data
            /\ g[p].rc > 0 => g[p].data = Put(h[p].data, i, a)
        BY <1>3, <1>5, <3>2, FieldData
      <3>4. heap' = g
        BY <2>1, <3>2
      <3>5. Saves({p} \cup {a})
        BY <1>5, <3>3, <3>4 DEF Saves
      <3> QED
        BY <1>5, <3>1, <3>3, <3>4, <3>5
    <2>2. CASE \E b \in FreeCells(h) :
                 /\ heap' = FieldSet(RetainSlots(CowCopy(h, p, old, b), old, DOMAIN old), r, b, i, a)
                 /\ Repoint(s, b)
      <3>1. PICK b \in FreeCells(h) :
              /\ heap' = FieldSet(RetainSlots(CowCopy(h, p, old, b), old, DOMAIN old), r, b, i, a)
              /\ Repoint(s, b)
        BY <2>2
      <3>2. b \in Addr /\ b # a /\ Target(s, b)
        BY <1>5, <3>1 DEF Target
      <3>3. old \in Seq(Addr) /\ old \in Datas
        BY <1>3 DEF RowsOf, Datas
      <3>4. /\ CowCopy(h, p, old, b) \in Loose
            /\ CowCopy(h, p, old, b)[b].data = old
            /\ \A c \in Addr \ {b} : CowCopy(h, p, old, b)[c].data = h[c].data
        BY <1>3, <1>5, <3>2, <3>3, CowData
      <3>5. PICK f : f = CowCopy(h, p, old, b)
        OBVIOUS
      <3>6. f \in Loose /\ f[b].data = old /\ \A c \in Addr \ {b} : f[c].data = h[c].data
        BY <3>4, <3>5
      <3>7. PICK e : e = RetainSlots(f, old, DOMAIN old)
        OBVIOUS
      <3>8. e \in Loose /\ \A c \in Addr : e[c].data = f[c].data
        BY <3>3, <3>6, <3>7, RetainSlotsData
      <3>9. PICK g : g = FieldSet(e, r, b, i, a)
        OBVIOUS
      <3>10. /\ \A c \in Addr \ {b} : g[c].rc > 0 => g[c].data = e[c].data
             /\ g[b].rc > 0 => g[b].data = Put(e[b].data, i, a)
        BY <1>3, <3>2, <3>8, <3>9, FieldData
      <3>11. heap' = g
        BY <3>1, <3>5, <3>7, <3>9
      <3>12. Saves({b} \cup {a})
        BY <1>5, <3>6, <3>8, <3>10, <3>11 DEF Saves
      <3>13. heap'[b].rc > 0 => heap'[b].data = Put(heap[p].data, i, a)
        BY <1>1, <3>2, <3>6, <3>8, <3>10, <3>11
      <3>14. heap'[a].rc > 0 => heap'[a].data = Append(heap[r].data, n)
        BY <1>5, <3>2, <3>6, <3>8, <3>10, <3>11
      <3> QED
        BY <3>2, <3>12, <3>13, <3>14
    <2> QED
      BY <1>4, <2>1, <2>2
  <1>7. PICK q : /\ Target(s, q) /\ Saves({q} \cup {a})
                 /\ heap'[q].rc > 0 => heap'[q].data = Put(heap[p].data, i, a)
                 /\ heap'[a].rc > 0 => heap'[a].data = Append(heap[r].data, n)
    BY <1>6
  <1>8. r = heap[p].data[i]
    BY <1>1
  <1> QED
    BY <1>1, <1>2, <1>3, <1>4, <1>7, <1>8, RowReplaced

LEMMA PushElemMaps ==
  ASSUME Forms = {}, NEW K \in Kinds, IInv(K), NEW J \in Kinds, IInv(J)',
         NEW g \in Grids, NEW i, NEW n \in Ints, PushElem(g, i, n)
  PROVE  V!Next
PROOF
  <1>1. PICK p, old, r : p = Ptr(g) /\ old = heap[Ptr(g)].data /\ r = heap[Ptr(g)].data[i]
    OBVIOUS
  <1>2. /\ temp = NoTemp /\ Mutable(g) /\ Bound(g) /\ i \in DOMAIN heap[p].data
        /\ temp' = temp /\ leaving' = leaving
    BY <1>1 DEF PushElem, AtStmt, Mutable, Visible
  <1>3. /\ g \in Nested /\ g \in Vars /\ p \in Addr /\ old \in Seq(RowsOf(K)) /\ r \in Addr
        /\ heap[p].rc > 0 /\ heap[p].rc \in Nat
    BY <1>1, <1>2, Contained, Alive DEF Nested
  <1>4. PICK a, h, d :
          /\ a \in FreeCells(heap)
          /\ h = PushedCopy(heap, r, n, a) /\ d = Put(old, i, a)
          /\ \/ /\ \E b \in FreeCells(h) :
                     /\ heap' = RetainSlots(CowCopy(h, p, d, b), d, DOMAIN d \ {i})
                     /\ Repoint(g, b)
             \/ /\ ~(h[p].rc > 1)
                /\ heap' = ReleaseRow(Write(h, p, d), r)
                /\ UNCHANGED env
    BY <1>1 DEF PushElem, Uses, Shared, Put, Write
  <1>5. /\ h \in Loose /\ a \in Addr /\ p # a
        /\ h[a].data = Append(heap[r].data, n) /\ h[p] = heap[p]
        /\ \A c \in Addr \ {a} : h[c].data = heap[c].data
        /\ \A c \in FreeCells(h) : c \in FreeCells(heap) /\ c # a /\ c \in Addr
    BY <1>3, <1>4, GrownRow
  <1>6. d \in Seq(Addr) /\ d \in Datas
    <2>1. old \in Seq(Addr) /\ i \in DOMAIN old
      BY <1>1, <1>2, <1>3 DEF RowsOf
    <2>2. Put(old, i, a) \in Seq(Addr)
      BY <1>5, <2>1, AmongStored
    <2> QED
      BY <1>4, <2>2 DEF Datas
  <1>7. \E q : /\ Target(g, q) /\ Saves({q} \cup {a})
               /\ heap'[q].rc > 0 => heap'[q].data = Put(heap[p].data, i, a)
               /\ heap'[a].rc > 0 => heap'[a].data = Append(heap[r].data, n)
    <2>1. CASE ~(h[p].rc > 1) /\ heap' = ReleaseRow(Write(h, p, d), r) /\ UNCHANGED env
      <3>1. Target(g, p)
        BY <1>1, <1>3, <1>5, <2>1 DEF Target
      <3>2. PICK f : f = Write(h, p, d)
        OBVIOUS
      <3>3. f \in Loose /\ f[p].data = d /\ \A c \in Addr \ {p} : f[c].data = h[c].data
        BY <1>3, <1>5, <1>6, <3>2, WriteData
      <3>4. \A c \in Addr : ReleaseRow(f, r)[c].rc > 0 => ReleaseRow(f, r)[c].data = f[c].data
        BY <1>3, <3>3, ReleaseRowData
      <3>5. heap' = ReleaseRow(f, r)
        BY <2>1, <3>2
      <3>6. Saves({p} \cup {a})
        BY <1>5, <3>3, <3>4, <3>5 DEF Saves
      <3>7. heap'[p].rc > 0 => heap'[p].data = Put(heap[p].data, i, a)
        BY <1>1, <1>3, <1>4, <3>3, <3>4, <3>5
      <3>8. heap'[a].rc > 0 => heap'[a].data = Append(heap[r].data, n)
        BY <1>5, <3>3, <3>4, <3>5
      <3> QED
        BY <3>1, <3>6, <3>7, <3>8
    <2>2. CASE \E b \in FreeCells(h) :
                 /\ heap' = RetainSlots(CowCopy(h, p, d, b), d, DOMAIN d \ {i})
                 /\ Repoint(g, b)
      <3>1. PICK b \in FreeCells(h) :
              /\ heap' = RetainSlots(CowCopy(h, p, d, b), d, DOMAIN d \ {i})
              /\ Repoint(g, b)
        BY <2>2
      <3>2. b \in Addr /\ b # a /\ Target(g, b)
        BY <1>5, <3>1 DEF Target
      <3>3. /\ CowCopy(h, p, d, b) \in Loose
            /\ CowCopy(h, p, d, b)[b].data = d
            /\ \A c \in Addr \ {b} : CowCopy(h, p, d, b)[c].data = h[c].data
        BY <1>3, <1>5, <1>6, <3>2, CowData
      <3>4. PICK f : f = CowCopy(h, p, d, b)
        OBVIOUS
      <3>5. f \in Loose /\ f[b].data = d /\ \A c \in Addr \ {b} : f[c].data = h[c].data
        BY <3>3, <3>4
      <3>6. PICK I \in SUBSET (DOMAIN d) : I = DOMAIN d \ {i}
        OBVIOUS
      <3>7. \A c \in Addr : RetainSlots(f, d, I)[c].data = f[c].data
        BY <1>6, <3>5, RetainSlotsData
      <3>8. heap' = RetainSlots(f, d, I)
        BY <3>1, <3>4, <3>6
      <3>9. Saves({b} \cup {a})
        BY <1>5, <3>5, <3>7, <3>8 DEF Saves
      <3>10. heap'[b].data = Put(heap[p].data, i, a)
        BY <1>1, <1>4, <3>2, <3>5, <3>7, <3>8
      <3>11. heap'[a].data = Append(heap[r].data, n)
        BY <1>5, <3>2, <3>5, <3>7, <3>8
      <3> QED
        BY <3>2, <3>9, <3>10, <3>11
    <2> QED
      BY <1>4, <2>1, <2>2
  <1>8. PICK q : /\ Target(g, q) /\ Saves({q} \cup {a})
                 /\ heap'[q].rc > 0 => heap'[q].data = Put(heap[p].data, i, a)
                 /\ heap'[a].rc > 0 => heap'[a].data = Append(heap[r].data, n)
    BY <1>7
  <1>9. r = heap[p].data[i]
    BY <1>1
  <1> QED
    BY <1>1, <1>2, <1>3, <1>4, <1>8, <1>9, RowReplaced

LEMMA SetNestedMaps ==
  ASSUME Forms = {}, NEW K \in Kinds, IInv(K), NEW J \in Kinds, IInv(J)',
         NEW g \in Nested, NEW i, NEW j, NEW n \in Ints, SetNested(g, i, j, n)
  PROVE  V!Next
PROOF
  <1>1. PICK p, r, d : p = Ptr(g) /\ r = heap[p].data[i] /\ d = Put(heap[r].data, j, n)
    OBVIOUS
  <1>2. /\ temp = NoTemp /\ Mutable(g) /\ Bound(g) /\ i \in DOMAIN heap[p].data
        /\ j \in DOMAIN heap[r].data /\ temp' = temp /\ UNCHANGED <<env, leaving>>
        /\ ~(heap[r].rc > 1) /\ ~(heap[p].rc > 1)
    BY <1>1 DEF SetNested, AtStmt, Mutable, Visible, Uses, Shared
  <1>3. heap' = Write(heap, r, d)
    BY <1>1 DEF SetNested, Uses, Write, Put
  <1>4. /\ g \in Vars /\ Kind(g) # "row" /\ p \in Addr /\ r \in Addr /\ K[r] = "row" /\ p # r
        /\ heap[p].data \in Seq(RowsOf(K))
    BY <1>1, <1>2, Contained
  <1>5. heap[p].rc = 1 /\ heap[r].rc = 1 /\ heap \in Loose
    <2>1. heap[p].rc > 0 /\ heap[r].rc > 0 /\ heap[p].rc \in Nat /\ heap[r].rc \in Nat
      BY <1>1, <1>2, <1>4, Alive, Contained
    <2> QED
      BY <1>2, <2>1, HeapsAreLoose DEF IInv
  <1>6. heap[r].data \in Seq(Ints)
    BY <1>4, ShapedCell DEF IInv, Contents
  <1>7. d \in Datas
    <2>1. d \in Seq(Ints)
      BY <1>1, <1>2, <1>6, IntPut
    <2> QED
      BY <2>1 DEF Datas
  <1>8. heap'[r].data = d /\ \A c \in Addr \ {r} : heap'[c].data = heap[c].data
    BY <1>3, <1>4, <1>5, <1>7, WriteData
  <1>9. env[g].mode \in Owning
    <2>1. env[g] \in Slot /\ env[g].mode # "none" /\ env[g].mode # "param"
      BY <1>2, <1>4 DEF Mutable, Bound, IInv, Scoped
    <2> QED
      BY <2>1, Typed
  <1>10. /\ \A w \in Vars \ {g} : Clear({r}, w)
         /\ \A k \in DOMAIN heap[p].data : k # i => heap[p].data[k] # r
    <2>1. i \in DOMAIN heap[p].data /\ p = Ptr(g) /\ r = heap[p].data[i]
      BY <1>1, <1>2
    <2>2. g \in Vars /\ p \in Addr /\ r \in Addr /\ heap[p].rc = 1 /\ heap[r].rc = 1
      BY <1>4, <1>5
    <2> QED
      BY <2>1, <2>2, <1>9, AloneInside
  <1>11. PICK T : T = {r}
    OBVIOUS
  <1>12. T \in SUBSET Addr /\ Saves(T) /\ \A w \in Vars \ {g} : Clear(T, w)
    BY <1>4, <1>8, <1>10, <1>11 DEF Saves
  <1>13. /\ Seen' = [Seen EXCEPT ![g] = Deref(Kind(g), p)']
         /\ heap'[p].rc > 0
         /\ View(g) = Deref(Kind(g), p) /\ View(g) # Nil /\ Seen[g] = View(g)
    BY <1>1, <1>2, <1>4, <1>12, Updated
  <1>14. PICK k : k = Kind(g)
    OBVIOUS
  <1>15. Deref(k, p)' = Put(Deref(k, p), i, d)
    <2>1. \A m \in DOMAIN heap[p].data : m # i => heap[p].data[m] \notin T
      BY <1>10, <1>11
    <2>2. heap'[p].data = Put(heap[p].data, i, r)
      <3>1. PICK s \in Seq(RowsOf(K)) : s = heap[p].data
        BY <1>4
      <3>2. [s EXCEPT ![i] = s[i]] = s
        OBVIOUS
      <3> QED
        BY <1>1, <1>4, <1>8, <3>1, <3>2 DEF Put
    <2> QED
      BY <1>2, <1>4, <1>8, <1>12, <1>13, <1>14, <2>1, <2>2, StoredView
  <1>16. i \in DOMAIN View(g) /\ View(g)[i] = heap[r].data
    BY <1>1, <1>2, <1>4, <1>13 DEF Deref
  <1>17. Seen' = [Seen EXCEPT ![g] = Put(View(g), i, Put(View(g)[i], j, n))]
    BY <1>1, <1>13, <1>14, <1>15, <1>16
  <1>18. Seen' = [Seen EXCEPT ![g][i][j] = n]
    BY <1>13, <1>16, <1>17 DEF Put
  <1>19. g \in V!Nested /\ V!Bound(g) /\ i \in DOMAIN Seen[g] /\ j \in DOMAIN Seen[g][i]
    BY <1>2, <1>13, <1>16 DEF V!Nested, Nested, V!Bound
  <1>20. V!StoreNested
    BY <1>18, <1>19 DEF V!StoreNested
  <1> QED
    BY <1>2, <1>20, Mutates

-----------------------------------------------------------------------------
(* Leaving blocks and calls *)

LEMMA ScopeLeft ==
  ASSUME NEW K \in Kinds, IInv(K), NEW J \in Kinds, IInv(J)', Saves({}),
         \A w \in Vars : env'[w] = env[w] \/ env'[w] = Unbound,
         \A w \in Vars : w \in leaving => w \in leaving' \/ env'[w] = Unbound,
         temp'.kind = temp.kind, temp'.ptr = temp.ptr, temp' = NoTemp <=> temp = NoTemp
  PROVE  V!Next
PROOF
  <1>1. ASSUME NEW w \in Vars PROVE View(w)' \in {Nil, View(w)}
    <2>1. CASE env'[w] = Unbound
      BY <2>1 DEF View, Bound, Unbound
    <2>2. CASE w \in leaving'
      BY <2>2 DEF View
    <2>3. CASE env'[w] # Unbound /\ w \notin leaving'
      <3>1. env'[w] = env[w] /\ w \notin leaving
        BY <2>3
      <3>2. Clear({}, w)
        BY DEF Clear
      <3>3. View(w)' = View(w)
        BY <2>3, <3>1, <3>2, ViewKept
      <3> QED
        BY <3>3
    <2> QED
      BY <2>1, <2>2, <2>3
  <1>2. Shown' = Shown
    <2>1. CASE temp = NoTemp
      BY <2>1 DEF Shown
    <2>2. CASE temp # NoTemp
      <3>1. PICK p \in Addr, k \in KindNames : p = temp.ptr /\ k = temp.kind
        BY <2>2, Alive DEF IInv, Agreed, Kinds
      <3>2. K[p] = k
        BY <2>2, <3>1 DEF IInv, Agreed
      <3>3. heap'[p].rc > 0
        BY <2>2, <3>1, AliveNext DEF Living
      <3>4. k # "row" => \A i \in DOMAIN heap[p].data : heap[p].data[i] \in Addr
        <4>1. heap[p].data \in Contents(K, K[p])
          BY ShapedCell DEF IInv
        <4>2. k # "row" => heap[p].data \in Seq(RowsOf(K))
          BY <3>2, <4>1 DEF Contents
        <4> QED
          BY <4>2 DEF RowsOf
      <3>5. Deref(k, p)' = Deref(k, p)
        BY <3>3, <3>4, DerefKept
      <3>6. Shown = Deref(k, p) /\ Shown' = Deref(k, p)'
        BY <2>2, <3>1 DEF Shown
      <3> QED
        BY <3>5, <3>6
    <2> QED
      BY <2>1, <2>2
  <1> QED
    BY <1>1, <1>2, LeavesScope

LEMMA EnterBlockMaps ==
  ASSUME NEW K \in Kinds, IInv(K), NEW J \in Kinds, IInv(J)', EnterBlock
  PROVE  V!Next
PROOF
  <1>1. UNCHANGED <<heap, env, temp, leaving>>
    BY DEF EnterBlock
  <1>2. Saves({})
    BY <1>1 DEF Saves
  <1> QED
    BY <1>1, <1>2, ScopeLeft

\* The pending value stays what it is when a block hands it on.
LEMMA HandedOn ==
  ASSUME NEW K \in Kinds, IInv(K),
         temp' = IF temp = NoTemp THEN temp ELSE [temp EXCEPT !.owned = TRUE, !.name = Nil]
  PROVE  temp'.kind = temp.kind /\ temp'.ptr = temp.ptr /\ (temp' = NoTemp <=> temp = NoTemp)
PROOF
  <1>1. CASE temp = NoTemp
    BY <1>1
  <1>2. CASE temp # NoTemp
    <2>1. temp \in [ptr : Addr, kind : KindNames, owned : BOOLEAN, name : Vars \cup {Nil}]
      BY <1>2 DEF IInv, Scoped, Value
    <2>2. temp' = [temp EXCEPT !.owned = TRUE, !.name = Nil]
      BY <1>2
    <2>3. temp'.kind = temp.kind /\ temp'.ptr = temp.ptr /\ temp.ptr \in Addr
      BY <2>1, <2>2
    <2>4. temp' # NoTemp
      <3>1. temp'.ptr \in Addr /\ Nil \notin Addr
        BY <2>3, ArcAssumption
      <3>2. NoTemp.ptr = Nil
        BY DEF NoTemp
      <3> QED
        BY <3>1, <3>2
    <2> QED
      BY <1>2, <2>3, <2>4
  <1> QED
    BY <1>1, <1>2

LEMMA EndBlockMaps ==
  ASSUME NEW K \in Kinds, IInv(K), NEW J \in Kinds, IInv(J)', EndBlock
  PROVE  V!Next
PROOF
  <1>1. /\ leaving = {} /\ heap' = (IF temp = NoTemp THEN heap ELSE RetainTemp(heap))
        /\ temp' = IF temp = NoTemp THEN temp ELSE [temp EXCEPT !.owned = TRUE, !.name = Nil]
        /\ \A w \in Vars : env'[w] = env[w] \/ env'[w] = Unbound
    BY DEF EndBlock, Working
  <1>2. heap \in Loose /\ (temp # NoTemp => temp.ptr \in Addr)
    BY Alive, HeapsAreLoose DEF IInv
  <1>3. Saves({})
    BY <1>1, <1>2, RetainTempData DEF Saves
  <1>4. temp'.kind = temp.kind /\ temp'.ptr = temp.ptr /\ (temp' = NoTemp <=> temp = NoTemp)
    BY <1>1, HandedOn
  <1> QED
    BY <1>1, <1>3, <1>4, ScopeLeft

LEMMA ReturnMaps ==
  ASSUME NEW K \in Kinds, IInv(K), NEW J \in Kinds, IInv(J)', Return
  PROVE  V!Next
PROOF
  <1>1. /\ leaving = {} /\ heap' \in {heap, Retain(heap, temp.ptr)}
        /\ temp = NoTemp => heap' = heap
        /\ temp' = IF temp = NoTemp THEN temp ELSE [temp EXCEPT !.owned = TRUE, !.name = Nil]
        /\ \A w \in Vars : env'[w] = env[w] \/ env'[w] = Unbound
    BY DEF Return, Working, NoTemp
  <1>2. heap \in Loose /\ (temp # NoTemp => temp.ptr \in Addr)
    BY Alive, HeapsAreLoose DEF IInv
  <1>3. Saves({})
    BY <1>1, <1>2, RetainData DEF Saves
  <1>4. temp'.kind = temp.kind /\ temp'.ptr = temp.ptr /\ (temp' = NoTemp <=> temp = NoTemp)
    BY <1>1, HandedOn
  <1> QED
    BY <1>1, <1>3, <1>4, ScopeLeft

LEMMA ReleaseLocalMaps ==
  ASSUME NEW K \in Kinds, IInv(K), NEW J \in Kinds, IInv(J)', NEW v \in Vars, ReleaseLocal(v)
  PROVE  V!Next
PROOF
  <1>1. PICK p, k : p = Ptr(v) /\ k = Kind(v)
    OBVIOUS
  <1>2. /\ v \in leaving /\ leaving' = leaving \ {v} /\ temp' = temp /\ env' = [env EXCEPT ![v] = Unbound]
        /\ heap' = Release(heap, k, p)
    BY <1>1 DEF ReleaseLocal
  <1>3. env \in [Vars -> Slot] /\ env[v].mode \in Owning
    BY <1>2 DEF IInv, Scoped
  <1>4. heap \in Loose /\ p \in Addr
    BY <1>1, <1>3, Alive, HeapsAreLoose DEF IInv, Bound, Owning
  <1>5. Saves({})
    BY <1>2, <1>4, ReleaseData DEF Saves
  <1>6. \A w \in Vars : env'[w] = env[w] \/ env'[w] = Unbound
    BY <1>2, <1>3
  <1>7. \A w \in Vars : w \in leaving => w \in leaving' \/ env'[w] = Unbound
    BY <1>2, <1>3
  <1> QED
    BY <1>2, <1>5, <1>6, <1>7, ScopeLeft

LEMMA ReleaseHeldMaps ==
  ASSUME NEW K \in Kinds, IInv(K), NEW J \in Kinds, IInv(J)', ReleaseHeld
  PROVE  V!Next
PROOF
  <1>1. PICK p, k : p = owed.ptr /\ k = owed.kind
    OBVIOUS
  <1>2. owed # NoHeld /\ UNCHANGED <<temp, env, leaving>> /\ heap' = Release(heap, k, p)
    BY <1>1 DEF ReleaseHeld
  <1>3. heap \in Loose /\ p \in Addr
    BY <1>1, <1>2, Alive, HeapsAreLoose DEF IInv
  <1>4. Saves({})
    BY <1>2, <1>3, ReleaseData DEF Saves
  <1> QED
    BY <1>2, <1>4, ScopeLeft

-----------------------------------------------------------------------------
(* Arc implements Values *)

LEMMA ExpressionMaps ==
  ASSUME NEW K \in Kinds, IInv(K), NEW J \in Kinds, IInv(J)', Expression
  PROVE  V!Next
PROOF
  BY RowLitMaps, GridLitMaps, StructLitMaps, IdentMaps, PlaceMaps DEF Expression

LEMMA ConsumingMaps ==
  ASSUME NEW K \in Kinds, IInv(K), NEW J \in Kinds, IInv(J)', Consuming
  PROVE  V!Next
PROOF
  BY LetMaps, AssignMaps, PushRowMaps, IndexAssignMaps, FieldAssignMaps, ExprStmtMaps DEF Consuming

LEMMA IntMaps ==
  ASSUME Forms = {}, NEW K \in Kinds, IInv(K), NEW J \in Kinds, IInv(J)', OnInts
  PROVE  V!Next
PROOF
  BY PushIntMaps, SetIntMaps, LetPushMaps, PushFieldMaps, PushElemMaps, SetNestedMaps DEF OnInts

LEMMA ControlMaps ==
  ASSUME NEW K \in Kinds, IInv(K), NEW J \in Kinds, IInv(J)', Control
  PROVE  V!Next
PROOF
  BY EnterBlockMaps, EndBlockMaps, ReturnMaps, ReleaseHeldMaps,
     CallBorrowingMaps, CallMutableMaps, ReleaseLocalMaps DEF Control

LEMMA InitMaps ==
  Init => V!Init
PROOF
  <1> SUFFICES ASSUME Init PROVE V!Init
    OBVIOUS
  <1>1. \A v \in Vars : View(v) = Nil
    BY DEF Init, View, Bound, Unbound
  <1>2. Seen = [v \in V!Vars |-> Nil]
    BY <1>1 DEF Seen, V!Vars, V!Nested, Vars, Nested
  <1>3. temp.kind = "none" /\ Shown = Nil
    BY DEF Init, NoTemp, Shown
  <1> QED
    BY <1>2, <1>3 DEF V!Init

\* Reading through the heap, every program over the core forms behaves as if every
\* variable held a value of its own: an assignment reaches the variable it names and
\* no other, a copy is independent of what it was copied from, and the end of a block
\* or a call changes no variable that stays in scope (codegen's retain, release and
\* copy-on-write calls around every statement).
THEOREM ArcIsValues ==
  ASSUME Forms = {} PROVE Spec => ImplementsValues
PROOF
  <1> DEFINE Safe == \E K \in Kinds : IInv(K)
  <1>1. Init => Safe
    BY Starts
  <1>2. Safe /\ [Next]_vars => Safe'
    BY Keeping
  <1>3. Safe /\ Safe' /\ [Next]_vars => [V!Next]_(V!vars)
    <2> SUFFICES ASSUME Safe, Safe', [Next]_vars PROVE [V!Next]_(V!vars)
      OBVIOUS
    <2>1. PICK K \in Kinds : IInv(K)
      OBVIOUS
    <2>2. PICK J \in Kinds : IInv(J)'
      OBVIOUS
    <2>3. CASE UNCHANGED vars
      BY <2>3 DEF vars, V!vars, Seen, View, Shown, Deref, Bound, Ptr
    <2>4. CASE Next
      <3>1. V!Next
        BY <2>1, <2>2, <2>4, ExpressionMaps, ConsumingMaps, IntMaps, ControlMaps DEF Next
      <3> QED
        BY <3>1
    <2> QED
      BY <2>3, <2>4
  <1>4. Init => V!Init
    BY InitMaps
  <1> HIDE DEF Safe
  <1> QED
    BY <1>1, <1>2, <1>3, <1>4, PTL DEF Spec, ImplementsValues, V!Spec
=============================================================================
