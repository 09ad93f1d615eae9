---------------------------- MODULE HashMapProofs ----------------------------
(***************************************************************************)
(* What HashMap guarantees for every set of keys, every hash function and  *)
(* every size of the table.                                                *)
(*                                                                         *)
(* The core is the probe invariant: an entry is reached from its home      *)
(* across occupied slots.  While a removal moves entries one slot, the     *)
(* hole, may be vacant in between, and only for the entries the removal    *)
(* has not come to.  Distances around the table are linear expressions;    *)
(* only WrapIs deals with the remainders that the code computes.           *)
(***************************************************************************)
EXTENDS HashMap, FiniteSetTheorems, NaturalsInduction, TLAPS

Entry == [key : Key, val : Val]
Table(cap) == [Slots(cap) -> {Vacant} \cup Entry]

\* The occupied slots of a table.
Occ(t) == {i \in DOMAIN t : t[i] # Vacant}

Put(t, p, e) == [t EXCEPT ![p] = e]

Home(k, cap) == hash[k] % cap

\* How many places after slot a slot s comes, round the end of the table.
Dist(a, s, cap) == IF s >= a THEN s - a ELSE s - a + cap

\* A probe for k passes slot s before it comes to slot i.
Passes(k, s, i, cap) == Dist(Home(k, cap), s, cap) < Dist(Home(k, cap), i, cap)

Chained(t, cap) ==
  \A i \in Occ(t) : \A s \in Slots(cap) : Passes(t[i].key, s, i, cap) => t[s] # Vacant

\* The same while a removal moves entries: g is the hole, c is the cursor.
Behind(g, c, i, cap) == Dist(g, i, cap) >= IF c = g THEN cap ELSE Dist(g, c, cap)

ChainedBut(t, g, c, cap) ==
  \A i \in Occ(t) : \A s \in Slots(cap) :
    Passes(t[i].key, s, i, cap) => t[s] # Vacant \/ (s = g /\ Behind(g, c, i, cap))

Unique(t) == \A i, j \in Occ(t) : t[i].key = t[j].key => i = j

-----------------------------------------------------------------------------
(* Remainders *)

\* A remainder lies in the table.
LEMMA ModIs ==
  ASSUME NEW n \in Nat, NEW cap \in Nat, cap > 0
  PROVE  n % cap \in 0 .. cap - 1 /\ n = cap * (n \div cap) + (n % cap) /\ (n \div cap) \in Nat
OBVIOUS

LEMMA QuotientIs ==
  ASSUME NEW cap \in Nat, cap > 0, NEW q \in Int, NEW x \in Int, cap * q = x, x > -cap, x < 2 * cap
  PROVE  q \in {0, 1}
OBVIOUS

LEMMA Distributes ==
  ASSUME NEW cap \in Nat, NEW a \in Nat, NEW b \in Nat, NEW x \in Int, cap * a = x + cap * b
  PROVE  cap * (a - b) = x
OBVIOUS

\* Going d places on from a home wraps round at most once.
LEMMA WrapIs ==
  ASSUME NEW h \in Nat, NEW cap \in Nat, cap > 0, NEW d \in 0 .. cap - 1
  PROVE  (h + d) % cap = IF (h % cap) + d < cap THEN (h % cap) + d ELSE (h % cap) + d - cap
<1> DEFINE r == h % cap
           m == (h + d) % cap
           a == (h + d) \div cap
           b == h \div cap
<1>1. r \in 0 .. cap - 1 /\ h = cap * b + r /\ b \in Nat
  BY ModIs
<1>2. m \in 0 .. cap - 1 /\ h + d = cap * a + m /\ a \in Nat
  BY ModIs
<1> HIDE DEF r, m, a, b
<1> DEFINE A == cap * a
           B == cap * b
<1>3. A \in Nat /\ B \in Nat
  BY <1>1, <1>2
<1>4. A = (r + d - m) + B
  <2> HIDE DEF A, B
  <2>1. h + d = A + m /\ h = B + r
    BY <1>1, <1>2 DEF A, B
  <2> QED
    BY <2>1, <1>1, <1>2, <1>3
<1>5. cap * (a - b) = r + d - m
  BY <1>1, <1>2, <1>4, Distributes
<1>6. a - b \in {0, 1}
  BY <1>1, <1>2, <1>5, QuotientIs
<1>7. CASE a - b = 0
  <2>1. r + d - m = 0
    BY <1>5, <1>7
  <2> QED
    BY <1>1, <1>2, <2>1 DEF r, m
<1>8. CASE a - b = 1
  <2>1. r + d - m = cap
    BY <1>5, <1>8
  <2> QED
    BY <1>1, <1>2, <2>1 DEF r, m
<1> QED
  BY <1>6, <1>7, <1>8

\* A nonempty set of places has a first one.
LEMMA LeastIs ==
  ASSUME NEW D \in SUBSET Nat, D # {}
  PROVE  First(D) \in D /\ \A e \in D : First(D) <= e
<1>1. IsWellFoundedOn(OpToRel(<, Nat), Nat)
  BY NatLessThanWellFounded
<1>2. PICK d \in D : \A e \in D : ~ (<<e, d>> \in OpToRel(<, Nat))
  BY <1>1, WFMin
<1>3. \A e \in D : <<e, d>> \in OpToRel(<, Nat) <=> e < d
  BY DEF OpToRel
<1>4. \A e \in D : ~ (e < d)
  BY <1>2, <1>3
<1>5. \A e \in D : e \in Nat /\ d \in Nat
  OBVIOUS
<1>6. \E x \in D : \A e \in D : x <= e
  BY <1>4, <1>5
<1> QED
  BY <1>6 DEF First

-----------------------------------------------------------------------------
(* Probes *)

LEMMA HomeIn ==
  ASSUME hash \in [Key -> Nat], NEW k \in Key, NEW cap \in Nat, cap > 0
  PROVE  Home(k, cap) \in Slots(cap)
BY ModIs DEF Home, Slots

\* The slot d places on is the one at distance d, and each slot is such a one.
LEMMA ProbeIs ==
  ASSUME hash \in [Key -> Nat], NEW k \in Key, NEW cap \in Nat, cap > 0, NEW d \in Slots(cap)
  PROVE  Probe(k, d, cap) \in Slots(cap) /\ Dist(Home(k, cap), Probe(k, d, cap), cap) = d
<1> DEFINE h == hash[k]
<1>1. h \in Nat
  OBVIOUS
<1>2. (h + d) % cap = IF (h % cap) + d < cap THEN (h % cap) + d ELSE (h % cap) + d - cap
  BY <1>1, WrapIs DEF Slots
<1>3. h % cap \in 0 .. cap - 1
  BY <1>1, ModIs
<1> DEFINE r == h % cap
<1>4. Home(k, cap) = r /\ Probe(k, d, cap) = IF r + d < cap THEN r + d ELSE r + d - cap
  BY <1>2 DEF Home, Probe
<1>5. r \in 0 .. cap - 1
  BY <1>3
<1> HIDE DEF r
<1> QED
  BY <1>4, <1>5 DEF Dist, Slots

LEMMA ProbeAt ==
  ASSUME hash \in [Key -> Nat], NEW k \in Key, NEW cap \in Nat, cap > 0, NEW s \in Slots(cap)
  PROVE  /\ Dist(Home(k, cap), s, cap) \in Slots(cap)
         /\ Probe(k, Dist(Home(k, cap), s, cap), cap) = s
<1> DEFINE d == Dist(Home(k, cap), s, cap)
           p == Probe(k, d, cap)
<1>1. Home(k, cap) \in Slots(cap)
  BY HomeIn
<1>2. d \in Slots(cap)
  BY <1>1 DEF Dist, Slots
<1>3. p \in Slots(cap) /\ Dist(Home(k, cap), p, cap) = d
  BY <1>2, ProbeIs
<1>4. p = s
  <2> HIDE DEF p
  <2> QED
    BY <1>1, <1>3 DEF Dist, Slots
<1> QED
  BY <1>2, <1>4

\* The number of slots is the capacity.
LEMMA SlotsIs ==
  ASSUME NEW cap \in Nat
  PROVE  IsFiniteSet(Slots(cap)) /\ Cardinality(Slots(cap)) = cap
<1>1. IsFiniteSet(0 .. cap - 1) /\ Cardinality(0 .. cap - 1) = IF 0 > cap - 1 THEN 0 ELSE cap - 1 - 0 + 1
  BY FS_Interval
<1> QED
  BY <1>1 DEF Slots

\* An insertion fills the first vacant slot of the probe.
LEMMA InsertIs ==
  ASSUME hash \in [Key -> Nat], NEW cap \in Nat, cap > 0, NEW t \in Table(cap),
         NEW e \in Entry, NEW g \in Slots(cap), t[g] = Vacant
  PROVE  /\ VacantPlaces(t, e.key) # {}
         /\ \E p \in Slots(cap) :
              /\ t[p] = Vacant
              /\ Insert(t, e) = Put(t, p, e)
              /\ \A s \in Slots(cap) : Passes(e.key, s, p, cap) => t[s] # Vacant
<1> DEFINE D == VacantPlaces(t, e.key)
           k == e.key
<1>1. k \in Key
  BY DEF Entry
<1>2. DOMAIN t = Slots(cap) /\ Cardinality(DOMAIN t) = cap
  BY SlotsIs DEF Table
<1>3. D = {d \in Slots(cap) : t[Probe(k, d, cap)] = Vacant}
  BY <1>2 DEF VacantPlaces
<1>4. Dist(Home(k, cap), g, cap) \in D
  BY <1>1, <1>3, ProbeAt
<1>5. D \in SUBSET Nat
  BY <1>3 DEF Slots
<1>6. First(D) \in D /\ \A d \in D : First(D) <= d
  BY <1>4, <1>5, LeastIs
<1> DEFINE p == Probe(k, First(D), cap)
<1>7. First(D) \in Slots(cap) /\ t[p] = Vacant
  BY <1>3, <1>6
<1>8. p \in Slots(cap) /\ Dist(Home(k, cap), p, cap) = First(D)
  BY <1>1, <1>7, ProbeIs
<1>9. Insert(t, e) = Put(t, p, e)
  BY <1>2 DEF Insert, Put
<1>10. ASSUME NEW s \in Slots(cap), Passes(k, s, p, cap)
       PROVE  t[s] # Vacant
  <2>1. Dist(Home(k, cap), s, cap) \in Slots(cap) /\ Probe(k, Dist(Home(k, cap), s, cap), cap) = s
    BY <1>1, ProbeAt
  <2>2. Dist(Home(k, cap), s, cap) < First(D)
    BY <1>8, <1>10 DEF Passes
  <2>3. Dist(Home(k, cap), s, cap) \notin D
    BY <2>1, <2>2, <1>6, <1>7 DEF Slots
  <2> QED
    BY <2>1, <2>3, <1>3
<1> QED
  BY <1>4, <1>7, <1>8, <1>9, <1>10

\* An entry of a table has a key and a value.
LEMMA SlotIs ==
  ASSUME NEW cap \in Nat, NEW t \in Table(cap)
  PROVE  /\ DOMAIN t = Slots(cap) /\ Occ(t) \subseteq Slots(cap)
         /\ \A i \in Slots(cap) : t[i] # Vacant <=> i \in Occ(t)
         /\ \A i \in Occ(t) : t[i] \in Entry /\ t[i].key \in Key /\ t[i].val \in Val
         /\ \A i \in Slots(cap) : t[i] = Vacant <=> t[i].key = None
         /\ \A i \in Slots(cap) : t[i] = Vacant <=> t[i].val = None
BY KeyAssumption, ValAssumption DEF Table, Occ, Entry, Vacant

\* A lookup finds the entry of its key, wherever it is, and nothing else.
LEMMA FindIs ==
  ASSUME hash \in [Key -> Nat], capacity \in Nat, capacity > 0, table \in Table(capacity),
         Chained(table, capacity), Unique(table), NEW k \in Key
  PROVE  /\ \A i \in Occ(table) : table[i].key = k => Find(k) = i
         /\ Find(k) # None => Find(k) \in Occ(table) /\ table[Find(k)].key = k
<1> DEFINE D == {d \in Slots(capacity) : table[Probe(k, d, capacity)].key \in {k, None}}
           q == Probe(k, First(D), capacity)
<1>1. Find(k) = IF D # {} /\ table[q].key = k THEN q ELSE None
  BY DEF Find
<1>2. D \in SUBSET Nat
  BY DEF Slots
<1>3. ASSUME NEW i \in Occ(table), table[i].key = k
      PROVE  Find(k) = i
  <2> DEFINE d == Dist(Home(k, capacity), i, capacity)
  <2>1. i \in Slots(capacity)
    BY SlotIs
  <2>2. d \in Slots(capacity) /\ Probe(k, d, capacity) = i
    BY <2>1, ProbeAt
  <2>3. d \in D
    BY <2>2, <1>3
  <2>4. First(D) \in D /\ First(D) <= d
    BY <2>3, <1>2, LeastIs
  <2>5. q \in Slots(capacity) /\ Dist(Home(k, capacity), q, capacity) = First(D)
        /\ table[q].key \in {k, None}
    BY <2>4, ProbeIs
  <2>6. First(D) \in Slots(capacity)
    BY <2>4
  <2>7. CASE First(D) = d
    BY <2>7, <2>2, <2>3, <1>1, <1>3
  <2>8. CASE First(D) < d
    <3>1. Passes(table[i].key, q, i, capacity)
      BY <2>5, <2>8, <1>3 DEF Passes
    <3>2. table[q] # Vacant
      BY <3>1, <2>5 DEF Chained
    <3>3. q \in Occ(table) /\ table[q].key = k
      BY <3>2, <2>5, SlotIs
    <3>4. q = i
      BY <3>3, <1>3 DEF Unique
    <3> QED
      BY <3>4, <3>3, <1>1, <2>3
  <2> QED
    BY <2>4, <2>2, <2>6, <2>7, <2>8 DEF Slots
<1>4. ASSUME Find(k) # None
      PROVE  Find(k) \in Occ(table) /\ table[Find(k)].key = k
  <2>1. D # {} /\ table[q].key = k /\ Find(k) = q
    BY <1>1, <1>4
  <2>2. First(D) \in D
    BY <2>1, <1>2, LeastIs
  <2>3. q \in Slots(capacity)
    BY <2>2, ProbeIs
  <2>4. k # None
    BY KeyAssumption
  <2> QED
    BY <2>1, <2>3, <2>4, SlotIs
<1> QED
  BY <1>3, <1>4

-----------------------------------------------------------------------------
(* What the steps do to a table *)

\* Filling a vacant slot adds an entry and nothing else.
LEMMA Fill ==
  ASSUME NEW cap \in Nat, NEW t \in Table(cap), NEW e \in Entry,
         NEW p \in Slots(cap), t[p] = Vacant
  PROVE  /\ Put(t, p, e) \in Table(cap) /\ Put(t, p, e)[p] = e
         /\ Occ(Put(t, p, e)) = Occ(t) \cup {p} /\ p \notin Occ(t)
         /\ \A i \in Slots(cap) : i # p => Put(t, p, e)[i] = t[i]
         /\ IsFiniteSet(Occ(t)) /\ IsFiniteSet(Occ(Put(t, p, e)))
         /\ Cardinality(Occ(Put(t, p, e))) = Cardinality(Occ(t)) + 1
<1> DEFINE u == Put(t, p, e)
<1>1. e # Vacant
  BY KeyAssumption DEF Entry, Vacant
<1>2. u \in Table(cap) /\ u[p] = e /\ \A i \in Slots(cap) : i # p => u[i] = t[i]
  BY DEF Table, Put
<1> HIDE DEF u
<1>3. Occ(u) = Occ(t) \cup {p} /\ p \notin Occ(t)
  BY <1>1, <1>2, SlotIs DEF Occ
<1>4. IsFiniteSet(Occ(t))
  BY SlotIs, SlotsIs, FS_Subset
<1>5. IsFiniteSet(Occ(t) \cup {p})
      /\ Cardinality(Occ(t) \cup {p}) = IF p \in Occ(t) THEN Cardinality(Occ(t)) ELSE Cardinality(Occ(t)) + 1
  BY <1>4, FS_AddElement
<1> QED
  BY <1>2, <1>3, <1>4, <1>5 DEF u

\* Vacating a slot removes its entry and nothing else.
LEMMA Vacate ==
  ASSUME NEW cap \in Nat, NEW t \in Table(cap), NEW p \in Occ(t)
  PROVE  /\ Put(t, p, Vacant) \in Table(cap) /\ Put(t, p, Vacant)[p] = Vacant /\ p \in Slots(cap)
         /\ Occ(Put(t, p, Vacant)) = Occ(t) \ {p}
         /\ \A i \in Slots(cap) : i # p => Put(t, p, Vacant)[i] = t[i]
         /\ IsFiniteSet(Occ(t)) /\ IsFiniteSet(Occ(Put(t, p, Vacant)))
         /\ Cardinality(Occ(t)) \in Nat /\ Cardinality(Occ(Put(t, p, Vacant))) = Cardinality(Occ(t)) - 1
<1> DEFINE u == Put(t, p, Vacant)
<1>1. u \in Table(cap) /\ u[p] = Vacant /\ p \in Slots(cap) /\ \A i \in Slots(cap) : i # p => u[i] = t[i]
  BY SlotIs DEF Table, Put
<1> HIDE DEF u
<1>2. Occ(u) = Occ(t) \ {p}
  BY <1>1, SlotIs DEF Occ
<1>3. IsFiniteSet(Occ(t))
  BY SlotIs, SlotsIs, FS_Subset
<1>4. IsFiniteSet(Occ(t) \ {p})
      /\ Cardinality(Occ(t) \ {p}) = IF p \in Occ(t) THEN Cardinality(Occ(t)) - 1 ELSE Cardinality(Occ(t))
  BY <1>3, FS_RemoveElement
<1> QED
  BY <1>1, <1>2, <1>3, <1>4, FS_CardinalityType DEF u

\* A table with fewer entries than slots has a vacant slot.
LEMMA Room ==
  ASSUME NEW cap \in Nat, NEW t \in Table(cap), Cardinality(Occ(t)) < cap
  PROVE  \E g \in Slots(cap) : t[g] = Vacant
<1>1. SUFFICES ASSUME \A g \in Slots(cap) : t[g] # Vacant
               PROVE  FALSE
  OBVIOUS
<1>2. Occ(t) = Slots(cap)
  BY <1>1, SlotIs
<1> QED
  BY <1>2, SlotsIs

\* Inserting a key that is absent keeps every entry in reach.
LEMMA InsertKeeps ==
  ASSUME hash \in [Key -> Nat], NEW cap \in Nat, cap > 0, NEW t \in Table(cap), NEW e \in Entry,
         Chained(t, cap), Unique(t), \A i \in Occ(t) : t[i].key # e.key,
         Cardinality(Occ(t)) < cap
  PROVE  /\ Insert(t, e) \in Table(cap)
         /\ Chained(Insert(t, e), cap) /\ Unique(Insert(t, e))
         /\ Cardinality(Occ(Insert(t, e))) = Cardinality(Occ(t)) + 1
         /\ \E p \in Slots(cap) : t[p] = Vacant /\ Insert(t, e) = Put(t, p, e)
         /\ VacantPlaces(t, e.key) # {}
<1>1. PICK g \in Slots(cap) : t[g] = Vacant
  BY Room
<1>2. VacantPlaces(t, e.key) # {}
  BY <1>1, InsertIs
<1>3. PICK p \in Slots(cap) : /\ t[p] = Vacant
                              /\ Insert(t, e) = Put(t, p, e)
                              /\ \A s \in Slots(cap) : Passes(e.key, s, p, cap) => t[s] # Vacant
  BY <1>1, InsertIs
<1> DEFINE u == Insert(t, e)
<1>4. u = Put(t, p, e) /\ t[p] = Vacant
  BY <1>3
<1> HIDE DEF u
<1>5. /\ u \in Table(cap) /\ u[p] = e
      /\ Occ(u) = Occ(t) \cup {p} /\ p \notin Occ(t)
      /\ \A i \in Slots(cap) : i # p => u[i] = t[i]
      /\ Cardinality(Occ(u)) = Cardinality(Occ(t)) + 1
  BY <1>4, Fill
<1>6. Occ(t) \subseteq Slots(cap)
  BY SlotIs
<1>7. e # Vacant
  BY KeyAssumption DEF Entry, Vacant
<1>8. Chained(u, cap)
  <2> SUFFICES ASSUME NEW i \in Occ(u), NEW s \in Slots(cap), Passes(u[i].key, s, i, cap)
               PROVE  u[s] # Vacant
    BY DEF Chained
  <2>1. CASE i = p
    <3>1. t[s] # Vacant
      BY <2>1, <1>3, <1>5
    <3> QED
      BY <3>1, <1>3, <1>5
  <2>2. CASE i # p
    <3>1. i \in Occ(t) /\ u[i] = t[i]
      BY <2>2, <1>5, <1>6
    <3>2. t[s] # Vacant
      BY <3>1 DEF Chained
    <3> QED
      BY <3>2, <1>3, <1>5
  <2> QED
    BY <2>1, <2>2
<1>9. Unique(u)
  BY <1>5, <1>6 DEF Unique
<1> QED
  BY <1>2, <1>3, <1>5, <1>8, <1>9, <1>4 DEF u

-----------------------------------------------------------------------------
(* The hole of a removal *)

\* The slot after c, as Succ has it in a table of cap slots.
After(c, cap) == IF c + 1 = cap THEN 0 ELSE c + 1

LEMMA AfterIn ==
  ASSUME NEW cap \in Nat, NEW c \in Slots(cap)
  PROVE  After(c, cap) \in Slots(cap)
BY DEF After, Slots

\* Of three slots on the way from h to i the one in the middle is passed.
LEMMA OnTheWay ==
  ASSUME NEW cap \in Nat, NEW h \in Slots(cap), NEW g \in Slots(cap), NEW c \in Slots(cap),
         NEW i \in Slots(cap), Dist(h, g, cap) < Dist(h, i, cap), Dist(g, c, cap) < Dist(g, i, cap)
  PROVE  Dist(h, c, cap) < Dist(h, i, cap)
BY DEF Dist, Slots

\* An entry behind the cursor, other than the one at it, is behind the next one.
LEMMA BehindNext ==
  ASSUME NEW cap \in Nat, NEW g \in Slots(cap), NEW c \in Slots(cap), NEW i \in Slots(cap),
         c # g, i # c, Behind(g, c, i, cap)
  PROVE  Behind(g, After(c, cap), i, cap)
BY DEF Dist, Slots, Behind, After

\* Every other entry is behind the slot after the hole.
LEMMA BehindFirst ==
  ASSUME NEW cap \in Nat, cap >= 2, NEW g \in Slots(cap), NEW i \in Slots(cap), i # g
  PROVE  Behind(g, After(g, cap), i, cap)
BY DEF Dist, Slots, Behind, After

\* Taking an entry out opens a hole just before the cursor.
LEMMA HoleOpens ==
  ASSUME hash \in [Key -> Nat], NEW cap \in Nat, cap >= 2, NEW t \in Table(cap), Chained(t, cap),
         Unique(t), NEW g \in Occ(t)
  PROVE  /\ ChainedBut(Put(t, g, Vacant), g, After(g, cap), cap)
         /\ Unique(Put(t, g, Vacant))
<1> DEFINE u == Put(t, g, Vacant)
<1>1. /\ g \in Slots(cap) /\ Occ(u) = Occ(t) \ {g}
      /\ \A i \in Slots(cap) : i # g => u[i] = t[i]
  BY Vacate
<1>2. Occ(t) \subseteq Slots(cap)
  BY SlotIs
<1> HIDE DEF u
<1>3. ASSUME NEW i \in Occ(u), NEW s \in Slots(cap), Passes(u[i].key, s, i, cap)
      PROVE  u[s] # Vacant \/ (s = g /\ Behind(g, After(g, cap), i, cap))
  <2>1. i \in Occ(t) /\ i \in Slots(cap) /\ i # g /\ u[i] = t[i]
    BY <1>1, <1>2
  <2>2. t[s] # Vacant
    BY <2>1, <1>3 DEF Chained
  <2>3. CASE s = g
    BY <2>1, <2>3, <1>1, BehindFirst
  <2>4. CASE s # g
    BY <2>2, <2>4, <1>1
  <2> QED
    BY <2>3, <2>4
<1>4. Unique(u)
  BY <1>1, <1>2 DEF Unique
<1> QED
  BY <1>3, <1>4 DEF u, ChainedBut

\* Putting the entry at the cursor back either leaves it there or fills the hole
\* with it, and then its own slot is the hole.
LEMMA HoleMoves ==
  ASSUME hash \in [Key -> Nat], NEW cap \in Nat, cap >= 2, NEW t \in Table(cap), Unique(t),
         NEW g \in Slots(cap), t[g] = Vacant, NEW c \in Occ(t), ChainedBut(t, g, c, cap),
         NEW u, u = Insert(Put(t, c, Vacant), t[c])
  PROVE  /\ \/ u = t /\ ChainedBut(u, g, After(c, cap), cap)
            \/ /\ u = Put(Put(t, c, Vacant), g, t[c])
               /\ ChainedBut(u, c, After(c, cap), cap)
               /\ u[c] = Vacant
<1> DEFINE v == Put(t, c, Vacant)
           e == t[c]
           k == t[c].key
<1>1. c \in Slots(cap) /\ c # g /\ e \in Entry /\ k \in Key /\ e # Vacant
  BY SlotIs
<1>2. /\ v \in Table(cap) /\ v[c] = Vacant
      /\ Occ(v) = Occ(t) \ {c}
      /\ \A i \in Slots(cap) : i # c => v[i] = t[i]
  BY Vacate
<1>3. PICK p \in Slots(cap) : /\ v[p] = Vacant
                              /\ u = Put(v, p, e)
                              /\ \A s \in Slots(cap) : Passes(k, s, p, cap) => v[s] # Vacant
  BY <1>1, <1>2, InsertIs
<1>4. /\ u \in Table(cap) /\ u[p] = e
      /\ Occ(u) = Occ(v) \cup {p}
      /\ \A i \in Slots(cap) : i # p => u[i] = v[i]
  BY <1>1, <1>2, <1>3, Fill
<1>5. Occ(t) \subseteq Slots(cap)
  BY SlotIs
<1>6. Home(k, cap) \in Slots(cap)
  BY <1>1, HomeIn
<1> HIDE DEF v, e, k
<1>7. CASE p = c
  <2>1. u = t
    BY <1>1, <1>2, <1>3, <1>7 DEF Put, Table, v, e
  <2>2. ~ Passes(k, g, c, cap)
    BY <1>1, <1>2, <1>3, <1>7
  <2>3. ASSUME NEW i \in Occ(t), NEW s \in Slots(cap), Passes(t[i].key, s, i, cap)
        PROVE  t[s] # Vacant \/ (s = g /\ Behind(g, After(c, cap), i, cap))
    <3>1. t[s] # Vacant \/ (s = g /\ Behind(g, c, i, cap))
      BY <2>3 DEF ChainedBut
    <3>2. CASE s = g /\ Behind(g, c, i, cap)
      <4>1. i # c
        BY <2>2, <2>3, <3>2 DEF k
      <4> QED
        BY <4>1, <3>2, <1>1, <1>5, BehindNext
    <3> QED
      BY <3>1, <3>2
  <2> QED
    BY <2>1, <2>3 DEF ChainedBut
<1>8. CASE p # c
  <2>1. Passes(k, p, c, cap)
    <3>1. ~ Passes(k, c, p, cap)
      BY <1>1, <1>2, <1>3
    <3> QED
      BY <3>1, <1>1, <1>6, <1>8 DEF Passes, Dist, Slots
  <2>2. p = g
    <3>1. t[p] = Vacant
      BY <1>2, <1>3, <1>8
    <3> QED
      BY <2>1, <3>1 DEF ChainedBut, k
  <2>3. u[c] = Vacant
    BY <1>1, <1>2, <1>4, <1>8
  <2>4. ASSUME NEW i \in Occ(u), NEW s \in Slots(cap), Passes(u[i].key, s, i, cap)
        PROVE  u[s] # Vacant \/ (s = c /\ Behind(c, After(c, cap), i, cap))
    <3>1. i \in Slots(cap) /\ i # c
      BY <1>2, <1>4, <1>5, <1>8
    <3>2. CASE s = c
      BY <3>1, <3>2, <1>1, BehindFirst
    <3>3. CASE s = g
      BY <3>3, <2>2, <1>1, <1>4 DEF e
    <3>4. CASE s # c /\ s # g /\ i = g
      <4>1. v[s] # Vacant
        BY <3>4, <2>2, <2>4, <1>3, <1>4 DEF e, k
      <4> QED
        BY <4>1, <3>4, <2>2, <1>4
    <3>5. CASE s # c /\ s # g /\ i # g
      <4>1. i \in Occ(t) /\ u[i] = t[i]
        BY <3>1, <3>5, <2>2, <1>2, <1>4
      <4>2. t[s] # Vacant
        BY <4>1, <3>5, <2>4 DEF ChainedBut
      <4> QED
        BY <4>2, <3>5, <2>2, <1>2, <1>4
    <3> QED
      BY <3>2, <3>3, <3>4, <3>5
  <2> QED
    BY <2>2, <2>3, <2>4, <1>3 DEF ChainedBut, v, e
<1> QED
  BY <1>7, <1>8

\* A vacant slot ends the moving: nothing behind it needs the hole.
LEMMA HoleCloses ==
  ASSUME hash \in [Key -> Nat], NEW cap \in Nat, NEW t \in Table(cap),
         NEW g \in Slots(cap), t[g] = Vacant, NEW c \in Slots(cap), t[c] = Vacant,
         ChainedBut(t, g, c, cap)
  PROVE  Chained(t, cap)
<1> SUFFICES ASSUME NEW i \in Occ(t), NEW s \in Slots(cap), Passes(t[i].key, s, i, cap),
                    t[s] = Vacant
             PROVE  FALSE
  BY DEF Chained
<1>1. s = g /\ Behind(g, c, i, cap)
  BY DEF ChainedBut
<1>2. i \in Slots(cap) /\ i # c /\ i # g /\ t[i].key \in Key
  BY SlotIs
<1>3. cap > 0
  BY DEF Slots
<1> DEFINE h == Home(t[i].key, cap)
<1>4. h \in Slots(cap)
  BY <1>2, <1>3, HomeIn
<1>5. c # g /\ Dist(g, c, cap) < Dist(g, i, cap)
  BY <1>1, <1>2 DEF Behind, Dist, Slots
<1>6. Dist(h, g, cap) < Dist(h, i, cap)
  BY <1>1 DEF Passes
<1>7. Dist(h, c, cap) < Dist(h, i, cap)
  BY <1>2, <1>4, <1>5, <1>6, OnTheWay
<1>8. Passes(t[i].key, c, i, cap)
  BY <1>7 DEF Passes
<1> QED
  BY <1>5, <1>8 DEF ChainedBut

-----------------------------------------------------------------------------
(* The structure of the table, between calls and within them *)

\* The slots of the old table that are still to be copied.
Left == {j \in DOMAIN old : j >= cursor /\ old[j] # Vacant}

Sizes ==
  /\ hash \in [Key -> Nat]
  /\ capacity \in Nat /\ capacity >= 2
  /\ table \in Table(capacity)
  /\ pc \in {"idle", "copy", "store", "shift", "freed"}
  /\ IF pc = "copy"
       THEN \E n \in Nat : capacity = n + n /\ old \in Table(n) /\ cursor \in 0 .. n
       ELSE /\ old = Cleared(0)
            /\ IF pc = "shift" THEN cursor \in Slots(capacity) ELSE cursor = 0
  /\ IF pc \in {"copy", "store"} THEN op \in Entry ELSE op = NoOp

\* There is room for what a set will still put in, and a quarter is never filled.
Load ==
  /\ count = Cardinality(Occ(table))
  /\ 4 * count <= 3 * capacity
  /\ pc = "copy" => 4 * (count + Cardinality(Left) + 1) <= 3 * capacity
  /\ pc = "store" => 4 * (count + 1) <= 3 * capacity

KeysOnce ==
  /\ Unique(table)
  /\ \A i, j \in Left : old[i].key = old[j].key => i = j
  /\ \A i \in Occ(table), j \in Left : table[i].key # old[j].key

Reach ==
  IF pc = "shift"
    THEN \E g \in Slots(capacity) : table[g] = Vacant /\ ChainedBut(table, g, cursor, capacity)
    ELSE Chained(table, capacity)

Struct == Sizes /\ Load /\ KeysOnce /\ Reach

LEMMA NothingLeft ==
  ASSUME Sizes, pc # "copy"
  PROVE  Left = {} /\ old = Cleared(0) /\ DOMAIN old = {}
BY DEF Sizes, Left, Cleared, Slots

LEMMA ClearedIs ==
  ASSUME NEW cap \in Nat
  PROVE  Cleared(cap) \in Table(cap) /\ Occ(Cleared(cap)) = {}
BY DEF Cleared, Table, Occ

\* Counting the entries of a table.
LEMMA OccFinite ==
  ASSUME NEW cap \in Nat, NEW t \in Table(cap)
  PROVE  IsFiniteSet(Occ(t)) /\ Cardinality(Occ(t)) \in Nat
BY SlotIs, SlotsIs, FS_Subset, FS_CardinalityType

LEMMA StructInit ==
  ASSUME Init
  PROVE  Struct
<1>1. hash \in [Key -> Nat] /\ capacity \in Nat /\ capacity >= 2
  BY HashAssumption, BoundAssumption DEF Init
<1>2. table \in Table(capacity) /\ Occ(table) = {}
  BY <1>1, ClearedIs DEF Init
<1>3. Sizes
  BY <1>1, <1>2 DEF Init, Sizes
<1>4. Left = {}
  BY <1>3, NothingLeft DEF Init
<1>5. count = Cardinality(Occ(table))
  BY <1>2, FS_EmptySet DEF Init
<1> QED
  BY <1>1, <1>2, <1>3, <1>4, <1>5 DEF Init, Struct, Load, KeysOnce, Reach, Unique, Chained

\* The steps that leave the map alone.
LEMMA StructSame ==
  ASSUME Struct, UNCHANGED <<config, storage, pc>>
  PROVE  Struct'
BY DEF Struct, Sizes, Load, KeysOnce, Reach, Left, Unique, Chained, ChainedBut, Behind, Passes,
       Home, Occ, config, storage

\* A set that grows the table leaves every entry to be copied.
LEMMA StructSet ==
  ASSUME Struct, NEW k \in Key, NEW v \in Val, Set(k, v)
  PROVE  Struct'
<1>1. op' \in Entry /\ hash' = hash /\ pc = "idle"
  BY DEF Set, Entry, config
<1>2. CASE pc' = "store" /\ ~ MustGrow /\ UNCHANGED <<capacity, count, table, old, cursor>>
  <2>1. Sizes'
    BY <1>1, <1>2 DEF Struct, Sizes
  <2>2. Left' = Left
    BY <1>2 DEF Left
  <2>3. 4 * (count + 1) <= 3 * capacity
    <3>1. count \in Nat
      BY OccFinite DEF Struct, Sizes, Load
    <3> QED
      BY <1>2, <3>1 DEF MustGrow, Struct, Sizes
  <2> QED
    BY <1>1, <1>2, <2>1, <2>2, <2>3
    DEF Struct, Load, KeysOnce, Reach, Unique, Chained, Passes, Home, Occ
<1>3. CASE pc' = "copy" /\ Grow
  <2> DEFINE n == capacity
  <2>1. n \in Nat /\ n >= 2 /\ table \in Table(n) /\ 4 * count <= 3 * n /\ count = Cardinality(Occ(table))
    BY DEF Struct, Sizes, Load
  <2>2. capacity' = n + n /\ old' = table /\ cursor' = 0 /\ count' = 0 /\ table' = Cleared(n + n)
    BY <1>3, <2>1 DEF Grow
  <2>3. table' \in Table(n + n) /\ Occ(table') = {}
    BY <2>1, <2>2, ClearedIs
  <2>4. Left' = Occ(table)
    BY <2>1, <2>2 DEF Left, Occ, Table, Slots
  <2>5. Sizes'
    BY <1>1, <1>3, <2>1, <2>2, <2>3 DEF Sizes, Struct
  <2>6. Load'
    <3>1. count \in Nat
      BY <2>1, OccFinite
    <3>2. count' = Cardinality(Occ(table'))
      BY <2>2, <2>3, FS_EmptySet
    <3> QED
      BY <1>3, <2>1, <2>2, <2>4, <3>1, <3>2 DEF Load
  <2>7. KeysOnce'
    BY <2>2, <2>3, <2>4 DEF KeysOnce, Unique, Struct
  <2> QED
    BY <1>3, <2>3, <2>5, <2>6, <2>7 DEF Struct, Reach, Chained
<1> QED
  BY <1>2, <1>3 DEF Set

\* What one turn of the copying loop does.
LEMMA CopyIs ==
  ASSUME Struct, CopyEntry
  PROVE  \/ /\ cursor \in Left /\ old[cursor] \in Entry /\ count' = count + 1
            /\ Left' = Left \ {cursor} /\ Cardinality(Left') = Cardinality(Left) - 1
            /\ \E p \in Slots(capacity) : table[p] = Vacant /\ table' = Put(table, p, old[cursor])
            /\ Chained(table', capacity) /\ Unique(table') /\ table' \in Table(capacity)
         \/ /\ old[cursor] = Vacant /\ cursor \in DOMAIN old
            /\ Left' = Left /\ table' = table /\ count' = count
<1>1. PICK n \in Nat : capacity = n + n /\ old \in Table(n) /\ cursor \in 0 .. n
  BY DEF CopyEntry, Struct, Sizes
<1>2. DOMAIN old = Slots(n) /\ cursor \in Slots(n) /\ old' = old /\ cursor' = cursor + 1
  BY <1>1 DEF CopyEntry, Table
<1>3. CASE old[cursor] # Vacant /\ table' = Insert(table, old[cursor]) /\ count' = count + 1
  <2> DEFINE e == old[cursor]
  <2>1. e \in Entry /\ cursor \in Left
    BY <1>1, <1>2, <1>3 DEF Table, Left, Slots
  <2>2. Left' = Left \ {cursor}
    BY <1>2 DEF Left, Slots
  <2>3. IsFiniteSet(Left)
    BY <1>1, <1>2, SlotsIs, FS_Subset DEF Left
  <2>4. Cardinality(Left) \in Nat /\ Cardinality(Left') = Cardinality(Left) - 1 /\ Cardinality(Left') \in Nat
    BY <2>1, <2>2, <2>3, FS_RemoveElement, FS_CardinalityType
  <2>5. \A i \in Occ(table) : table[i].key # e.key
    BY <2>1 DEF Struct, KeysOnce
  <2>6. Cardinality(Occ(table)) < capacity
    <3>1. count \in Nat /\ count = Cardinality(Occ(table))
      BY OccFinite DEF Struct, Sizes, Load
    <3>2. 4 * (count + Cardinality(Left) + 1) <= 3 * capacity
      BY DEF Struct, Load, CopyEntry
    <3> QED
      BY <2>4, <3>1, <3>2, <1>1
  <2> HIDE DEF e
  <2>7. /\ Insert(table, e) \in Table(capacity)
        /\ Chained(Insert(table, e), capacity) /\ Unique(Insert(table, e))
        /\ \E p \in Slots(capacity) : table[p] = Vacant /\ Insert(table, e) = Put(table, p, e)
    BY <2>1, <2>5, <2>6, InsertKeeps DEF Struct, Sizes, KeysOnce, Reach, CopyEntry
  <2> QED
    BY <1>3, <2>1, <2>2, <2>4, <2>7 DEF e
<1>4. CASE old[cursor] = Vacant /\ UNCHANGED <<table, count>>
  BY <1>2, <1>4 DEF Left, Slots
<1> QED
  BY <1>3, <1>4 DEF CopyEntry

LEMMA StructCopy ==
  ASSUME Struct, CopyEntry
  PROVE  Struct'
<1>1. PICK n \in Nat : capacity = n + n /\ old \in Table(n) /\ cursor \in 0 .. n
  BY DEF CopyEntry, Struct, Sizes
<1>2. /\ pc = "copy" /\ pc' = pc /\ op' = op /\ hash' = hash /\ capacity' = capacity /\ old' = old
      /\ cursor' = cursor + 1 /\ cursor' \in 0 .. n
  BY <1>1 DEF CopyEntry, config, Table, Slots
<1>3. count = Cardinality(Occ(table)) /\ count \in Nat /\ Cardinality(Left) \in Nat
  <2>1. IsFiniteSet(Left)
    BY <1>1, SlotsIs, FS_Subset DEF Left, Table
  <2> QED
    BY <2>1, OccFinite, FS_CardinalityType DEF Struct, Sizes, Load
<1>4. Chained(table, capacity)
  BY <1>2 DEF Struct, Reach
<1>5. CASE old[cursor] = Vacant /\ Left' = Left /\ table' = table /\ count' = count
  BY <1>1, <1>2, <1>4, <1>5
  DEF Struct, Sizes, Load, KeysOnce, Reach, Unique, Chained, Passes, Home, Occ
<1>6. ASSUME cursor \in Left, old[cursor] \in Entry, count' = count + 1,
             Left' = Left \ {cursor}, Cardinality(Left') = Cardinality(Left) - 1,
             NEW p \in Slots(capacity), table[p] = Vacant, table' = Put(table, p, old[cursor]),
             Chained(table', capacity), Unique(table'), table' \in Table(capacity)
      PROVE  Struct'
  <2>1. /\ Occ(table') = Occ(table) \cup {p} /\ table'[p] = old[cursor]
        /\ \A i \in Slots(capacity) : i # p => table'[i] = table[i]
        /\ Cardinality(Occ(table')) = Cardinality(Occ(table)) + 1
    BY <1>6, Fill DEF Struct, Sizes
  <2>2. Sizes'
    BY <1>1, <1>2, <1>6 DEF Struct, Sizes
  <2>3. Load'
    BY <1>2, <1>3, <1>6, <2>1 DEF Struct, Sizes, Load
  <2>4. Occ(table) \subseteq Slots(capacity)
    BY SlotIs DEF Struct, Sizes
  <2>5. \A i, j \in Left' : old'[i].key = old'[j].key => i = j
    BY <1>2, <1>6 DEF Struct, KeysOnce
  <2>6. ASSUME NEW i \in Occ(table'), NEW j \in Left'
        PROVE  table'[i].key # old'[j].key
    <3>1. j \in Left /\ j # cursor /\ old' = old
      BY <1>2, <1>6, <2>6
    <3>2. CASE i = p
      BY <1>6, <2>1, <3>1, <3>2 DEF Struct, KeysOnce
    <3>3. CASE i # p
      BY <2>1, <2>4, <2>6, <3>1, <3>3 DEF Struct, KeysOnce
    <3> QED
      BY <3>2, <3>3
  <2>7. KeysOnce'
    BY <1>6, <2>5, <2>6 DEF KeysOnce, Unique, Occ
  <2>8. Reach'
    BY <1>2, <1>6 DEF Reach, Chained, Passes, Home, Occ
  <2> QED
    BY <2>2, <2>3, <2>7, <2>8 DEF Struct
<1> QED
  BY <1>5, <1>6, CopyIs

LEMMA StructCopyDone ==
  ASSUME Struct, CopyDone
  PROVE  Struct' /\ Left = {} /\ Left' = {} /\ table' = table
<1>1. PICK n \in Nat : capacity = n + n /\ old \in Table(n) /\ cursor \in 0 .. n
  BY DEF CopyDone, Struct, Sizes
<1>2. Left = {}
  BY <1>1 DEF CopyDone, Table, Slots, Left
<1>3. Sizes'
  BY DEF CopyDone, Struct, Sizes, config
<1>4. Left' = {}
  BY DEF CopyDone, Left, Cleared, Slots
<1>5. Cardinality(Left) = 0
  BY <1>2, FS_EmptySet
<1>6. count = Cardinality(Occ(table)) /\ count \in Nat
  BY OccFinite DEF Struct, Sizes, Load
<1>7. 4 * (count + 1) <= 3 * capacity
  BY <1>5, <1>6 DEF CopyDone, Struct, Load
<1>8. Load'
  BY <1>7 DEF CopyDone, Struct, Load
<1> QED
  BY <1>2, <1>3, <1>4, <1>8
  DEF CopyDone, Struct, KeysOnce, Reach, Unique, Chained, Passes, Home, Occ, config

\* Changing the value of an entry leaves the structure as it is.
LEMMA Refill ==
  ASSUME hash \in [Key -> Nat], NEW cap \in Nat, NEW t \in Table(cap), NEW p \in Occ(t),
         NEW e \in Entry, e.key = t[p].key
  PROVE  /\ Put(t, p, e) \in Table(cap) /\ Put(t, p, e)[p] = e
         /\ Occ(Put(t, p, e)) = Occ(t)
         /\ \A i \in Slots(cap) : i # p => Put(t, p, e)[i] = t[i]
         /\ Chained(t, cap) => Chained(Put(t, p, e), cap)
         /\ Unique(t) => Unique(Put(t, p, e))
<1> DEFINE u == Put(t, p, e)
<1>1. e # Vacant
  BY KeyAssumption DEF Entry, Vacant
<1>2. p \in Slots(cap) /\ Occ(t) \subseteq Slots(cap)
  BY SlotIs
<1>3. u \in Table(cap) /\ u[p] = e /\ \A i \in Slots(cap) : i # p => u[i] = t[i]
  BY <1>2 DEF Table, Put
<1> HIDE DEF u
<1>4. Occ(u) = Occ(t)
  BY <1>1, <1>2, <1>3, SlotIs DEF Occ
<1>5. \A i \in Occ(t) : u[i].key = t[i].key
  BY <1>2, <1>3
<1>6. \A i \in Slots(cap) : u[i] # Vacant <=> t[i] # Vacant
  BY <1>3, <1>4, SlotIs
<1>7. Chained(t, cap) => Chained(u, cap)
  BY <1>4, <1>5, <1>6 DEF Chained
<1>8. Unique(t) => Unique(u)
  BY <1>4, <1>5 DEF Unique
<1> QED
  BY <1>3, <1>4, <1>7, <1>8 DEF u

\* What a lookup finds in a sound table.
LEMMA Lookup ==
  ASSUME Struct, pc # "shift", NEW k \in Key
  PROVE  /\ \A i \in Occ(table) : table[i].key = k => Find(k) = i
         /\ Find(k) # None => Find(k) \in Occ(table) /\ table[Find(k)].key = k
         /\ Find(k) = None <=> \A i \in Occ(table) : table[i].key # k
<1>1. /\ \A i \in Occ(table) : table[i].key = k => Find(k) = i
      /\ Find(k) # None => Find(k) \in Occ(table) /\ table[Find(k)].key = k
  BY FindIs DEF Struct, Sizes, Reach, KeysOnce
<1>2. \A i \in Occ(table) : i # None
  BY SlotIs, HashAssumption DEF Struct, Sizes, Slots
<1> QED
  BY <1>1, <1>2

\* A set replaces the value of its key, or fills a vacant slot.
LEMMA StoreIs ==
  ASSUME Struct, Store
  PROVE  /\ Chained(table', capacity) /\ Unique(table') /\ table' \in Table(capacity)
         /\ op \in Entry
         /\ \/ \E p \in Occ(table) : /\ table[p].key = op.key /\ table' = Put(table, p, op)
                                     /\ Find(op.key) = p /\ Overwrite(p) /\ count' = count
                                     /\ Occ(table') = Occ(table)
            \/ \E p \in Slots(capacity) : /\ table[p] = Vacant /\ table' = Put(table, p, op)
                                          /\ Find(op.key) = None /\ Add /\ count' = count + 1
                                          /\ \A i \in Occ(table) : table[i].key # op.key
<1>1. /\ op \in Entry /\ op.key \in Key /\ table \in Table(capacity) /\ hash \in [Key -> Nat]
      /\ capacity \in Nat /\ capacity > 0 /\ Chained(table, capacity) /\ Unique(table)
  BY DEF Store, Struct, Sizes, Reach, KeysOnce, Entry
<1>2. /\ Find(op.key) # None => Find(op.key) \in Occ(table) /\ table[Find(op.key)].key = op.key
      /\ Find(op.key) = None => \A i \in Occ(table) : table[i].key # op.key
  BY <1>1, Lookup DEF Store
<1>3. CASE Find(op.key) # None
  <2> DEFINE p == Find(op.key)
  <2>1. Overwrite(p) /\ p \in Occ(table) /\ table[p].key = op.key
    BY <1>2, <1>3 DEF Store
  <2>2. table[p] \in Entry
    BY <1>1, <2>1, SlotIs
  <2> HIDE DEF p
  <2>3. [table[p] EXCEPT !.val = op.val] = op
    BY <1>1, <2>1, <2>2 DEF Entry
  <2>4. table' = [table EXCEPT ![p].val = op.val] /\ count' = count
    BY <2>1 DEF Overwrite
  <2>5. table' = Put(table, p, op)
    BY <2>3, <2>4 DEF Put
  <2>6. Chained(table', capacity) /\ Unique(table') /\ table' \in Table(capacity) /\ Occ(table') = Occ(table)
    BY <1>1, <2>1, <2>5, Refill
  <2> QED
    BY <1>1, <2>1, <2>4, <2>5, <2>6 DEF p
<1>4. CASE Find(op.key) = None
  <2>1. Add /\ table' = Insert(table, op) /\ count' = count + 1
    BY <1>4 DEF Store, Add
  <2>2. Cardinality(Occ(table)) < capacity
    <3>1. count \in Nat /\ count = Cardinality(Occ(table))
      BY OccFinite DEF Struct, Sizes, Load
    <3>2. 4 * (count + 1) <= 3 * capacity
      BY DEF Struct, Load, Store
    <3> QED
      BY <3>1, <3>2, <1>1
  <2>3. /\ Insert(table, op) \in Table(capacity)
        /\ Chained(Insert(table, op), capacity) /\ Unique(Insert(table, op))
        /\ \E p \in Slots(capacity) : table[p] = Vacant /\ Insert(table, op) = Put(table, p, op)
    BY <1>1, <1>2, <1>4, <2>2, InsertKeeps
  <2> QED
    BY <1>1, <1>2, <1>4, <2>1, <2>3
<1> QED
  BY <1>3, <1>4

LEMMA StructStore ==
  ASSUME Struct, Store
  PROVE  Struct'
<1>1. Chained(table', capacity) /\ Unique(table') /\ table' \in Table(capacity)
  BY StoreIs
<1>2. /\ pc = "store" /\ pc' = "idle" /\ op' = NoOp /\ hash' = hash /\ capacity' = capacity
      /\ old' = old /\ cursor' = cursor
  BY DEF Store, config
<1>3. Left = {} /\ Left' = {}
  <2>1. Left = {}
    BY <1>2, NothingLeft DEF Struct
  <2> QED
    BY <2>1, <1>2 DEF Left
<1>4. count = Cardinality(Occ(table)) /\ count \in Nat /\ 4 * (count + 1) <= 3 * capacity
  BY <1>2, OccFinite DEF Struct, Sizes, Load
<1>5. count' = Cardinality(Occ(table')) /\ count' \in Nat /\ count' <= count + 1
  <2>1. CASE \E p \in Occ(table) : count' = count /\ Occ(table') = Occ(table)
    BY <1>4, <2>1
  <2>2. CASE \E p \in Slots(capacity) : table[p] = Vacant /\ table' = Put(table, p, op) /\ count' = count + 1
    <3>1. PICK p \in Slots(capacity) : table[p] = Vacant /\ table' = Put(table, p, op) /\ count' = count + 1
      BY <2>2
    <3>2. Cardinality(Occ(table')) = Cardinality(Occ(table)) + 1
      BY <3>1, StoreIs, Fill DEF Struct, Sizes
    <3> QED
      BY <1>4, <3>1, <3>2
  <2> QED
    BY <2>1, <2>2, StoreIs
<1>6. Sizes'
  BY <1>1, <1>2 DEF Struct, Sizes
<1>7. Load'
  BY <1>2, <1>4, <1>5 DEF Load, Struct, Sizes
<1>8. KeysOnce'
  BY <1>1, <1>3 DEF KeysOnce, Unique, Occ
<1>9. Reach'
  BY <1>1, <1>2 DEF Reach, Chained, Passes, Home, Occ
<1> QED
  BY <1>6, <1>7, <1>8, <1>9 DEF Struct

\* A removal vacates the slot of its key, and moves on from there.
LEMMA StructRemove ==
  ASSUME Struct, NEW k \in Key, Remove(k)
  PROVE  /\ Struct'
         /\ \E p \in Occ(table) : p = Find(k) /\ table[p].key = k /\ table' = Put(table, p, Vacant)
<1> DEFINE p == Find(k)
<1>1. /\ pc = "idle" /\ p # None /\ pc' = "shift" /\ op' = op /\ hash' = hash /\ capacity' = capacity
      /\ old' = old /\ count' = count - 1 /\ cursor' = After(p, capacity)
      /\ table' = Put(table, p, Vacant)
  BY DEF Remove, config, Put, Succ, After
<1>2. p \in Occ(table) /\ table[p].key = k
  BY <1>1, Lookup
<1> HIDE DEF p
<1>3. /\ table \in Table(capacity) /\ capacity \in Nat /\ capacity >= 2 /\ hash \in [Key -> Nat]
      /\ Chained(table, capacity) /\ Unique(table)
  BY <1>1 DEF Struct, Sizes, Reach, KeysOnce
<1>4. /\ table' \in Table(capacity) /\ table'[p] = Vacant /\ p \in Slots(capacity)
      /\ Cardinality(Occ(table)) \in Nat /\ Cardinality(Occ(table')) = Cardinality(Occ(table)) - 1
  BY <1>1, <1>2, <1>3, Vacate
<1>5. Unique(table') /\ ChainedBut(table', p, cursor', capacity)
  BY <1>1, <1>2, <1>3, HoleOpens
<1>6. cursor' \in Slots(capacity)
  BY <1>1, <1>3, <1>4, AfterIn
<1>7. Left = {} /\ Left' = {} /\ old = Cleared(0)
  <2>1. Left = {} /\ old = Cleared(0) /\ DOMAIN old = {}
    BY <1>1, NothingLeft DEF Struct
  <2> QED
    BY <2>1, <1>1 DEF Left
<1>8. Sizes'
  BY <1>1, <1>3, <1>4, <1>6, <1>7 DEF Struct, Sizes
<1>9. Load'
  BY <1>1, <1>3, <1>4 DEF Struct, Load
<1>10. KeysOnce'
  BY <1>5, <1>7 DEF KeysOnce, Unique, Occ
<1>11. Reach'
  BY <1>1, <1>4, <1>5 DEF Reach, ChainedBut, Behind, Passes, Home, Occ
<1> QED
  BY <1>1, <1>2, <1>8, <1>9, <1>10, <1>11 DEF Struct, p

\* A turn of a removal's loop leaves the entry at the cursor in its slot, or puts
\* it into the hole.
LEMMA ShiftIs ==
  ASSUME Struct, Shift
  PROVE  /\ cursor \in Occ(table)
         /\ \/ table' = table
            \/ \E g \in Slots(capacity) : /\ table[g] = Vacant
                                          /\ table' = Put(Put(table, cursor, Vacant), g, table[cursor])
         /\ \E g \in Slots(capacity) : /\ table'[g] = Vacant
                                       /\ ChainedBut(table', g, cursor', capacity)
<1>1. /\ pc = "shift" /\ cursor \in Slots(capacity) /\ table[cursor] # Vacant
      /\ table' = Insert([table EXCEPT ![cursor] = Vacant], table[cursor])
      /\ table \in Table(capacity) /\ capacity \in Nat /\ capacity >= 2 /\ hash \in [Key -> Nat]
      /\ Unique(table) /\ cursor' = After(cursor, capacity)
  BY DEF Shift, Struct, Sizes, KeysOnce, Succ, After
<1>2. PICK g \in Slots(capacity) : table[g] = Vacant /\ ChainedBut(table, g, cursor, capacity)
  BY <1>1 DEF Struct, Reach
<1>3. cursor \in Occ(table)
  BY <1>1, SlotIs
<1>4. table' = Insert(Put(table, cursor, Vacant), table[cursor])
  BY <1>1 DEF Put
<1>5. \/ table' = table /\ ChainedBut(table', g, cursor', capacity)
      \/ /\ table' = Put(Put(table, cursor, Vacant), g, table[cursor])
         /\ ChainedBut(table', cursor, cursor', capacity)
         /\ table'[cursor] = Vacant
  BY <1>1, <1>2, <1>3, <1>4, HoleMoves
<1> QED
  BY <1>1, <1>2, <1>3, <1>5

\* Moving an entry to a vacant slot changes only its place.
LEMMA Move ==
  ASSUME NEW cap \in Nat, NEW t \in Table(cap), NEW c \in Occ(t), NEW g \in Slots(cap), t[g] = Vacant
  PROVE  LET u == Put(Put(t, c, Vacant), g, t[c])
         IN  /\ u \in Table(cap)
             /\ Occ(u) = (Occ(t) \ {c}) \cup {g} /\ u[g] = t[c]
             /\ \A i \in Occ(t) \ {c} : i # g /\ u[i] = t[i]
             /\ Cardinality(Occ(u)) = Cardinality(Occ(t))
             /\ Unique(t) => Unique(u)
<1> DEFINE v == Put(t, c, Vacant)
           e == t[c]
           u == Put(v, g, e)
<1>1. e \in Entry /\ c # g /\ Occ(t) \subseteq Slots(cap)
  BY SlotIs
<1>2. /\ v \in Table(cap) /\ Occ(v) = Occ(t) \ {c}
      /\ \A i \in Slots(cap) : i # c => v[i] = t[i]
      /\ Cardinality(Occ(t)) \in Nat /\ Cardinality(Occ(v)) = Cardinality(Occ(t)) - 1
  BY Vacate
<1> HIDE DEF v, e
<1>3. v \in Table(cap) /\ v[g] = Vacant /\ e \in Entry
  BY <1>1, <1>2
<1>4. /\ u \in Table(cap) /\ u[g] = e /\ Occ(u) = Occ(v) \cup {g} /\ g \notin Occ(v)
      /\ \A i \in Slots(cap) : i # g => u[i] = v[i]
      /\ Cardinality(Occ(u)) = Cardinality(Occ(v)) + 1
  BY <1>3, Fill
<1> HIDE DEF u
<1>5. \A i \in Occ(t) \ {c} : i # g /\ u[i] = t[i]
  BY <1>1, <1>2, <1>4
<1>6. Cardinality(Occ(u)) = Cardinality(Occ(t))
  BY <1>2, <1>4
<1>7. Unique(t) => Unique(u)
  BY <1>2, <1>4, <1>5 DEF Unique, e
<1> QED
  BY <1>2, <1>4, <1>5, <1>6, <1>7 DEF u, v, e

LEMMA StructShift ==
  ASSUME Struct, Shift
  PROVE  Struct'
<1>1. /\ pc = "shift" /\ pc' = pc /\ op' = op /\ hash' = hash /\ capacity' = capacity
      /\ old' = old /\ count' = count /\ cursor' = After(cursor, capacity)
      /\ cursor \in Slots(capacity) /\ capacity \in Nat
  BY DEF Shift, config, Succ, After, Struct, Sizes
<1>2. Left = {} /\ Left' = {} /\ old = Cleared(0)
  <2>1. Left = {} /\ old = Cleared(0) /\ DOMAIN old = {}
    BY <1>1, NothingLeft DEF Struct
  <2> QED
    BY <2>1, <1>1 DEF Left
<1>3. /\ table' \in Table(capacity) /\ Unique(table')
      /\ Cardinality(Occ(table')) = Cardinality(Occ(table))
  <2>1. table \in Table(capacity) /\ Unique(table)
    BY DEF Struct, Sizes, KeysOnce
  <2>2. CASE table' = table
    BY <2>1, <2>2
  <2>3. CASE \E g \in Slots(capacity) :
               table[g] = Vacant /\ table' = Put(Put(table, cursor, Vacant), g, table[cursor])
    BY <1>1, <2>1, <2>3, ShiftIs, Move
  <2> QED
    BY <2>2, <2>3, ShiftIs
<1>4. cursor' \in Slots(capacity)
  BY <1>1, AfterIn
<1>5. Sizes'
  BY <1>1, <1>2, <1>3, <1>4 DEF Struct, Sizes
<1>6. Load'
  BY <1>1, <1>3 DEF Struct, Load
<1>7. KeysOnce'
  BY <1>2, <1>3 DEF KeysOnce, Unique, Occ
<1>8. Reach'
  BY <1>1, ShiftIs DEF Reach, ChainedBut, Behind, Passes, Home, Occ
<1> QED
  BY <1>5, <1>6, <1>7, <1>8 DEF Struct

LEMMA StructShiftDone ==
  ASSUME Struct, ShiftDone
  PROVE  Struct' /\ Left = {} /\ Left' = {}
<1>1. /\ pc = "shift" /\ pc' = "idle" /\ op' = op /\ hash' = hash /\ capacity' = capacity
      /\ old' = old /\ count' = count /\ table' = table /\ cursor' = 0
      /\ cursor \in Slots(capacity) /\ table[cursor] = Vacant
  BY DEF ShiftDone, config, Struct, Sizes
<1>2. Left = {} /\ Left' = {} /\ old = Cleared(0)
  <2>1. Left = {} /\ old = Cleared(0) /\ DOMAIN old = {}
    BY <1>1, NothingLeft DEF Struct
  <2> QED
    BY <2>1, <1>1 DEF Left
<1>3. PICK g \in Slots(capacity) : table[g] = Vacant /\ ChainedBut(table, g, cursor, capacity)
  BY <1>1 DEF Struct, Reach
<1>4. Chained(table, capacity)
  BY <1>1, <1>3, HoleCloses DEF Struct, Sizes
<1>5. Sizes'
  BY <1>1, <1>2 DEF Struct, Sizes
<1>6. Load'
  BY <1>1 DEF Struct, Load
<1>7. KeysOnce'
  BY <1>1, <1>2 DEF Struct, KeysOnce, Unique, Occ
<1>8. Reach'
  BY <1>1, <1>4 DEF Reach, Chained, Passes, Home, Occ
<1> QED
  BY <1>2, <1>5, <1>6, <1>7, <1>8 DEF Struct

LEMMA StructRelease ==
  ASSUME Struct, ReleaseMap
  PROVE  Struct'
<1>1. pc = "idle" /\ hash' = hash /\ capacity' = capacity /\ old' = old /\ cursor' = cursor /\ op' = op
  BY DEF ReleaseMap, config
<1>2. CASE handles # 1
  BY <1>1, <1>2, StructSame DEF ReleaseMap, storage, config
<1>3. CASE handles = 1
  <2>1. table' = Cleared(capacity) /\ count' = 0 /\ pc' = "freed"
    BY <1>3 DEF ReleaseMap
  <2>2. table' \in Table(capacity) /\ Occ(table') = {} /\ capacity \in Nat /\ capacity >= 2
    BY <2>1, ClearedIs DEF Struct, Sizes
  <2>3. Left = {} /\ Left' = {} /\ old = Cleared(0)
    <3>1. Left = {} /\ old = Cleared(0) /\ DOMAIN old = {}
      BY <1>1, NothingLeft DEF Struct
    <3> QED
      BY <3>1, <1>1 DEF Left
  <2>4. Sizes'
    BY <1>1, <2>1, <2>2, <2>3 DEF Struct, Sizes
  <2>5. Load'
    BY <1>1, <2>1, <2>2, FS_EmptySet DEF Load
  <2>6. KeysOnce'
    BY <2>2, <2>3 DEF KeysOnce, Unique
  <2>7. Reach'
    BY <2>1, <2>2 DEF Reach, Chained
  <2> QED
    BY <2>4, <2>5, <2>6, <2>7 DEF Struct
<1> QED
  BY <1>2, <1>3

LEMMA StructNext ==
  ASSUME Struct, [Next]_vars
  PROVE  Struct'
<1>1. CASE UNCHANGED vars
  BY <1>1, StructSame DEF vars, config, storage
<1>2. CASE CopyEntry
  BY <1>2, StructCopy
<1>3. CASE CopyDone
  BY <1>3, StructCopyDone
<1>4. CASE Store
  BY <1>4, StructStore
<1>5. CASE Shift
  BY <1>5, StructShift
<1>6. CASE ShiftDone
  BY <1>6, StructShiftDone
<1>7. CASE RetainMap
  BY <1>7, StructSame DEF RetainMap
<1>8. CASE ReleaseMap
  BY <1>8, StructRelease
<1>9. CASE Program
  BY <1>9, StructSame DEF Program, RequestBegins, RequestEnds, NewValue, DropValue, rest
<1>10. ASSUME NEW k \in Key, Remove(k)
       PROVE  Struct'
  BY <1>10, StructRemove
<1>11. ASSUME NEW k \in Key, Get(k)
       PROVE  Struct'
  BY <1>11, StructSame DEF Get
<1>12. ASSUME NEW k \in Key, NEW v \in Val, Set(k, v)
       PROVE  Struct'
  BY <1>12, StructSet
<1> QED
  BY <1>1, <1>2, <1>3, <1>4, <1>5, <1>6, <1>7, <1>8, <1>9, <1>10, <1>11, <1>12 DEF Next, Internal

-----------------------------------------------------------------------------
(* Every lookup is right *)

\* An entry is what its key is bound to.
LEMMA ContentIs ==
  ASSUME Struct, NEW k \in Key
  PROVE  /\ \A e \in Entries : e \in Entry
         /\ \A e \in Entries : e.key = k => Content[k] = e.val
         /\ Content[k] = None <=> \A e \in Entries : e.key # k
<1>1. Entries = {table[i] : i \in Occ(table)} \cup {old[j] : j \in Left}
  BY DEF Entries, Occ, Left
<1>2. \A i \in Occ(table) : table[i] \in Entry
  BY SlotIs DEF Struct, Sizes
<1>3. \A j \in Left : old[j] \in Entry
  <2>1. CASE pc = "copy"
    <3>1. PICK n \in Nat : old \in Table(n)
      BY <2>1 DEF Struct, Sizes
    <3> QED
      BY <3>1 DEF Left, Table
  <2>2. CASE pc # "copy"
    BY <2>2, NothingLeft DEF Struct
  <2> QED
    BY <2>1, <2>2
<1>4. \A e \in Entries : e \in Entry
  BY <1>1, <1>2, <1>3
<1>5. ASSUME NEW e \in Entries, NEW f \in Entries, e.key = f.key
      PROVE  e = f
  BY <1>1, <1>5 DEF Struct, KeysOnce, Unique
<1>6. ASSUME NEW e \in Entries, e.key = k
      PROVE  Content[k] = e.val /\ e.val # None
  <2>1. (CHOOSE f \in Entries : f.key = k) = e
    BY <1>5, <1>6
  <2>2. e.val # None
    BY <1>4, ValAssumption DEF Entry
  <2> QED
    BY <1>6, <2>1, <2>2 DEF Content
<1>7. (\A e \in Entries : e.key # k) => Content[k] = None
  BY DEF Content
<1> QED
  BY <1>4, <1>6, <1>7

LEMMA LookupsRight ==
  ASSUME Struct
  PROVE  LookupsAgree
<1>1. count = Cardinality(Occ(table)) /\ 4 * count <= 3 * capacity
  BY DEF Struct, Load
<1>2. ASSUME pc = "idle"
      PROVE  /\ count = Cardinality({k \in Key : Content[k] # None})
             /\ \A k \in Key :
                  /\ Content[k] # None <=> Find(k) # None
                  /\ \A i, j \in DOMAIN table : table[i].key = k /\ table[j].key = k => i = j
  <2>1. Left = {}
    BY <1>2, NothingLeft DEF Struct
  <2>2. Entries = {table[i] : i \in Occ(table)}
    BY <2>1 DEF Entries, Occ, Left
  <2>3. \A k \in Key : Content[k] # None <=> Find(k) # None
    BY <1>2, <2>2, ContentIs, Lookup
  <2>4. ASSUME NEW k \in Key, NEW i \in DOMAIN table, NEW j \in DOMAIN table,
               table[i].key = k, table[j].key = k
        PROVE  i = j
    <3>1. i \in Occ(table) /\ j \in Occ(table)
      BY <2>4, KeyAssumption DEF Occ, Vacant
    <3> QED
      BY <3>1, <2>4 DEF Struct, KeysOnce, Unique
  <2>5. count = Cardinality({k \in Key : Content[k] # None})
    <3> DEFINE K == {k \in Key : Content[k] # None}
               f == [i \in Occ(table) |-> table[i].key]
    <3>1. \A i \in Occ(table) : table[i].key \in Key /\ table[i] \in Entries
      BY <2>2, SlotIs DEF Struct, Sizes
    <3>2. \A k \in Key : Content[k] # None <=> \E i \in Occ(table) : table[i].key = k
      BY <2>2, ContentIs
    <3>3. f \in [Occ(table) -> K]
      BY <3>1, <3>2
    <3>4. \A i, j \in Occ(table) : f[i] = f[j] => i = j
      BY DEF Struct, KeysOnce, Unique
    <3>5. \A k \in K : \E i \in Occ(table) : f[i] = k
      BY <3>2
    <3> HIDE DEF f, K
    <3>6. DOMAIN f = Occ(table)
      BY <3>3
    <3>7. f \in Injection(Occ(table), K) /\ f \in Surjection(Occ(table), K)
      BY <3>3, <3>4, <3>5, <3>6 DEF Injection, Surjection, IsInjective
    <3>8. ExistsBijection(Occ(table), K)
      BY <3>7 DEF ExistsBijection, Bijection
    <3>9. IsFiniteSet(Occ(table))
      BY OccFinite DEF Struct, Sizes
    <3> QED
      BY <1>1, <3>8, <3>9, FS_Bijection DEF K
  <2> QED
    BY <2>3, <2>4, <2>5
<1> QED
  BY <1>1, <1>2 DEF LookupsAgree, Occ

\* Between two calls a probe finds every key that is there, once, and no key that is
\* not, and the count is the number of keys; at no moment is more than three quarters
\* of the table in use, so every probe for a vacant slot ends (turbo_rt.c, hashmap_gfind,
\* hashmap_gresize, rt_hashmap_gset and rt_hashmap_gremove).
THEOREM LookupsAlwaysAgree == Spec => []LookupsAgree
<1>1. Init => Struct
  BY StructInit
<1>2. Struct /\ [Next]_vars => Struct'
  BY StructNext
<1>3. Struct => LookupsAgree
  BY LookupsRight
<1> QED
  BY <1>1, <1>2, <1>3, PTL DEF Spec

-----------------------------------------------------------------------------
(* Types *)

Values == [Val -> [home : {"free", "heap", "arena"}, rc : Nat]]

RestTypes ==
  /\ hash \in Hashes /\ persistent \in BOOLEAN /\ arena \in BOOLEAN
  /\ handles \in 0 .. MaxHandles /\ (pc # "freed" => handles > 0)
  /\ value \in Values
  /\ mine \in [Val -> 0 .. MaxRefs] /\ boxed \in [Val -> 0 .. MaxRefs]

\* Retaining and releasing keep the types of the values.
LEMMA RetainTypes ==
  ASSUME value \in Values, NEW v \in Val
  PROVE  Retained(v) \in Values
<1>1. [value EXCEPT ![v].rc = @ + 1] \in Values
  BY DEF Values
<1> QED
  BY <1>1 DEF Retained

LEMMA ReleaseTypes ==
  ASSUME NEW vs \in Values, NEW n \in [Val -> Nat]
  PROVE  ReleaseTimes(vs, n) \in Values
<1> SUFFICES ASSUME NEW v \in Val
             PROVE  ReleaseTimes(vs, n)[v] \in [home : {"free", "heap", "arena"}, rc : Nat]
  BY DEF ReleaseTimes, Values
<1>1. vs[v] \in [home : {"free", "heap", "arena"}, rc : Nat] /\ n[v] \in Nat
  BY DEF Values
<1>2. ReleaseTimes(vs, n)[v] = IF vs[v].home # "heap" \/ n[v] = 0 THEN vs[v]
                               ELSE IF vs[v].rc > n[v] THEN [vs[v] EXCEPT !.rc = @ - n[v]] ELSE Freed
  BY DEF ReleaseTimes
<1>3. vs[v].rc > n[v] => [vs[v] EXCEPT !.rc = @ - n[v]] \in [home : {"free", "heap", "arena"}, rc : Nat]
  BY <1>1
<1>4. Freed \in [home : {"free", "heap", "arena"}, rc : Nat]
  BY DEF Freed
<1> QED
  BY <1>1, <1>2, <1>3, <1>4

LEMMA ReleasedTypes ==
  ASSUME NEW vs \in Values, NEW v \in Val
  PROVE  Released(vs, v) \in Values
<1>1. [w \in Val |-> IF w = v THEN 1 ELSE 0] \in [Val -> Nat]
  OBVIOUS
<1> QED
  BY <1>1, ReleaseTypes DEF Released

\* The slots that hold a value.
At(t, v) == {i \in DOMAIN t : t[i].val = v}

LEMMA AtFinite ==
  ASSUME NEW cap \in Nat, NEW t \in Table(cap), NEW v
  PROVE  IsFiniteSet(At(t, v)) /\ Cardinality(At(t, v)) \in Nat
BY SlotIs, SlotsIs, FS_Subset, FS_CardinalityType DEF At

LEMMA RestInit ==
  ASSUME Init
  PROVE  RestTypes
BY BoundAssumption DEF Init, RestTypes, Values, Freed

LEMMA RestNext ==
  ASSUME Struct, RestTypes, [Next]_vars
  PROVE  RestTypes'
<1> USE DEF RestTypes
<1>1. CASE UNCHANGED vars
  BY <1>1 DEF vars
<1>2. CASE CopyEntry
  BY <1>2 DEF CopyEntry, config, program
<1>3. CASE CopyDone
  BY <1>3 DEF CopyDone, config, program
<1>4. CASE Store
  <2>1. op \in Entry /\ op.val \in Val
    BY <1>4, StoreIs DEF Entry
  <2>2. Retained(op.val) \in Values
    BY <2>1, RetainTypes
  <2>3. value' \in Values
    <3>1. CASE \E p \in Occ(table) : Overwrite(p)
      <4>1. PICK p \in Occ(table) : value' = Released(Retained(op.val), table[p].val)
        BY <3>1 DEF Overwrite
      <4>2. table[p].val \in Val
        BY SlotIs DEF Struct, Sizes
      <4> QED
        BY <2>2, <4>1, <4>2, ReleasedTypes
    <3>2. CASE Add
      BY <2>2, <3>2 DEF Add
    <3> QED
      BY <1>4, <3>1, <3>2, StoreIs
  <2> QED
    BY <1>4, <2>3 DEF Store, config, program
<1>5. CASE Shift
  BY <1>5 DEF Shift, config, program
<1>6. CASE ShiftDone
  BY <1>6 DEF ShiftDone, config, program
<1>7. CASE RetainMap
  BY <1>7, BoundAssumption DEF RetainMap, config
<1>8. CASE ReleaseMap
  <2> DEFINE n == [v \in Val |-> Cardinality({i \in DOMAIN table : table[i].val = v})]
  <2>1. n \in [Val -> Nat]
    BY AtFinite DEF At, Struct, Sizes
  <2>2. ReleaseTimes(value, n) \in Values
    BY <2>1, ReleaseTypes
  <2>3. value' \in Values
    BY <1>8, <2>2 DEF ReleaseMap
  <2>4. handles' \in 0 .. MaxHandles /\ (pc' # "freed" => handles' > 0)
    BY <1>8, BoundAssumption DEF ReleaseMap
  <2> QED
    BY <1>8, <2>3, <2>4 DEF ReleaseMap, config
<1>9. CASE Program
  <2>1. CASE RequestBegins
    BY <2>1 DEF RequestBegins, rest, config
  <2>2. CASE RequestEnds
    <3>1. value' \in Values
      BY <2>2 DEF RequestEnds, Values, Freed
    <3>2. mine' \in [Val -> 0 .. MaxRefs] /\ boxed' \in [Val -> 0 .. MaxRefs]
      BY <2>2, BoundAssumption DEF RequestEnds
    <3> QED
      BY <2>2, <3>1, <3>2 DEF RequestEnds, rest, config
  <2>3. ASSUME NEW v \in Val, NewValue(v)
        PROVE  RestTypes'
    <3>1. value' \in Values
      BY <2>3 DEF NewValue, Values
    <3>2. mine' \in [Val -> 0 .. MaxRefs]
      BY <2>3, BoundAssumption DEF NewValue
    <3> QED
      BY <2>3, <3>1, <3>2 DEF NewValue, rest, config
  <2>4. ASSUME NEW v \in Val, DropValue(v)
        PROVE  RestTypes'
    <3>1. value' \in Values
      BY <2>4, ReleasedTypes DEF DropValue
    <3>2. mine' \in [Val -> 0 .. MaxRefs]
      BY <2>4, BoundAssumption DEF DropValue
    <3> QED
      BY <2>4, <3>1, <3>2 DEF DropValue, rest, config
  <2> QED
    BY <1>9, <2>1, <2>2, <2>3, <2>4 DEF Program
<1>10. ASSUME NEW k \in Key, Remove(k)
       PROVE  RestTypes'
  <2>1. Find(k) \in Occ(table) /\ value' = Released(value, table[Find(k)].val)
    BY <1>10, StructRemove DEF Remove
  <2>2. table[Find(k)].val \in Val
    BY <2>1, SlotIs DEF Struct, Sizes
  <2>3. value' \in Values
    BY <2>1, <2>2, ReleasedTypes
  <2> QED
    BY <1>10, <2>3 DEF Remove, config, program
<1>11. ASSUME NEW k \in Key, Get(k)
       PROVE  RestTypes'
  <2> DEFINE v == table[Find(k)].val
  <2>1. Find(k) \in Occ(table)
    BY <1>11, Lookup DEF Get
  <2>2. v \in Val
    BY <2>1, SlotIs DEF Struct, Sizes
  <2> HIDE DEF v
  <2>3. /\ mine[v] + boxed[v] < MaxRefs /\ value' = Retained(v)
        /\ \/ mine' = [mine EXCEPT ![v] = @ + 1] /\ boxed' = boxed
           \/ boxed' = [boxed EXCEPT ![v] = @ + 1] /\ mine' = mine
    BY <1>11 DEF Get, v
  <2>4. value' \in Values
    BY <2>2, <2>3, RetainTypes
  <2>5. mine' \in [Val -> 0 .. MaxRefs] /\ boxed' \in [Val -> 0 .. MaxRefs]
    BY <2>2, <2>3, BoundAssumption
  <2> QED
    BY <1>11, <2>4, <2>5 DEF Get, config
<1>12. ASSUME NEW k \in Key, NEW v \in Val, Set(k, v)
       PROVE  RestTypes'
  BY <1>12 DEF Set, config, program
<1> QED
  BY <1>1, <1>2, <1>3, <1>4, <1>5, <1>6, <1>7, <1>8, <1>9, <1>10, <1>11, <1>12 DEF Next, Internal

\* Every state has the declared types; the cursor of a removal stays in the table, which
\* is what the wrap in rt_hashmap_gremove is for.
THEOREM TypeCorrect == Spec => []TypeOK
<1>1. Init => Struct /\ RestTypes
  BY StructInit, RestInit
<1>2. Struct /\ RestTypes /\ [Next]_vars => (Struct /\ RestTypes)'
  BY StructNext, RestNext
<1>3. ASSUME Struct, RestTypes
      PROVE  TypeOK
  <2>1. count \in 0 .. capacity /\ capacity \in Nat /\ capacity > 0
    BY <1>3, OccFinite DEF Struct, Sizes, Load
  <2>2. old \in [Slots(0) \cup DOMAIN old -> {Vacant} \cup [key : Key, val : Val]] /\ cursor \in Nat
    <3>1. CASE pc = "copy"
      BY <1>3, <3>1 DEF Struct, Sizes, Table, Entry, Slots
    <3>2. CASE pc # "copy"
      BY <1>3, <3>2 DEF Struct, Sizes, Cleared, Slots
    <3> QED
      BY <3>1, <3>2
  <2>3. op \in {NoOp} \cup [key : Key, val : Val] /\ (op = NoOp <=> pc \notin {"copy", "store"})
    BY <1>3, KeyAssumption DEF Struct, Sizes, Entry, NoOp, Vacant
  <2> QED
    BY <1>3, <2>1, <2>2, <2>3 DEF TypeOK, Struct, Sizes, RestTypes, Table, Entry, Values
<1> QED
  BY <1>1, <1>2, <1>3, PTL DEF Spec

-----------------------------------------------------------------------------
(* How many entries hold a value *)

LEMMA AtFill ==
  ASSUME NEW cap \in Nat, NEW t \in Table(cap), NEW e \in Entry, NEW p \in Slots(cap), t[p] = Vacant,
         NEW v \in Val
  PROVE  Cardinality(At(Put(t, p, e), v)) = Cardinality(At(t, v)) + (IF e.val = v THEN 1 ELSE 0)
<1> DEFINE u == Put(t, p, e)
<1>1. u \in Table(cap) /\ u[p] = e /\ \A i \in Slots(cap) : i # p => u[i] = t[i]
  BY Fill
<1>2. DOMAIN u = Slots(cap) /\ DOMAIN t = Slots(cap) /\ t[p].val # v
  BY <1>1, ValAssumption DEF Table, Vacant
<1> HIDE DEF u
<1>3. p \notin At(t, v)
  BY <1>2 DEF At
<1>4. IsFiniteSet(At(t, v)) /\ Cardinality(At(t, v)) \in Nat
  BY AtFinite
<1>5. CASE e.val = v
  <2>1. At(u, v) = At(t, v) \cup {p}
    BY <1>1, <1>2, <1>5 DEF At
  <2> QED
    BY <1>3, <1>4, <1>5, <2>1, FS_AddElement DEF u
<1>6. CASE e.val # v
  <2>1. At(u, v) = At(t, v)
    BY <1>1, <1>2, <1>6 DEF At
  <2> QED
    BY <1>4, <1>6, <2>1 DEF u
<1> QED
  BY <1>5, <1>6

LEMMA AtVacate ==
  ASSUME NEW cap \in Nat, NEW t \in Table(cap), NEW p \in Occ(t), NEW v \in Val
  PROVE  Cardinality(At(Put(t, p, Vacant), v)) = Cardinality(At(t, v)) - (IF t[p].val = v THEN 1 ELSE 0)
<1> DEFINE u == Put(t, p, Vacant)
<1>1. u \in Table(cap) /\ u[p] = Vacant /\ p \in Slots(cap) /\ \A i \in Slots(cap) : i # p => u[i] = t[i]
  BY Vacate
<1>2. DOMAIN u = Slots(cap) /\ DOMAIN t = Slots(cap) /\ u[p].val # v
  BY <1>1, ValAssumption DEF Table, Vacant
<1> HIDE DEF u
<1>3. At(u, v) = At(t, v) \ {p}
  BY <1>1, <1>2 DEF At
<1>4. IsFiniteSet(At(t, v)) /\ Cardinality(At(t, v)) \in Nat
  BY AtFinite
<1>5. p \in At(t, v) <=> t[p].val = v
  BY <1>1, <1>2 DEF At
<1>6. Cardinality(At(t, v) \ {p}) = IF p \in At(t, v) THEN Cardinality(At(t, v)) - 1 ELSE Cardinality(At(t, v))
  BY <1>4, FS_RemoveElement
<1> QED
  BY <1>3, <1>4, <1>5, <1>6 DEF u

LEMMA AtMove ==
  ASSUME NEW cap \in Nat, NEW t \in Table(cap), NEW c \in Occ(t), NEW g \in Slots(cap), t[g] = Vacant,
         NEW v \in Val
  PROVE  Cardinality(At(Put(Put(t, c, Vacant), g, t[c]), v)) = Cardinality(At(t, v))
<1> DEFINE w == Put(t, c, Vacant)
           e == t[c]
<1>1. e \in Entry /\ c # g
  BY SlotIs
<1>2. w \in Table(cap) /\ \A i \in Slots(cap) : i # c => w[i] = t[i]
  BY Vacate
<1>3. Cardinality(At(w, v)) = Cardinality(At(t, v)) - (IF e.val = v THEN 1 ELSE 0)
  BY AtVacate
<1> HIDE DEF w, e
<1>4. w \in Table(cap) /\ w[g] = Vacant /\ e \in Entry
  BY <1>1, <1>2
<1>5. Cardinality(At(Put(w, g, e), v)) = Cardinality(At(w, v)) + (IF e.val = v THEN 1 ELSE 0)
  BY <1>4, AtFill
<1>6. Cardinality(At(t, v)) \in Nat
  BY AtFinite
<1>7. Cardinality(At(Put(w, g, e), v)) = Cardinality(At(t, v))
  BY <1>3, <1>5, <1>6
<1> QED
  BY <1>7 DEF w, e

LEMMA AtRefill ==
  ASSUME NEW cap \in Nat, NEW t \in Table(cap), NEW p \in Occ(t), NEW e \in Entry, NEW v \in Val
  PROVE  Cardinality(At(Put(t, p, e), v))
           = Cardinality(At(t, v)) - (IF t[p].val = v THEN 1 ELSE 0) + (IF e.val = v THEN 1 ELSE 0)
<1> DEFINE w == Put(t, p, Vacant)
<1>1. w \in Table(cap) /\ w[p] = Vacant /\ p \in Slots(cap)
  BY Vacate
<1>2. Cardinality(At(w, v)) = Cardinality(At(t, v)) - (IF t[p].val = v THEN 1 ELSE 0)
  BY AtVacate
<1>3. Put(w, p, e) = Put(t, p, e)
  BY <1>1 DEF Put, Table
<1> HIDE DEF w
<1>4. Cardinality(At(Put(w, p, e), v)) = Cardinality(At(w, v)) + (IF e.val = v THEN 1 ELSE 0)
  BY <1>1, AtFill
<1> QED
  BY <1>2, <1>3, <1>4

\* The entries of the old table that hold a value and are still to be copied.
LeftAt(v) == {j \in Left : old[j].val = v}

LEMMA EntriesSum ==
  ASSUME NEW v \in Val
  PROVE  /\ EntriesOf(v) = Cardinality(At(table, v)) + Cardinality(LeftAt(v))
         /\ EntriesOf(v)' = Cardinality(At(table', v)) + Cardinality(LeftAt(v)')
<1>1. {i \in DOMAIN old : i >= cursor /\ old[i].val = v} = LeftAt(v)
  BY ValAssumption DEF LeftAt, Left, Vacant
<1>2. {i \in DOMAIN old : i >= cursor /\ old[i].val = v}' = LeftAt(v)'
  BY ValAssumption DEF LeftAt, Left, Vacant
<1> QED
  BY <1>1, <1>2 DEF EntriesOf, At

\* While nothing is copied, and the old table stays as it is, only the table counts.
LEMMA EntriesInTable ==
  ASSUME Struct, pc # "copy", old' = old, NEW v \in Val
  PROVE  /\ EntriesOf(v) = Cardinality(At(table, v)) /\ Cardinality(At(table, v)) \in Nat
         /\ Cardinality(At(table', v)) \in Nat => EntriesOf(v)' = Cardinality(At(table', v))
<1>1. DOMAIN old = {}
  BY NothingLeft DEF Struct
<1>2. LeftAt(v) = {} /\ LeftAt(v)' = {}
  BY <1>1 DEF LeftAt, Left
<1>3. Cardinality(LeftAt(v)) = 0 /\ Cardinality(LeftAt(v)') = 0
  BY <1>2, FS_EmptySet
<1>4. Cardinality(At(table, v)) \in Nat
  BY AtFinite DEF Struct, Sizes
<1> QED
  BY <1>3, <1>4, EntriesSum

LEMMA EntriesOfIs ==
  ASSUME Struct, NEW v \in Val
  PROVE  /\ EntriesOf(v) = Cardinality(At(table, v)) + Cardinality(LeftAt(v))
         /\ IsFiniteSet(LeftAt(v)) /\ Cardinality(LeftAt(v)) \in Nat
         /\ Cardinality(At(table, v)) \in Nat /\ EntriesOf(v) \in Nat
         /\ pc # "copy" => EntriesOf(v) = Cardinality(At(table, v))
<1>1. IsFiniteSet(Left)
  <2>1. CASE pc = "copy"
    <3>1. PICK n \in Nat : old \in Table(n)
      BY <2>1 DEF Struct, Sizes
    <3> QED
      BY <3>1, SlotsIs, FS_Subset DEF Left, Table
  <2>2. CASE pc # "copy"
    BY <2>2, NothingLeft, FS_EmptySet DEF Struct
  <2> QED
    BY <2>1, <2>2
<1>2. IsFiniteSet(LeftAt(v)) /\ Cardinality(LeftAt(v)) \in Nat
  BY <1>1, FS_Subset, FS_CardinalityType DEF LeftAt
<1>3. Cardinality(At(table, v)) \in Nat
  BY AtFinite DEF Struct, Sizes
<1>4. EntriesOf(v) = Cardinality(At(table, v)) + Cardinality(LeftAt(v))
  BY EntriesSum
<1>5. pc # "copy" => Cardinality(LeftAt(v)) = 0
  BY NothingLeft, FS_EmptySet DEF Struct, LeftAt
<1> QED
  BY <1>2, <1>3, <1>4, <1>5

\* An entry holds a value: it counts.
LEMMA HeldCounts ==
  ASSUME Struct, NEW p \in Occ(table)
  PROVE  table[p].val \in Val /\ EntriesOf(table[p].val) >= 1
<1> DEFINE v == table[p].val
<1>1. v \in Val /\ table \in Table(capacity) /\ capacity \in Nat
  BY SlotIs DEF Struct, Sizes
<1>2. p \in At(table, v)
  BY <1>1, SlotIs DEF At
<1>3. Cardinality(At(table, v)) # 0
  BY <1>1, <1>2, AtFinite, FS_EmptySet
<1> QED
  BY <1>1, <1>3, EntriesOfIs

\* Growing and moving change where entries are, not how many hold a value.
LEMMA EntriesKept ==
  ASSUME Struct, NEW v \in Val,
         \/ UNCHANGED <<table, old, cursor>>
         \/ CopyEntry \/ CopyDone \/ Shift \/ ShiftDone
         \/ \E k \in Key, w \in Val : Set(k, w)
  PROVE  EntriesOf(v)' = EntriesOf(v)
<1>1. CASE UNCHANGED <<table, old, cursor>>
  BY <1>1 DEF EntriesOf
<1>2. CASE CopyEntry
  <2>1. Struct' /\ old' = old /\ pc = "copy" /\ table \in Table(capacity) /\ capacity \in Nat
    BY <1>2, StructCopy DEF CopyEntry, Struct, Sizes
  <2>2. /\ EntriesOf(v) = Cardinality(At(table, v)) + Cardinality(LeftAt(v))
        /\ IsFiniteSet(LeftAt(v)) /\ Cardinality(LeftAt(v)) \in Nat /\ Cardinality(At(table, v)) \in Nat
    BY EntriesOfIs
  <2>3. EntriesOf(v)' = Cardinality(At(table', v)) + Cardinality(LeftAt(v)')
    BY EntriesSum
  <2>4. CASE Left' = Left /\ table' = table
    BY <2>1, <2>2, <2>3, <2>4 DEF LeftAt
  <2>5. ASSUME cursor \in Left, old[cursor] \in Entry, Left' = Left \ {cursor},
               NEW p \in Slots(capacity), table[p] = Vacant, table' = Put(table, p, old[cursor])
        PROVE  EntriesOf(v)' = EntriesOf(v)
    <3>1. Cardinality(At(table', v)) = Cardinality(At(table, v)) + (IF old[cursor].val = v THEN 1 ELSE 0)
      BY <2>1, <2>5, AtFill
    <3>2. LeftAt(v)' = LeftAt(v) \ {cursor} /\ (cursor \in LeftAt(v) <=> old[cursor].val = v)
      BY <2>1, <2>5 DEF LeftAt
    <3>3. Cardinality(LeftAt(v) \ {cursor})
            = IF cursor \in LeftAt(v) THEN Cardinality(LeftAt(v)) - 1 ELSE Cardinality(LeftAt(v))
      BY <2>2, FS_RemoveElement
    <3>4. CASE old[cursor].val = v
      BY <2>2, <2>3, <3>1, <3>2, <3>3, <3>4
    <3>5. CASE old[cursor].val # v
      BY <2>2, <2>3, <3>1, <3>2, <3>3, <3>5
    <3> QED
      BY <3>4, <3>5
  <2> QED
    BY <1>2, <2>4, <2>5, CopyIs
<1>3. CASE CopyDone
  <2>1. Left = {} /\ Left' = {} /\ table' = table /\ Struct'
    BY <1>3, StructCopyDone
  <2>2. LeftAt(v) = {} /\ LeftAt(v)' = {}
    BY <2>1 DEF LeftAt
  <2> QED
    BY <2>1, <2>2, EntriesSum
<1>4. CASE Shift
  <2>1. old' = old /\ pc = "shift" /\ pc' = "shift" /\ table \in Table(capacity) /\ capacity \in Nat
           /\ capacity' = capacity /\ Struct'
    BY <1>4, StructShift DEF Shift, config, Struct, Sizes
  <2>2. EntriesOf(v) = Cardinality(At(table, v)) /\ Cardinality(At(table, v)) \in Nat
    BY <2>1, EntriesInTable
  <2>3. EntriesOf(v)' = Cardinality(At(table', v))
    <3>1. table' \in Table(capacity)
      BY <2>1 DEF Shift, config, Struct, Sizes
    <3> QED
      BY <2>1, <3>1, AtFinite, EntriesInTable
  <2>4. CASE table' = table
    BY <2>2, <2>3, <2>4
  <2>5. CASE \E g \in Slots(capacity) :
               table[g] = Vacant /\ table' = Put(Put(table, cursor, Vacant), g, table[cursor])
    BY <1>4, <2>1, <2>2, <2>3, <2>5, AtMove, ShiftIs
  <2> QED
    BY <1>4, <2>4, <2>5, ShiftIs
<1>5. CASE ShiftDone
  <2>1. Left = {} /\ Left' = {} /\ table' = table /\ Struct'
    BY <1>5, StructShiftDone DEF ShiftDone
  <2>2. LeftAt(v) = {} /\ LeftAt(v)' = {}
    BY <2>1 DEF LeftAt
  <2> QED
    BY <2>1, <2>2, EntriesSum
<1>6. ASSUME NEW k \in Key, NEW w \in Val, Set(k, w)
      PROVE  EntriesOf(v)' = EntriesOf(v)
  <2>1. CASE UNCHANGED <<table, old, cursor>>
    BY <2>1 DEF EntriesOf
  <2>2. CASE Grow
    <3>1. pc = "idle" /\ Struct' /\ table \in Table(capacity) /\ capacity \in Nat
      BY <1>6, StructSet DEF Set, Struct, Sizes
    <3>2. old' = table /\ cursor' = 0 /\ table' = Cleared(2 * capacity)
      BY <2>2 DEF Grow
    <3>3. EntriesOf(v) = Cardinality(At(table, v))
      BY <3>1, EntriesOfIs
    <3>4. At(table', v) = {}
      BY <3>2, ValAssumption DEF At, Cleared, Vacant
    <3>5. {i \in DOMAIN old : i >= cursor /\ old[i].val = v}' = At(table, v)
      BY <3>1, <3>2 DEF At, Table, Slots
    <3>6. EntriesOf(v)' = Cardinality(At(table', v)) + Cardinality(At(table, v))
      BY <3>5 DEF EntriesOf, At
    <3> QED
      BY <3>1, <3>3, <3>4, <3>6, FS_EmptySet, AtFinite
  <2> QED
    BY <1>6, <2>1, <2>2 DEF Set
<1> QED
  BY <1>1, <1>2, <1>3, <1>4, <1>5, <1>6

LEMMA EntriesStored ==
  ASSUME Struct, Store, NEW v \in Val
  PROVE  /\ op.val \in Val
         /\ \/ \E p \in Occ(table) :
                 /\ value' = Released(Retained(op.val), table[p].val)
                 /\ EntriesOf(v)' = EntriesOf(v) - (IF table[p].val = v THEN 1 ELSE 0)
                                                 + (IF op.val = v THEN 1 ELSE 0)
            \/ /\ value' = Retained(op.val)
               /\ EntriesOf(v)' = EntriesOf(v) + (IF op.val = v THEN 1 ELSE 0)
<1>1. pc = "store" /\ pc' = "idle" /\ Struct' /\ table \in Table(capacity) /\ capacity \in Nat
  BY StructStore DEF Store, Struct, Sizes
<1>2. EntriesOf(v) = Cardinality(At(table, v)) /\ Cardinality(At(table, v)) \in Nat
  BY <1>1, EntriesInTable DEF Store
<1>3. EntriesOf(v)' = Cardinality(At(table', v))
  BY <1>1, StoreIs, AtFinite, EntriesInTable DEF Store
<1>4. op \in Entry /\ op.val \in Val
  BY StoreIs DEF Entry
<1>5. ASSUME NEW p \in Occ(table), table' = Put(table, p, op), Overwrite(p)
      PROVE  /\ value' = Released(Retained(op.val), table[p].val)
             /\ EntriesOf(v)' = EntriesOf(v) - (IF table[p].val = v THEN 1 ELSE 0)
                                             + (IF op.val = v THEN 1 ELSE 0)
  <2>1. Cardinality(At(table', v))
          = Cardinality(At(table, v)) - (IF table[p].val = v THEN 1 ELSE 0) + (IF op.val = v THEN 1 ELSE 0)
    BY <1>1, <1>4, <1>5, AtRefill
  <2> QED
    BY <1>2, <1>3, <1>5, <2>1 DEF Overwrite
<1>6. ASSUME NEW p \in Slots(capacity), table[p] = Vacant, table' = Put(table, p, op), Add
      PROVE  /\ value' = Retained(op.val)
             /\ EntriesOf(v)' = EntriesOf(v) + (IF op.val = v THEN 1 ELSE 0)
  <2>1. Cardinality(At(table', v)) = Cardinality(At(table, v)) + (IF op.val = v THEN 1 ELSE 0)
    BY <1>1, <1>4, <1>6, AtFill
  <2> QED
    BY <1>2, <1>3, <1>6, <2>1 DEF Add
<1> QED
  BY <1>4, <1>5, <1>6, StoreIs

LEMMA EntriesRemoved ==
  ASSUME Struct, NEW k \in Key, Remove(k), NEW v \in Val
  PROVE  \E p \in Occ(table) :
           /\ value' = Released(value, table[p].val)
           /\ EntriesOf(v)' = EntriesOf(v) - (IF table[p].val = v THEN 1 ELSE 0)
<1>1. /\ pc = "idle" /\ pc' = "shift" /\ Struct' /\ table \in Table(capacity) /\ capacity \in Nat
  BY StructRemove DEF Remove, Struct, Sizes
<1>2. PICK p \in Occ(table) : p = Find(k) /\ table' = Put(table, p, Vacant)
  BY StructRemove
<1>3. EntriesOf(v) = Cardinality(At(table, v)) /\ Cardinality(At(table, v)) \in Nat
  BY <1>1, EntriesInTable DEF Remove
<1>4. EntriesOf(v)' = Cardinality(At(table', v))
  <2>1. table' \in Table(capacity)
    BY <1>1, <1>2, Vacate
  <2> QED
    BY <1>1, <2>1, AtFinite, EntriesInTable DEF Remove
<1>5. Cardinality(At(table', v)) = Cardinality(At(table, v)) - (IF table[p].val = v THEN 1 ELSE 0)
  BY <1>1, <1>2, AtVacate
<1>6. value' = Released(value, table[p].val)
  BY <1>2 DEF Remove
<1> QED
  BY <1>3, <1>4, <1>5, <1>6

\* Dropping the map leaves no entry.
LEMMA EntriesDropped ==
  ASSUME Struct, ReleaseMap, handles = 1, NEW v \in Val
  PROVE  EntriesOf(v)' = 0 /\ Occ(table') = {} /\ pc' = "freed"
         /\ value' = ReleaseTimes(value, [w \in Val |-> Cardinality(At(table, w))])
<1>1. table' = Cleared(capacity) /\ pc' = "freed" /\ old' = old /\ pc = "idle"
      /\ value' = ReleaseTimes(value, [w \in Val |-> Cardinality(At(table, w))])
  BY DEF ReleaseMap, At
<1>2. Cardinality(At(table', v)) = 0
  <2>1. At(table', v) = {}
    BY <1>1, ValAssumption DEF At, Cleared, Vacant
  <2> QED
    BY <2>1, FS_EmptySet
<1>3. EntriesOf(v)' = 0
  BY <1>1, <1>2, EntriesInTable
<1>4. Occ(table') = {}
  BY <1>1, ClearedIs DEF Struct, Sizes
<1> QED
  BY <1>1, <1>3, <1>4

-----------------------------------------------------------------------------
(* The counts of the values *)

\* A value with r references: a counted one knows them, a freed one has none.
Counted(val, r) == (val.home = "heap" => val.rc = r) /\ (val.home = "free" => r = 0)

Refs ==
  /\ \A v \in Val : Counted(value[v], mine[v] + boxed[v] + EntriesOf(v))
  /\ \A v \in Val : boxed[v] > 0 => value[v].home = "arena"
  /\ ~ arena => \A v \in Val : value[v].home # "arena"
  /\ persistent => \A v \in Val : value[v].home = "arena" => EntriesOf(v) = 0
  /\ pc = "freed" => \A v \in Val : EntriesOf(v) = 0
  /\ pc \in {"copy", "store"} =>
       value[op.val].home # "free" /\ (persistent => value[op.val].home = "heap")

LEMMA RetainCounts ==
  ASSUME value \in Values, NEW v \in Val, value[v].home # "free",
         NEW w \in Val, NEW r \in Nat, Counted(value[w], r)
  PROVE  /\ Counted(Retained(v)[w], r + (IF w = v THEN 1 ELSE 0))
         /\ Retained(v)[w].home = value[w].home
BY DEF Values, Retained, Counted

LEMMA ReleaseCounts ==
  ASSUME NEW vs \in Values, NEW n \in [Val -> Nat],
         NEW w \in Val, NEW r \in Nat, n[w] <= r, Counted(vs[w], r)
  PROVE  /\ Counted(ReleaseTimes(vs, n)[w], r - n[w])
         /\ ReleaseTimes(vs, n)[w].home = "arena" <=> vs[w].home = "arena"
         /\ ReleaseTimes(vs, n)[w].home = "heap" => vs[w].home = "heap"
<1>1. vs[w] \in [home : {"free", "heap", "arena"}, rc : Nat] /\ n[w] \in Nat
  BY DEF Values
<1>2. ReleaseTimes(vs, n)[w] = IF vs[w].home # "heap" \/ n[w] = 0 THEN vs[w]
                               ELSE IF vs[w].rc > n[w] THEN [vs[w] EXCEPT !.rc = @ - n[w]] ELSE Freed
  BY DEF ReleaseTimes
<1> DEFINE m == n[w]
           x == vs[w]
<1> HIDE DEF m, x
<1>3. CASE x.home # "heap" \/ m = 0
  BY <1>1, <1>2, <1>3 DEF Counted, x, m
<1>4. CASE x.home = "heap" /\ m # 0 /\ x.rc > m
  BY <1>1, <1>2, <1>4 DEF Counted, x, m
<1>5. CASE x.home = "heap" /\ m # 0 /\ ~ (x.rc > m)
  <2>1. ReleaseTimes(vs, n)[w] = Freed
    BY <1>2, <1>5 DEF x, m
  <2>2. r - m = 0
    BY <1>1, <1>5 DEF Counted, x, m
  <2> QED
    BY <2>1, <2>2, <1>5 DEF Counted, Freed, x, m
<1> QED
  BY <1>3, <1>4, <1>5

LEMMA ReleasedCounts ==
  ASSUME NEW vs \in Values, NEW v \in Val,
         NEW w \in Val, NEW r \in Nat, w = v => r >= 1, Counted(vs[w], r)
  PROVE  /\ Counted(Released(vs, v)[w], r - (IF w = v THEN 1 ELSE 0))
         /\ Released(vs, v)[w].home = "arena" <=> vs[w].home = "arena"
         /\ Released(vs, v)[w].home = "heap" => vs[w].home = "heap"
<1> DEFINE n == [u \in Val |-> IF u = v THEN 1 ELSE 0]
<1>1. n \in [Val -> Nat] /\ n[w] = (IF w = v THEN 1 ELSE 0) /\ n[w] <= r
  OBVIOUS
<1>2. Released(vs, v) = ReleaseTimes(vs, n)
  BY DEF Released
<1> HIDE DEF n
<1> QED
  BY <1>1, <1>2, ReleaseCounts

LEMMA RefsInit ==
  ASSUME Init
  PROVE  Refs
<1>1. ASSUME NEW v \in Val
      PROVE  EntriesOf(v) = 0
  <2>1. Struct /\ pc # "copy" /\ At(table, v) = {}
    BY StructInit, ValAssumption DEF Init, At, Cleared, Vacant
  <2> QED
    BY <2>1, FS_EmptySet, EntriesOfIs
<1> QED
  BY <1>1 DEF Init, Refs, Counted, Freed

\* The steps that change neither the values nor who holds them.
LEMMA RefsKept ==
  ASSUME Struct, Refs, UNCHANGED <<value, mine, boxed, arena, persistent>>,
         \A v \in Val : EntriesOf(v)' = EntriesOf(v), pc' = "freed" => pc = "freed",
         pc' \in {"copy", "store"} =>
           value[op'.val].home # "free" /\ (persistent => value[op'.val].home = "heap")
  PROVE  Refs'
BY DEF Refs, Counted

LEMMA RefsMap ==
  ASSUME Forms = {}, Struct, RestTypes, Refs,
         \/ CopyEntry \/ CopyDone \/ Shift \/ ShiftDone
         \/ \E k \in Key, v \in Val : Set(k, v)
  PROVE  Refs'
<1>1. \A v \in Val : EntriesOf(v)' = EntriesOf(v)
  BY EntriesKept
<1>2. UNCHANGED <<value, mine, boxed, arena, persistent>>
  BY DEF CopyEntry, CopyDone, Shift, ShiftDone, Set, config, program
<1>3. pc' # "freed"
  BY DEF CopyEntry, CopyDone, Shift, ShiftDone, Set
<1>4. ASSUME pc' \in {"copy", "store"}
      PROVE  value[op'.val].home # "free" /\ (persistent => value[op'.val].home = "heap")
  <2>1. CASE CopyEntry \/ CopyDone \/ Shift \/ ShiftDone
    BY <1>4, <2>1 DEF CopyEntry, CopyDone, Shift, ShiftDone, Refs
  <2>2. ASSUME NEW k \in Key, NEW v \in Val, Set(k, v)
        PROVE  value[op'.val].home # "free" /\ (persistent => value[op'.val].home = "heap")
    <3>1. op'.val = v /\ Holds(v) /\ (value[v].home = "heap" \/ ~ persistent)
      BY <2>2 DEF Set, Uses
    <3>2. mine[v] + boxed[v] > 0 /\ EntriesOf(v) \in Nat /\ mine[v] + boxed[v] \in Nat
      BY <3>1, EntriesOfIs DEF Holds, RestTypes
    <3>3. mine[v] + boxed[v] + EntriesOf(v) # 0
      BY <3>2
    <3>4. value[v].home # "free"
      BY <3>3 DEF Refs, Counted
    <3> QED
      BY <3>1, <3>4
  <2> QED
    BY <2>1, <2>2
<1> QED
  BY <1>1, <1>2, <1>3, <1>4, RefsKept

\* What is held has a place, and the sums are numbers.
LEMMA RefsNat ==
  ASSUME Struct, RestTypes, NEW v \in Val
  PROVE  /\ mine[v] \in Nat /\ boxed[v] \in Nat /\ EntriesOf(v) \in Nat
         /\ mine[v] + boxed[v] + EntriesOf(v) \in Nat
         /\ value \in Values
BY EntriesOfIs, BoundAssumption DEF RestTypes

LEMMA RefsStore ==
  ASSUME Struct, RestTypes, Refs, Store
  PROVE  Refs'
<1>1. /\ pc = "store" /\ pc' = "idle" /\ mine' = mine /\ boxed' = boxed /\ arena' = arena
      /\ persistent' = persistent
  BY DEF Store, config, program
<1> DEFINE o == op.val
<1>2. /\ o \in Val /\ value \in Values /\ value[o].home # "free"
      /\ (persistent => value[o].home = "heap")
  BY <1>1, EntriesStored, StoreIs DEF Refs, RestTypes, Entry
<1> HIDE DEF o
<1>3. ASSUME NEW v \in Val
      PROVE  /\ Counted(value'[v], mine[v] + boxed[v] + EntriesOf(v)')
             /\ value'[v].home = "arena" <=> value[v].home = "arena"
             /\ persistent /\ value[v].home = "arena" => EntriesOf(v)' = 0
  <2> DEFINE r == mine[v] + boxed[v] + EntriesOf(v)
             E == EntriesOf(v)
             F == EntriesOf(v)'
             H == mine[v] + boxed[v]
             V == Retained(o)
  <2>1. r \in Nat /\ H \in Nat /\ E \in Nat /\ r = H + E /\ Counted(value[v], r)
    BY RefsNat DEF Refs
  <2>2. Counted(V[v], r + (IF v = o THEN 1 ELSE 0)) /\ V[v].home = value[v].home /\ V \in Values
    BY <1>2, <2>1, RetainCounts, RetainTypes
  <2>3. persistent /\ value[v].home = "arena" => E = 0 /\ v # o
    BY <1>2 DEF Refs
  <2> HIDE DEF r, E, F, H, V
  <2>4. ASSUME value' = V, F = E + (IF o = v THEN 1 ELSE 0)
        PROVE  /\ Counted(value'[v], H + F)
               /\ value'[v].home = "arena" <=> value[v].home = "arena"
               /\ persistent /\ value[v].home = "arena" => F = 0
    <3>1. H + F = r + (IF v = o THEN 1 ELSE 0)
      BY <2>1, <2>4
    <3> QED
      BY <2>1, <2>2, <2>3, <2>4, <3>1
  <2>5. ASSUME NEW p \in Occ(table), value' = Released(V, table[p].val),
               F = E - (IF table[p].val = v THEN 1 ELSE 0) + (IF o = v THEN 1 ELSE 0)
        PROVE  /\ Counted(value'[v], H + F)
               /\ value'[v].home = "arena" <=> value[v].home = "arena"
               /\ persistent /\ value[v].home = "arena" => F = 0
    <3> DEFINE w == table[p].val
               q == r + (IF v = o THEN 1 ELSE 0)
    <3>1. w \in Val /\ (v = w => E >= 1)
      BY HeldCounts DEF E
    <3>2. q \in Nat /\ (v = w => q >= 1) /\ Counted(V[v], q)
      BY <2>1, <2>2, <3>1
    <3>3. H + F = q - (IF v = w THEN 1 ELSE 0)
      BY <2>1, <2>5
    <3> HIDE DEF w, q
    <3>4. /\ Counted(Released(V, w)[v], q - (IF v = w THEN 1 ELSE 0))
          /\ Released(V, w)[v].home = "arena" <=> V[v].home = "arena"
      BY <2>2, <3>1, <3>2, ReleasedCounts
    <3>5. persistent /\ value[v].home = "arena" => F = 0
      BY <2>1, <2>3, <2>5, <3>1 DEF w
    <3> QED
      BY <2>2, <2>5, <3>3, <3>4, <3>5 DEF w
  <2> QED
    BY <2>4, <2>5, EntriesStored DEF E, F, H, V, o
<1> QED
  BY <1>1, <1>3 DEF Refs

LEMMA RefsRemove ==
  ASSUME Struct, RestTypes, Refs, NEW k \in Key, Remove(k)
  PROVE  Refs'
<1>1. /\ pc = "idle" /\ pc' = "shift" /\ mine' = mine /\ boxed' = boxed /\ arena' = arena
      /\ persistent' = persistent
  BY DEF Remove, config, program
<1>2. ASSUME NEW v \in Val
      PROVE  /\ Counted(value'[v], mine[v] + boxed[v] + EntriesOf(v)')
             /\ value'[v].home = "arena" <=> value[v].home = "arena"
             /\ persistent /\ value[v].home = "arena" => EntriesOf(v)' = 0
  <2> DEFINE r == mine[v] + boxed[v] + EntriesOf(v)
             E == EntriesOf(v)
             F == EntriesOf(v)'
             H == mine[v] + boxed[v]
  <2>1. r \in Nat /\ H \in Nat /\ E \in Nat /\ r = H + E /\ Counted(value[v], r) /\ value \in Values
    BY RefsNat DEF Refs
  <2>2. persistent /\ value[v].home = "arena" => E = 0
    BY DEF Refs
  <2>3. PICK p \in Occ(table) : /\ value' = Released(value, table[p].val)
                                /\ F = E - (IF table[p].val = v THEN 1 ELSE 0)
    BY EntriesRemoved
  <2> DEFINE w == table[p].val
  <2>4. w \in Val /\ (v = w => E >= 1)
    BY HeldCounts
  <2> HIDE DEF r, E, F, H, w
  <2>5. v = w => r >= 1
    BY <2>1, <2>4
  <2>6. /\ Counted(Released(value, w)[v], r - (IF v = w THEN 1 ELSE 0))
        /\ Released(value, w)[v].home = "arena" <=> value[v].home = "arena"
    BY <2>1, <2>4, <2>5, ReleasedCounts
  <2>7. H + F = r - (IF v = w THEN 1 ELSE 0) /\ value' = Released(value, w)
    BY <2>1, <2>3 DEF w
  <2>8. persistent /\ value[v].home = "arena" => F = 0
    BY <2>1, <2>2, <2>3, <2>4 DEF w
  <2> QED
    BY <2>6, <2>7, <2>8 DEF F, H
<1> QED
  BY <1>1, <1>2 DEF Refs

LEMMA RefsRelease ==
  ASSUME Struct, RestTypes, Refs, ReleaseMap
  PROVE  Refs'
<1>1. /\ pc = "idle" /\ mine' = mine /\ boxed' = boxed /\ arena' = arena /\ persistent' = persistent
  BY DEF ReleaseMap, config
<1>2. CASE handles # 1
  <2>1. UNCHANGED <<table, old, cursor, value, pc>>
    BY <1>2 DEF ReleaseMap
  <2>2. \A v \in Val : EntriesOf(v)' = EntriesOf(v)
    BY <2>1, EntriesKept
  <2> QED
    BY <1>1, <2>1, <2>2, RefsKept
<1>3. CASE handles = 1
  <2> DEFINE n == [w \in Val |-> Cardinality(At(table, w))]
  <2>1. n \in [Val -> Nat]
    BY AtFinite DEF Struct, Sizes
  <2>2. ASSUME NEW v \in Val
        PROVE  /\ Counted(value'[v], mine[v] + boxed[v] + EntriesOf(v)') /\ EntriesOf(v)' = 0
               /\ value'[v].home = "arena" <=> value[v].home = "arena"
    <3> DEFINE r == mine[v] + boxed[v] + EntriesOf(v)
               H == mine[v] + boxed[v]
    <3>1. EntriesOf(v)' = 0 /\ value' = ReleaseTimes(value, n)
      BY <1>3, EntriesDropped
    <3>2. n[v] = EntriesOf(v)
      BY <1>1, EntriesOfIs
    <3>3. r \in Nat /\ H \in Nat /\ EntriesOf(v) \in Nat /\ r = H + EntriesOf(v) /\ Counted(value[v], r)
          /\ value \in Values
      BY RefsNat DEF Refs
    <3> HIDE DEF n, r, H
    <3>4. n[v] <= r /\ r - n[v] = H /\ H + 0 = H
      BY <3>2, <3>3
    <3>5. /\ Counted(ReleaseTimes(value, n)[v], r - n[v])
          /\ ReleaseTimes(value, n)[v].home = "arena" <=> value[v].home = "arena"
      BY <2>1, <3>3, <3>4, ReleaseCounts
    <3> QED
      BY <3>1, <3>4, <3>5 DEF H
  <2>3. pc' = "freed"
    BY <1>3 DEF ReleaseMap
  <2> QED
    BY <1>1, <2>2, <2>3 DEF Refs
<1> QED
  BY <1>2, <1>3

LEMMA RefsGet ==
  ASSUME Forms = {}, Struct, RestTypes, Refs, NEW k \in Key, Get(k)
  PROVE  Refs'
<1> DEFINE w == table[Find(k)].val
<1>1. /\ UNCHANGED <<table, old, cursor, pc, op, arena, persistent>> /\ pc = "idle"
      /\ value' = Retained(w)
      /\ \/ ~ arena /\ mine' = [mine EXCEPT ![w] = @ + 1] /\ boxed' = boxed
         \/ /\ arena /\ value[w].home # "heap"
            /\ boxed' = [boxed EXCEPT ![w] = @ + 1] /\ mine' = mine
  BY DEF Get, storage, config, Uses
<1>2. Find(k) \in Occ(table)
  BY <1>1, Lookup DEF Get
<1>3. w \in Val /\ EntriesOf(w) >= 1
  BY <1>2, HeldCounts
<1> HIDE DEF w
<1>4. value[w].home # "free"
  <2>1. mine[w] + boxed[w] + EntriesOf(w) # 0
    BY <1>3, RefsNat
  <2> QED
    BY <1>3, <2>1 DEF Refs, Counted
<1>5. value[w].home \in {"free", "heap", "arena"}
  BY <1>3 DEF RestTypes, Values
<1>6. \A v \in Val : EntriesOf(v)' = EntriesOf(v)
  BY <1>1, EntriesKept
<1>7. ASSUME NEW v \in Val
      PROVE  /\ Counted(value'[v], mine'[v] + boxed'[v] + EntriesOf(v))
             /\ value'[v].home = value[v].home
             /\ boxed'[v] > 0 => value[v].home = "arena"
  <2> DEFINE r == mine[v] + boxed[v] + EntriesOf(v)
             E == EntriesOf(v)
  <2>1. /\ r \in Nat /\ mine[v] \in Nat /\ boxed[v] \in Nat /\ E \in Nat /\ Counted(value[v], r)
        /\ r = mine[v] + boxed[v] + E /\ value \in Values
    BY RefsNat DEF Refs
  <2>2. boxed[v] > 0 => value[v].home = "arena"
    BY DEF Refs
  <2> HIDE DEF r, E
  <2>3. Counted(value'[v], r + (IF v = w THEN 1 ELSE 0)) /\ value'[v].home = value[v].home
    BY <1>1, <1>3, <1>4, <2>1, RetainCounts
  <2>4. mine \in [Val -> 0 .. MaxRefs] /\ boxed \in [Val -> 0 .. MaxRefs]
    BY DEF RestTypes
  <2>5. mine'[v] + boxed'[v] + E = r + (IF v = w THEN 1 ELSE 0)
    BY <1>1, <1>3, <2>1, <2>4
  <2>6. boxed'[v] > 0 => value[v].home = "arena"
    BY <1>1, <1>3, <1>4, <1>5, <2>1, <2>2, <2>4
  <2> QED
    BY <2>3, <2>5, <2>6 DEF E
<1> QED
  BY <1>1, <1>6, <1>7 DEF Refs

\* The program's own steps.
LEMMA RefsProgram ==
  ASSUME Struct, RestTypes, Refs, Program
  PROVE  Refs'
<1>1. /\ UNCHANGED <<table, old, cursor, pc, op, persistent>> /\ pc \in {"idle", "freed"}
  BY DEF Program, RequestBegins, RequestEnds, NewValue, DropValue, rest, storage, config
<1>2. \A v \in Val : EntriesOf(v)' = EntriesOf(v)
  BY <1>1, EntriesKept
<1>3. CASE RequestBegins
  BY <1>1, <1>2, <1>3 DEF RequestBegins, Refs
<1>4. CASE RequestEnds
  <2>1. ASSUME NEW v \in Val
        PROVE  /\ Counted(value'[v], mine'[v] + boxed'[v] + EntriesOf(v))
               /\ value'[v].home # "arena" /\ boxed'[v] = 0
    <3>1. /\ value'[v] = (IF value[v].home = "arena" THEN Freed ELSE value[v])
          /\ mine'[v] = (IF value[v].home = "arena" THEN 0 ELSE mine[v])
          /\ boxed'[v] = 0 /\ (pc = "freed" \/ persistent)
      BY <1>4 DEF RequestEnds
    <3>2. /\ mine[v] \in Nat /\ boxed[v] \in Nat /\ EntriesOf(v) \in Nat
          /\ Counted(value[v], mine[v] + boxed[v] + EntriesOf(v))
          /\ (boxed[v] > 0 => value[v].home = "arena")
      BY RefsNat DEF Refs
    <3>3. value[v].home = "arena" => EntriesOf(v) = 0
      BY <3>1 DEF Refs
    <3>4. CASE value[v].home = "arena"
      BY <3>1, <3>3, <3>4 DEF Counted, Freed
    <3>5. CASE value[v].home # "arena"
      <4>1. boxed[v] = 0
        BY <3>2, <3>5
      <4> QED
        BY <3>1, <3>2, <3>5, <4>1
    <3> QED
      BY <3>4, <3>5
  <2> QED
    BY <1>1, <1>2, <2>1 DEF Refs
<1>5. ASSUME NEW v \in Val, NewValue(v)
      PROVE  Refs'
  <2>1. /\ value[v].home = "free" /\ mine' = [mine EXCEPT ![v] = 1] /\ UNCHANGED <<arena, boxed>>
        /\ value' = [value EXCEPT ![v] = IF arena THEN [home |-> "arena", rc |-> 0]
                                                  ELSE [home |-> "heap", rc |-> 1]]
    BY <1>5 DEF NewValue
  <2>2. /\ mine[v] \in Nat /\ boxed[v] \in Nat /\ EntriesOf(v) \in Nat
        /\ mine[v] + boxed[v] + EntriesOf(v) = 0
    BY <2>1, RefsNat DEF Refs, Counted
  <2>3. boxed[v] = 0 /\ EntriesOf(v) = 0
    BY <2>2
  <2>4. ASSUME NEW w \in Val
        PROVE  /\ Counted(value'[w], mine'[w] + boxed[w] + EntriesOf(w))
               /\ boxed[w] > 0 => value'[w].home = "arena"
               /\ ~ arena => value'[w].home # "arena"
               /\ persistent /\ value'[w].home = "arena" => EntriesOf(w) = 0
    <3>1. CASE w = v
      <4>1. mine'[w] = 1 /\ value'[w] = IF arena THEN [home |-> "arena", rc |-> 0]
                                                 ELSE [home |-> "heap", rc |-> 1]
        BY <2>1, <3>1 DEF RestTypes, Values
      <4> QED
        BY <2>3, <3>1, <4>1 DEF Counted
    <3>2. CASE w # v
      <4>1. mine'[w] = mine[w] /\ value'[w] = value[w]
        BY <2>1, <3>2 DEF RestTypes, Values
      <4> QED
        BY <4>1 DEF Refs
    <3> QED
      BY <3>1, <3>2
  <2> QED
    BY <1>1, <1>2, <2>1, <2>4 DEF Refs
<1>6. ASSUME NEW v \in Val, DropValue(v)
      PROVE  Refs'
  <2>1. /\ mine[v] > 0 /\ mine' = [mine EXCEPT ![v] = @ - 1] /\ UNCHANGED <<arena, boxed>>
        /\ value' = Released(value, v)
    BY <1>6 DEF DropValue
  <2>2. ASSUME NEW w \in Val
        PROVE  /\ Counted(value'[w], mine'[w] + boxed[w] + EntriesOf(w))
               /\ value'[w].home = "arena" <=> value[w].home = "arena"
    <3> DEFINE r == mine[w] + boxed[w] + EntriesOf(w)
               E == EntriesOf(w)
    <3>1. /\ r \in Nat /\ mine[w] \in Nat /\ boxed[w] \in Nat /\ E \in Nat /\ Counted(value[w], r)
          /\ r = mine[w] + boxed[w] + E /\ value \in Values
      BY RefsNat DEF Refs
    <3> HIDE DEF r, E
    <3>2. w = v => r >= 1
      BY <2>1, <3>1
    <3>3. /\ Counted(value'[w], r - (IF w = v THEN 1 ELSE 0))
          /\ value'[w].home = "arena" <=> value[w].home = "arena"
      BY <2>1, <3>1, <3>2, ReleasedCounts
    <3>4. mine'[w] + boxed[w] + E = r - (IF w = v THEN 1 ELSE 0)
      BY <2>1, <3>1 DEF RestTypes
    <3> QED
      BY <3>3, <3>4 DEF E
  <2> QED
    BY <1>1, <1>2, <2>1, <2>2 DEF Refs
<1> QED
  BY <1>3, <1>4, <1>5, <1>6 DEF Program

LEMMA RefsNext ==
  ASSUME Forms = {}, Struct, RestTypes, Refs, [Next]_vars
  PROVE  Refs'
<1>1. CASE UNCHANGED vars
  BY <1>1, EntriesKept, RefsKept DEF vars, Refs
<1>2. CASE CopyEntry \/ CopyDone \/ Shift \/ ShiftDone
  BY <1>2, RefsMap
<1>3. CASE Store
  BY <1>3, RefsStore
<1>4. CASE RetainMap
  <2>1. UNCHANGED <<table, old, cursor, pc, op, value, mine, boxed, arena, persistent>> /\ pc = "idle"
    BY <1>4 DEF RetainMap, storage, config
  <2>2. \A v \in Val : EntriesOf(v)' = EntriesOf(v)
    BY <2>1, EntriesKept
  <2> QED
    BY <2>1, <2>2, RefsKept
<1>5. CASE ReleaseMap
  BY <1>5, RefsRelease
<1>6. CASE Program
  BY <1>6, RefsProgram
<1>7. ASSUME NEW k \in Key, Remove(k)
      PROVE  Refs'
  BY <1>7, RefsRemove
<1>8. ASSUME NEW k \in Key, Get(k)
      PROVE  Refs'
  BY <1>8, RefsGet
<1>9. ASSUME NEW k \in Key, NEW v \in Val, Set(k, v)
      PROVE  Refs'
  BY <1>9, RefsMap
<1> QED
  BY <1>1, <1>2, <1>3, <1>4, <1>5, <1>6, <1>7, <1>8, <1>9 DEF Next, Internal

\* Of a program without the two forms that the code does not handle, the count of a heap
\* value is exact at every step, and nothing points to a value that was freed or went with
\* its arena: no use after free, no double free, no leak, for every table, hash function
\* and number of keys and values (hashmap_gretain_value, hashmap_grelease_value, rt_arena_end).
THEOREM CountsAlwaysExact ==
  ASSUME Forms = {}
  PROVE  Spec => []CountsExact
<1>1. Init => Struct /\ RestTypes /\ Refs
  BY StructInit, RestInit, RefsInit
<1>2. Struct /\ RestTypes /\ Refs /\ [Next]_vars => (Struct /\ RestTypes /\ Refs)'
  BY StructNext, RestNext, RefsNext
<1>3. Struct /\ RestTypes /\ Refs => CountsExact
  BY DEF Refs, Counted, CountsExact
<1> QED
  BY <1>1, <1>2, <1>3, PTL DEF Spec

-----------------------------------------------------------------------------
(* The table is a map *)

\* What a table holds, apart from where.
Rows(t) == {t[i] : i \in Occ(t)}

\* What a set of entries binds a key to.
Bound(S, k) == IF \E e \in S : e.key = k THEN (CHOOSE e \in S : e.key = k).val ELSE None

LEMMA BoundIs ==
  ASSUME NEW S, \A e, f \in S : e.key = f.key => e = f, NEW k
  PROVE  /\ \A e \in S : e.key = k => Bound(S, k) = e.val
         /\ (\A e \in S : e.key # k) => Bound(S, k) = None
<1>1. ASSUME NEW e \in S, e.key = k
      PROVE  Bound(S, k) = e.val
  <2>1. (CHOOSE f \in S : f.key = k) = e
    BY <1>1
  <2> QED
    BY <1>1, <2>1 DEF Bound
<1> QED
  BY <1>1 DEF Bound

\* Binding and unbinding one key leaves the others as they are.
LEMMA Rebind ==
  ASSUME NEW S, \A e, f \in S : e.key = f.key => e = f, NEW o, NEW k
  PROVE  Bound({f \in S : f.key # o.key} \cup {o}, k) = IF k = o.key THEN o.val ELSE Bound(S, k)
<1> DEFINE T == {f \in S : f.key # o.key} \cup {o}
<1>1. \A e, f \in T : e.key = f.key => e = f
  OBVIOUS
<1>2. o \in T
  OBVIOUS
<1>3. \A e \in S : e.key = k /\ k # o.key => e \in T
  OBVIOUS
<1>4. \A e \in T : e.key = k /\ k # o.key => e \in S
  OBVIOUS
<1> HIDE DEF T
<1>5. CASE k = o.key
  BY <1>1, <1>2, <1>5, BoundIs
<1>6. CASE k # o.key /\ \E e \in S : e.key = k
  BY <1>1, <1>3, <1>6, BoundIs
<1>7. CASE k # o.key /\ \A e \in S : e.key # k
  BY <1>4, <1>7 DEF Bound
<1> QED
  BY <1>5, <1>6, <1>7 DEF T

LEMMA Unbind ==
  ASSUME NEW S, \A e, f \in S : e.key = f.key => e = f, NEW x, NEW k
  PROVE  Bound({f \in S : f.key # x}, k) = IF k = x THEN None ELSE Bound(S, k)
<1> DEFINE T == {f \in S : f.key # x}
<1>1. \A e, f \in T : e.key = f.key => e = f
  OBVIOUS
<1>2. \A e \in S : e.key = k /\ k # x => e \in T
  OBVIOUS
<1>3. \A e \in T : e \in S /\ e.key # x
  OBVIOUS
<1> HIDE DEF T
<1>4. CASE k = x
  BY <1>3, <1>4 DEF Bound
<1>5. CASE k # x /\ \E e \in S : e.key = k
  BY <1>1, <1>2, <1>5, BoundIs
<1>6. CASE k # x /\ \A e \in S : e.key # k
  BY <1>3, <1>6 DEF Bound
<1> QED
  BY <1>4, <1>5, <1>6 DEF T

LEMMA EntriesAre ==
  /\ Entries = Rows(table) \cup {old[j] : j \in Left}
  /\ Entries' = Rows(table') \cup {old'[j] : j \in Left'}
<1>1. Entries = Rows(table) \cup {old[j] : j \in Left}
  BY DEF Entries, Rows, Occ, Left
<1>2. Entries' = Rows(table') \cup {old'[j] : j \in Left'}
  BY DEF Entries, Rows, Occ, Left
<1> QED
  BY <1>1, <1>2

LEMMA ContentBound ==
  /\ Content = [k \in Key |-> Bound(Entries, k)]
  /\ Content' = [k \in Key |-> Bound(Entries', k)]
BY DEF Content, Bound

LEMMA EntriesUnique ==
  ASSUME Struct
  PROVE  \A e, f \in Entries : e.key = f.key => e = f
BY EntriesAre DEF Struct, KeysOnce, Unique, Rows

LEMMA RowsPut ==
  ASSUME NEW cap \in Nat, NEW t \in Table(cap), NEW p \in Slots(cap), NEW e \in Entry
  PROVE  /\ t[p] = Vacant => Rows(Put(t, p, e)) = Rows(t) \cup {e}
         /\ Unique(t) /\ p \in Occ(t) /\ e.key = t[p].key
              => Rows(Put(t, p, e)) = {f \in Rows(t) : f.key # e.key} \cup {e}
         /\ Unique(t) /\ p \in Occ(t) => Rows(Put(t, p, Vacant)) = {f \in Rows(t) : f.key # t[p].key}
<1>1. Occ(t) \subseteq Slots(cap)
  BY SlotIs
<1>2. ASSUME t[p] = Vacant
      PROVE  Rows(Put(t, p, e)) = Rows(t) \cup {e}
  <2> DEFINE u == Put(t, p, e)
  <2>1. /\ u[p] = e /\ Occ(u) = Occ(t) \cup {p} /\ p \notin Occ(t)
        /\ \A i \in Slots(cap) : i # p => u[i] = t[i]
    BY <1>2, Fill
  <2> HIDE DEF u
  <2>2. Rows(u) = Rows(t) \cup {e}
    BY <1>1, <2>1 DEF Rows
  <2> QED
    BY <2>2 DEF u
<1>3. ASSUME Unique(t), p \in Occ(t), e.key = t[p].key
      PROVE  Rows(Put(t, p, e)) = {f \in Rows(t) : f.key # e.key} \cup {e}
  <2> DEFINE u == Put(t, p, e)
  <2>1. e # Vacant
    BY KeyAssumption DEF Entry, Vacant
  <2>2. u \in Table(cap) /\ u[p] = e /\ \A i \in Slots(cap) : i # p => u[i] = t[i]
    BY DEF Table, Put
  <2> HIDE DEF u
  <2>3. Occ(u) = Occ(t)
    BY <1>1, <1>3, <2>1, <2>2, SlotIs DEF Occ
  <2>4. Rows(u) = {f \in Rows(t) : f.key # e.key} \cup {e}
    BY <1>1, <1>3, <2>2, <2>3 DEF Rows, Unique
  <2> QED
    BY <2>4 DEF u
<1>4. ASSUME Unique(t), p \in Occ(t)
      PROVE  Rows(Put(t, p, Vacant)) = {f \in Rows(t) : f.key # t[p].key}
  <2> DEFINE u == Put(t, p, Vacant)
  <2>1. Occ(u) = Occ(t) \ {p} /\ \A i \in Slots(cap) : i # p => u[i] = t[i]
    BY <1>4, Vacate
  <2> HIDE DEF u
  <2>2. Rows(u) = {f \in Rows(t) : f.key # t[p].key}
    BY <1>1, <1>4, <2>1 DEF Rows, Unique
  <2> QED
    BY <2>2 DEF u
<1> QED
  BY <1>2, <1>3, <1>4

\* While a call runs on, and between calls, what is bound stays bound.
LEMMA ContentKept ==
  ASSUME Struct,
         \/ UNCHANGED <<table, old, cursor>>
         \/ CopyEntry \/ CopyDone \/ Shift \/ ShiftDone
         \/ \E k \in Key, v \in Val : Set(k, v)
  PROVE  Content' = Content
<1> SUFFICES Entries' = Entries
  BY ContentBound
<1>1. CASE UNCHANGED <<table, old, cursor>>
  BY <1>1 DEF Entries
<1>2. CASE CopyEntry
  <2>1. old' = old /\ table \in Table(capacity) /\ capacity \in Nat
    BY <1>2 DEF CopyEntry, Struct, Sizes
  <2>2. CASE Left' = Left /\ table' = table
    BY <2>1, <2>2, EntriesAre
  <2>3. ASSUME cursor \in Left, old[cursor] \in Entry, Left' = Left \ {cursor},
               NEW p \in Slots(capacity), table[p] = Vacant, table' = Put(table, p, old[cursor])
        PROVE  Entries' = Entries
    <3>1. Rows(table') = Rows(table) \cup {old[cursor]}
      BY <2>1, <2>3, RowsPut
    <3> QED
      BY <2>1, <2>3, <3>1, EntriesAre
  <2> QED
    BY <1>2, <2>2, <2>3, CopyIs
<1>3. CASE CopyDone
  BY <1>3, StructCopyDone, EntriesAre
<1>4. CASE Shift
  <2>1. Left = {} /\ Left' = {} /\ table \in Table(capacity) /\ capacity \in Nat
    <3>1. old' = old /\ DOMAIN old = {}
      BY <1>4, NothingLeft DEF Shift, Struct
    <3> QED
      BY <3>1 DEF Left, Struct, Sizes
  <2>2. CASE table' = table
    BY <2>1, <2>2, EntriesAre
  <2>3. ASSUME cursor \in Occ(table), NEW g \in Slots(capacity), table[g] = Vacant,
               table' = Put(Put(table, cursor, Vacant), g, table[cursor])
        PROVE  Entries' = Entries
    <3>1. /\ Occ(table') = (Occ(table) \ {cursor}) \cup {g} /\ table'[g] = table[cursor]
          /\ \A i \in Occ(table) \ {cursor} : i # g /\ table'[i] = table[i]
      BY <2>1, <2>3, Move
    <3>2. Rows(table') = Rows(table)
      BY <2>3, <3>1 DEF Rows
    <3> QED
      BY <2>1, <3>2, EntriesAre
  <2> QED
    BY <1>4, <2>2, <2>3, ShiftIs
<1>5. CASE ShiftDone
  BY <1>5, StructShiftDone, EntriesAre DEF ShiftDone
<1>6. ASSUME NEW k \in Key, NEW v \in Val, Set(k, v)
      PROVE  Entries' = Entries
  <2>1. CASE UNCHANGED <<table, old, cursor>>
    BY <2>1 DEF Entries
  <2>2. CASE Grow
    <3>1. pc = "idle" /\ table \in Table(capacity) /\ capacity \in Nat
      BY <1>6 DEF Set, Struct, Sizes
    <3>2. old' = table /\ cursor' = 0 /\ table' = Cleared(2 * capacity)
      BY <2>2 DEF Grow
    <3>3. Left = {} /\ Occ(table') = {}
      BY <3>1, <3>2, NothingLeft, ClearedIs DEF Struct
    <3>4. Left' = Occ(table)
      BY <3>1, <3>2 DEF Left, Occ, Table, Slots
    <3>5. Rows(table') = {} /\ {old'[j] : j \in Left'} = Rows(table)
      BY <3>2, <3>3, <3>4 DEF Rows
    <3> QED
      BY <3>3, <3>5, EntriesAre
  <2> QED
    BY <1>6, <2>1, <2>2 DEF Set
<1> QED
  BY <1>1, <1>2, <1>3, <1>4, <1>5, <1>6

LEMMA ContentStored ==
  ASSUME Struct, Store
  PROVE  Content' = [Content EXCEPT ![op.key] = op.val]
<1>1. /\ op \in Entry /\ op.key \in Key /\ table \in Table(capacity) /\ capacity \in Nat /\ Unique(table)
      /\ Left = {} /\ Left' = {}
  <2>1. pc = "store" /\ old' = old
    BY DEF Store
  <2>2. DOMAIN old = {}
    BY <2>1, NothingLeft DEF Struct
  <2> QED
    BY <2>1, <2>2, StoreIs DEF Struct, Sizes, KeysOnce, Left, Entry
<1>2. Entries = Rows(table) /\ Entries' = Rows(table')
  BY <1>1, EntriesAre
<1>3. Rows(table') = {f \in Rows(table) : f.key # op.key} \cup {op}
  <2>1. ASSUME NEW p \in Occ(table), table[p].key = op.key, table' = Put(table, p, op)
        PROVE  Rows(table') = {f \in Rows(table) : f.key # op.key} \cup {op}
    BY <1>1, <2>1, SlotIs, RowsPut
  <2>2. ASSUME NEW p \in Slots(capacity), table[p] = Vacant, table' = Put(table, p, op),
               \A i \in Occ(table) : table[i].key # op.key
        PROVE  Rows(table') = {f \in Rows(table) : f.key # op.key} \cup {op}
    <3>1. Rows(table') = Rows(table) \cup {op}
      BY <1>1, <2>2, RowsPut
    <3>2. Rows(table) = {f \in Rows(table) : f.key # op.key}
      BY <2>2 DEF Rows
    <3> QED
      BY <3>1, <3>2
  <2> QED
    BY <2>1, <2>2, StoreIs
<1>4. \A e, f \in Entries : e.key = f.key => e = f
  BY EntriesUnique
<1>5. \A k \in Key : Bound(Entries', k) = IF k = op.key THEN op.val ELSE Bound(Entries, k)
  BY <1>2, <1>3, <1>4, Rebind
<1> QED
  BY <1>1, <1>5, ContentBound

LEMMA ContentRemoved ==
  ASSUME Struct, NEW x \in Key, Remove(x)
  PROVE  Content' = [Content EXCEPT ![x] = None]
<1>1. /\ table \in Table(capacity) /\ capacity \in Nat /\ Unique(table) /\ Left = {} /\ Left' = {}
  <2>1. pc = "idle" /\ old' = old
    BY DEF Remove
  <2>2. DOMAIN old = {}
    BY <2>1, NothingLeft DEF Struct
  <2> QED
    BY <2>1, <2>2 DEF Struct, Sizes, KeysOnce, Left
<1>2. Entries = Rows(table) /\ Entries' = Rows(table')
  BY <1>1, EntriesAre
<1>3. PICK p \in Occ(table) : table[p].key = x /\ table' = Put(table, p, Vacant)
  BY StructRemove
<1>4. Rows(table') = {f \in Rows(table) : f.key # x}
  <2>1. p \in Slots(capacity) /\ table[p] \in Entry
    BY <1>1, SlotIs
  <2> QED
    BY <1>1, <1>3, <2>1, RowsPut
<1>5. \A e, f \in Entries : e.key = f.key => e = f
  BY EntriesUnique
<1>6. \A k \in Key : Bound(Entries', k) = IF k = x THEN None ELSE Bound(Entries, k)
  <2> DEFINE S == Entries
  <2>1. Entries' = {f \in S : f.key # x}
    BY <1>2, <1>4
  <2> HIDE DEF S
  <2>2. \A e, f \in S : e.key = f.key => e = f
    BY <1>5 DEF S
  <2>3. \A k \in Key : Bound({f \in S : f.key # x}, k) = IF k = x THEN None ELSE Bound(S, k)
    BY <2>2, Unbind
  <2> QED
    BY <2>1, <2>3 DEF S
<1> QED
  BY <1>6, ContentBound

\* The content of a table without entries.
LEMMA ContentNone ==
  ASSUME Entries' = {}
  PROVE  Content' = [k \in Key |-> None]
BY ContentBound DEF Bound

LEMMA MapInit ==
  ASSUME Init
  PROVE  Map!Init
<1>1. Entries = {}
  BY DEF Init, Entries, Cleared
<1>2. Content = [k \in Key |-> None]
  BY <1>1 DEF Content
<1> QED
  BY <1>2 DEF Init, Map!Init, Phase, NoOp, Vacant, Map!NoSet

\* Steps within a call, and steps of the program, are no steps of the map.
LEMMA MapStutter ==
  ASSUME Content' = Content, Phase' = Phase, op' = op
  PROVE  UNCHANGED Map!vars
BY DEF Map!vars

\* Every step is one of the map, or none.
LEMMA MapNext ==
  ASSUME Struct, [Next]_vars
  PROVE  [Map!Next]_(Map!vars)
<1>1. CASE UNCHANGED vars
  BY <1>1, ContentKept, MapStutter DEF vars, Phase
<1>2. CASE CopyEntry
  BY <1>2, ContentKept, MapStutter DEF CopyEntry, Phase
<1>3. CASE CopyDone
  BY <1>3, ContentKept, MapStutter DEF CopyDone, Phase
<1>4. CASE Store
  <2>1. Content' = [Content EXCEPT ![op.key] = op.val]
    BY <1>4, ContentStored
  <2>2. Phase = "setting" /\ Phase' = "idle" /\ op' = Map!NoSet
    BY <1>4 DEF Store, Phase, NoOp, Vacant, Map!NoSet
  <2> QED
    BY <2>1, <2>2 DEF Map!Set, Map!Next
<1>5. CASE Shift
  BY <1>5, ContentKept, MapStutter DEF Shift, Phase
<1>6. CASE ShiftDone
  <2>1. Content' = Content
    BY <1>6, ContentKept
  <2> QED
    BY <1>6, <2>1 DEF ShiftDone, Phase, Map!Return, Map!Next
<1>7. CASE RetainMap
  BY <1>7, ContentKept, MapStutter DEF RetainMap, storage, Phase
<1>8. CASE ReleaseMap
  <2>1. CASE handles # 1
    BY <1>8, <2>1, ContentKept, MapStutter DEF ReleaseMap, Phase
  <2>2. CASE handles = 1
    <3>1. pc = "idle" /\ pc' = "freed" /\ op' = op /\ old' = old /\ table' = Cleared(capacity)
      BY <1>8, <2>2 DEF ReleaseMap
    <3>2. Left' = {} /\ Occ(table') = {}
      BY <3>1, NothingLeft, ClearedIs DEF Struct, Sizes, Left
    <3>3. Entries' = {}
      BY <3>2, EntriesAre DEF Rows
    <3>4. Content' = [k \in Key |-> None]
      BY <3>3, ContentNone
    <3> QED
      BY <3>1, <3>4 DEF Phase, Map!Drop, Map!Next
  <2> QED
    BY <2>1, <2>2
<1>9. CASE Program
  <2>1. UNCHANGED <<table, old, cursor, pc, op>>
    BY <1>9 DEF Program, RequestBegins, RequestEnds, NewValue, DropValue, rest, storage
  <2> QED
    BY <2>1, ContentKept, MapStutter DEF Phase
<1>10. ASSUME NEW k \in Key, Remove(k)
       PROVE  Map!Next
  <2>1. Content' = [Content EXCEPT ![k] = None]
    BY <1>10, ContentRemoved
  <2>2. Map!Remove(k)
    BY <1>10, <2>1 DEF Remove, Phase, Map!Remove
  <2> QED
    BY <2>2 DEF Map!Next
<1>11. ASSUME NEW k \in Key, Get(k)
       PROVE  UNCHANGED Map!vars
  BY <1>11, ContentKept, MapStutter DEF Get, storage, Phase
<1>12. ASSUME NEW k \in Key, NEW v \in Val, Set(k, v)
       PROVE  Map!Next
  <2>1. Content' = Content
    BY <1>12, ContentKept
  <2>2. Phase = "idle" /\ Phase' = "setting" /\ op' = [key |-> k, val |-> v]
    BY <1>12 DEF Set, Phase
  <2>3. Map!BeginSet(k, v)
    BY <2>1, <2>2 DEF Map!BeginSet
  <2> QED
    BY <2>3 DEF Map!Next
<1> QED
  BY <1>1, <1>2, <1>3, <1>4, <1>5, <1>6, <1>7, <1>8, <1>9, <1>10, <1>11, <1>12 DEF Next, Internal

\* The table is a finite function from keys to values: growing, moving and probing are
\* invisible, and each call changes what its key is bound to and nothing else, for every
\* hash function, every number of keys and every capacity (rt_hashmap_gset, hashmap_gresize,
\* rt_hashmap_gremove, rt_hashmap_grelease).
THEOREM TableIsMap == Spec => ImplementsMap
<1>1. Init => Struct /\ Map!Init
  BY StructInit, MapInit
<1>2. Struct /\ [Next]_vars => Struct' /\ [Map!Next]_(Map!vars)
  BY StructNext, MapNext
<1> QED
  BY <1>1, <1>2, PTL DEF Spec, ImplementsMap, Map!Spec

=============================================================================
