--------------------------- MODULE ImportsProofs ---------------------------
(***************************************************************************)
(* That import resolution reports a cycle exactly when there is one, and   *)
(* that what it links is closed, for any finite set of files and whatever  *)
(* they contain.                                                           *)
(*                                                                         *)
(* Cycles: the files on the stack lie on one path of the import graph, so  *)
(* a clause that leads back to one of them closes a cycle; and a call      *)
(* returns only when everything its file leads to has been resolved, so    *)
(* nothing it leads to lies on a cycle.                                    *)
(*                                                                         *)
(* Linking: what a call returns has every name collected from its items    *)
(* and in their scope (Closed): what it gathered had, the names of its     *)
(* clauses are wanted and found, and no name is left to route.             *)
(* The loops behind this (Picked, FlattenSeq) are recursive functions; a   *)
(* number at which one of them would first go wrong does not exist.        *)
(***************************************************************************)
EXTENDS Imports, SequenceTheorems, WellFoundedInduction, TLAPS

-----------------------------------------------------------------------------
(* A graph is a function from files to the files they import. *)

\* Reachable of module Imports, over a graph given as an argument.
Reach(edges, from) ==
  {f \in File : \A s \in SUBSET File :
                  from \subseteq s /\ (\A g \in s : edges[g] \subseteq s) => f \in s}

\* Nothing that p leads to leads back to itself.
Clean(edges, p) == \A f \in Reach(edges, {p}) : f \notin Reach(edges, edges[f])

\* The files reached include those one starts from.
LEMMA ReachStart ==
  ASSUME NEW edges, NEW from \in SUBSET File
  PROVE  from \subseteq Reach(edges, from)
BY DEF Reach

\* From a file that is reached one goes on to what it imports.
LEMMA ReachStep ==
  ASSUME NEW edges \in [File -> SUBSET File], NEW from, NEW a \in Reach(edges, from)
  PROVE  edges[a] \subseteq Reach(edges, from)
<1>1. a \in File
  BY DEF Reach
<1>2. ASSUME NEW b \in edges[a], NEW s \in SUBSET File,
             from \subseteq s, \A g \in s : edges[g] \subseteq s
      PROVE  b \in s
  <2>1. a \in s
    BY <1>2 DEF Reach
  <2> QED
    BY <1>2, <2>1
<1>3. edges[a] \subseteq File
  BY <1>1
<1> QED
  BY <1>2, <1>3 DEF Reach

\* What is reached lies in every set that holds the start and is closed.
LEMMA ReachWithin ==
  ASSUME NEW edges, NEW from, NEW t \in SUBSET File,
         from \subseteq t, \A g \in t : edges[g] \subseteq t
  PROVE  Reach(edges, from) \subseteq t
BY DEF Reach

\* Whoever reaches a set reaches what that set reaches.
LEMMA ReachOn ==
  ASSUME NEW edges \in [File -> SUBSET File], NEW from, NEW start,
         from \subseteq Reach(edges, start)
  PROVE  Reach(edges, from) \subseteq Reach(edges, start)
<1>1. Reach(edges, start) \in SUBSET File
  BY DEF Reach
<1>2. \A g \in Reach(edges, start) : edges[g] \subseteq Reach(edges, start)
  BY ReachStep
<1> QED
  BY <1>1, <1>2, ReachWithin

\* A file whose imports are all clean is clean itself.
LEMMA CleanUp ==
  ASSUME NEW edges \in [File -> SUBSET File], NEW p \in File,
         \A q \in edges[p] : Clean(edges, q)
  PROVE  Clean(edges, p)
<1> DEFINE below == UNION {Reach(edges, {q}) : q \in edges[p]}
<1>1. below \in SUBSET File
  BY DEF Reach
<1>2. edges[p] \subseteq below
  <2>1. \A q \in edges[p] : q \in Reach(edges, {q})
    BY ReachStart
  <2> QED
    BY <2>1
<1>3. \A g \in below : edges[g] \subseteq below
  <2>1. ASSUME NEW q \in edges[p], NEW g \in Reach(edges, {q})
        PROVE  edges[g] \subseteq below
    <3>1. edges[g] \subseteq Reach(edges, {q})
      BY ReachStep
    <3> QED
      BY <3>1
  <2> QED
    BY <2>1
<1>4. Reach(edges, edges[p]) \subseteq below
  BY <1>1, <1>2, <1>3, ReachWithin
<1>5. Reach(edges, {p}) \subseteq {p} \cup below
  <2>1. {p} \cup below \in SUBSET File
    BY <1>1
  <2>2. \A g \in {p} \cup below : edges[g] \subseteq {p} \cup below
    BY <1>2, <1>3
  <2> HIDE DEF below
  <2> QED
    BY <2>1, <2>2, ReachWithin
<1>6. ASSUME NEW f \in below PROVE f \notin Reach(edges, edges[f])
  BY <1>6 DEF Clean
<1>7. p \notin Reach(edges, edges[p])
  <2> HIDE DEF below
  <2> QED
    BY <1>4, <1>6
<1> HIDE DEF below
<1> QED
  BY <1>5, <1>6, <1>7 DEF Clean

-----------------------------------------------------------------------------
(* The invariant. *)

Edges == [f \in File |-> ImportsOf(f)]

\* The calls are records; what they gathered is of no concern here.
Calls ==
  /\ layout \in Layout
  /\ \E S : stack \in Seq(S)
  /\ Len(stack) > 0
  /\ \A i \in 1 .. Len(stack) :
       /\ {"file", "step", "next", "imported", "wanted"} \subseteq DOMAIN stack[i]
       /\ stack[i] = [x \in DOMAIN stack[i] |-> stack[i][x]]
       /\ stack[i].file \in File
       /\ stack[i].next \in Nat \ {0}

\* Every call but the innermost waits for the file its clause names.
Waiting ==
  \A i \in 1 .. Len(stack) - 1 :
    /\ stack[i].step = "gather"
    /\ stack[i].next \in DOMAIN layout[stack[i].file].imports
    /\ layout[stack[i].file].imports[stack[i].next].path = stack[i + 1].file

\* The files being loaded are those of the calls, each once.
Loading ==
  /\ loading = {stack[i].file : i \in 1 .. Len(stack)}
  /\ \A i, j \in 1 .. Len(stack) : stack[i].file = stack[j].file => i = j

\* Every call's file leads to the files of the calls inside it.
OneWay ==
  /\ stack[1].file = Main
  /\ \A i, j \in 1 .. Len(stack) :
       i < j => stack[j].file \in Reach(Edges, Edges[stack[i].file])

\* The clauses a call has passed lead to no cycle, and past the gathering they
\* are all its clauses.
Passed ==
  \A i \in 1 .. Len(stack) :
    /\ \A k \in DOMAIN layout[stack[i].file].imports :
         k < stack[i].next /\ layout[stack[i].file].imports[k].path \in File
           => Clean(Edges, layout[stack[i].file].imports[k].path)
    /\ stack[i].step # "gather" => stack[i].next > Len(layout[stack[i].file].imports)

Verdict ==
  /\ outcome = "circular" => ~ Clean(Edges, Main)
  /\ outcome = "done" => Clean(Edges, Main)

IInv == Calls /\ Waiting /\ Loading /\ OneWay /\ Passed /\ Verdict

-----------------------------------------------------------------------------
(* Stacks *)

LEMMA EdgesType == Edges \in [File -> SUBSET File]
BY DEF Edges, ImportsOf

\* The innermost call goes on.
LEMMA Replaced ==
  ASSUME NEW S, NEW s \in Seq(S), Len(s) > 0, NEW x
  PROVE  LET t == Append(SubSeq(s, 1, Len(s) - 1), x)
         IN  /\ t \in Seq(S \cup {x})
             /\ Len(t) = Len(s)
             /\ \A i \in 1 .. Len(s) - 1 : t[i] = s[i]
             /\ t[Len(s)] = x
<1> DEFINE b == SubSeq(s, 1, Len(s) - 1)
<1>1. /\ b \in Seq(S)
      /\ Len(b) = Len(s) - 1
      /\ \A i \in 1 .. Len(s) - 1 : b[i] = s[i]
  <2>1. /\ 1 \in Int /\ Len(s) - 1 \in Int
        /\ \A i \in 1 .. Len(s) - 1 : s[i] \in S
    OBVIOUS
  <2>2. /\ b \in Seq(S)
        /\ Len(b) = IF 1 <= Len(s) - 1 THEN Len(s) - 1 - 1 + 1 ELSE 0
        /\ \A i \in 1 .. Len(s) - 1 - 1 + 1 : b[i] = s[1 + i - 1]
    BY <2>1, SubSeqProperties
  <2>3. Len(s) \in Nat /\ Len(s) - 1 - 1 + 1 = Len(s) - 1
    OBVIOUS
  <2> HIDE DEF b
  <2>4. Len(b) = Len(s) - 1
    <3>1. CASE 1 <= Len(s) - 1
      BY <2>2, <2>3, <3>1
    <3>2. CASE ~ (1 <= Len(s) - 1)
      <4>1. Len(s) - 1 = 0
        BY <2>3, <3>2
      <4> QED
        BY <2>2, <3>2, <4>1
    <3> QED
      BY <3>1, <3>2
  <2>5. ASSUME NEW i \in 1 .. Len(s) - 1 PROVE b[i] = s[i]
    <3>1. i \in Int /\ 1 + i - 1 = i
      OBVIOUS
    <3> QED
      BY <2>2, <2>3, <3>1
  <2> QED
    BY <2>2, <2>4, <2>5
<1>2. b \in Seq(S \cup {x})
  BY <1>1
<1> HIDE DEF b
<1>3. /\ Append(b, x) \in Seq(S \cup {x})
      /\ Len(Append(b, x)) = Len(b) + 1
      /\ \A i \in 1 .. Len(b) : Append(b, x)[i] = b[i]
      /\ Append(b, x)[Len(b) + 1] = x
  BY <1>2
<1> QED
  BY <1>1, <1>3 DEF b

\* A call is made.
LEMMA Pushed ==
  ASSUME NEW S, NEW s \in Seq(S), NEW x
  PROVE  LET t == Append(s, x)
         IN  /\ t \in Seq(S \cup {x})
             /\ Len(t) = Len(s) + 1
             /\ \A i \in 1 .. Len(s) : t[i] = s[i]
             /\ t[Len(s) + 1] = x
<1>1. s \in Seq(S \cup {x})
  OBVIOUS
<1> QED
  BY <1>1

\* The innermost call returns to the one around it, which goes on.
LEMMA Popped ==
  ASSUME NEW S, NEW s \in Seq(S), Len(s) > 1, NEW x
  PROVE  LET b == SubSeq(s, 1, Len(s) - 1)
             t == [b EXCEPT ![Len(b)] = x]
         IN  /\ Len(b) = Len(s) - 1
             /\ b[Len(b)] = s[Len(s) - 1]
             /\ t \in Seq(S \cup {x})
             /\ Len(t) = Len(s) - 1
             /\ \A i \in 1 .. Len(s) - 2 : t[i] = s[i]
             /\ t[Len(s) - 1] = x
<1> DEFINE b == SubSeq(s, 1, Len(s) - 1)
           t == [b EXCEPT ![Len(b)] = x]
<1>1. /\ b \in Seq(S)
      /\ Len(b) = Len(s) - 1
      /\ \A i \in 1 .. Len(s) - 1 : b[i] = s[i]
  OBVIOUS
<1>2. b \in Seq(S \cup {x}) /\ DOMAIN b = 1 .. Len(s) - 1
  BY <1>1
<1> HIDE DEF b
<1>3. t \in Seq(S \cup {x})
  BY <1>1, <1>2
<1>4. Len(t) = Len(b)
  BY <1>1, <1>2, <1>3
<1>5. \A i \in 1 .. Len(s) - 1 : t[i] = IF i = Len(b) THEN x ELSE b[i]
  BY <1>1, <1>2
<1> QED
  BY <1>1, <1>3, <1>4, <1>5 DEF b

-----------------------------------------------------------------------------
(* The invariant is kept. *)

\* The innermost call goes on without a call: the clauses it passes lead nowhere
\* or to files without cycles.
LEMMA GoesOn ==
  ASSUME IInv, NEW t,
         stack' = Append(Below, t),
         UNCHANGED <<layout, loading, outcome>>,
         {"file", "step", "next", "imported", "wanted"} \subseteq DOMAIN t,
         t = [x \in DOMAIN t |-> t[x]],
         t.file = Top.file,
         t.next \in Nat \ {0},
         \A k \in DOMAIN layout[t.file].imports :
           k < t.next /\ layout[t.file].imports[k].path \in File
             => Clean(Edges, layout[t.file].imports[k].path),
         t.step # "gather" => t.next > Len(layout[t.file].imports)
  PROVE  IInv'
<1> DEFINE n == Len(stack)
<1> PICK S : stack \in Seq(S)
  BY DEF IInv, Calls
<1>1. n \in Nat /\ n > 0
  BY DEF IInv, Calls
<1>2. /\ stack' \in Seq(S \cup {t})
      /\ Len(stack') = n
      /\ \A i \in 1 .. n - 1 : stack'[i] = stack[i]
      /\ stack'[n] = t
  BY <1>1, Replaced DEF Below
<1>3. \A i \in 1 .. n : stack'[i].file = stack[i].file
  BY <1>1, <1>2 DEF Top
<1>4. Edges' = Edges
  BY DEF Edges, ImportsOf
<1>5. Calls'
  <2>1. layout' \in Layout /\ \E T : stack' \in Seq(T)
    BY <1>2 DEF IInv, Calls
  <2>2. ASSUME NEW i \in 1 .. n
        PROVE  /\ {"file", "step", "next", "imported", "wanted"} \subseteq DOMAIN stack'[i]
               /\ stack'[i] = [x \in DOMAIN stack'[i] |-> stack'[i][x]]
               /\ stack'[i].file \in File
               /\ stack'[i].next \in Nat \ {0}
    <3>1. CASE i = n
      BY <1>1, <1>2, <3>1 DEF IInv, Calls, Top
    <3>2. CASE i # n
      BY <1>1, <1>2, <3>2 DEF IInv, Calls
    <3> QED
      BY <3>1, <3>2
  <2> QED
    BY <1>1, <1>2, <2>1, <2>2 DEF Calls
<1>6. Waiting'
  BY <1>1, <1>2, <1>3 DEF IInv, Waiting
<1>7. Loading'
  BY <1>1, <1>2, <1>3 DEF IInv, Loading
<1>8. OneWay'
  BY <1>1, <1>2, <1>3, <1>4 DEF IInv, OneWay
<1>9. Passed'
  <2>1. ASSUME NEW i \in 1 .. n - 1
        PROVE  /\ \A k \in DOMAIN layout[stack[i].file].imports :
                    k < stack[i].next /\ layout[stack[i].file].imports[k].path \in File
                      => Clean(Edges, layout[stack[i].file].imports[k].path)
               /\ stack[i].step # "gather" => stack[i].next > Len(layout[stack[i].file].imports)
    BY <1>1 DEF IInv, Passed
  <2>2. ASSUME NEW i \in 1 .. n
        PROVE  /\ \A k \in DOMAIN layout[stack'[i].file].imports :
                    k < stack'[i].next /\ layout[stack'[i].file].imports[k].path \in File
                      => Clean(Edges, layout[stack'[i].file].imports[k].path)
               /\ stack'[i].step # "gather" => stack'[i].next > Len(layout[stack'[i].file].imports)
    <3>1. CASE i = n
      BY <1>2, <3>1
    <3>2. CASE i # n
      <4>1. i \in 1 .. n - 1
        BY <1>1, <3>2
      <4> QED
        BY <1>2, <2>1, <4>1
    <3> QED
      BY <3>1, <3>2
  <2> QED
    BY <1>2, <1>4, <2>2 DEF Passed
<1>10. Verdict'
  BY <1>4 DEF IInv, Verdict
<1> QED
  BY <1>5, <1>6, <1>7, <1>8, <1>9, <1>10 DEF IInv

\* A clause that a call looks at leads to a file its file imports.
LEMMA ClauseLeads ==
  ASSUME IInv, Gathering, TheClause.path \in File
  PROVE  /\ Top.file \in File
         /\ Top.next \in DOMAIN layout[Top.file].imports
         /\ TheClause.path \in Edges[Top.file]
<1>1. Len(stack) \in Nat /\ Len(stack) > 0
  BY DEF IInv, Calls
<1>2. Top.file \in File /\ Top.next \in Nat \ {0}
  <2>1. Len(stack) \in 1 .. Len(stack)
    BY <1>1
  <2> QED
    BY <2>1 DEF IInv, Calls, Top
<1>3. layout[Top.file].imports \in Seq(Clause)
  BY <1>2 DEF IInv, Calls, Layout
<1>4. Top.next \in DOMAIN layout[Top.file].imports
  BY <1>2, <1>3 DEF Gathering
<1>5. TheClause.path \in ImportsOf(Top.file)
  BY <1>4 DEF TheClause, ImportsOf
<1> QED
  BY <1>2, <1>4, <1>5 DEF Edges

\* The files being loaded lead to what the innermost of them imports.
LEMMA AllLead ==
  ASSUME IInv, Gathering, TheClause.path \in File
  PROVE  \A i \in 1 .. Len(stack) : TheClause.path \in Reach(Edges, Edges[stack[i].file])
<1> DEFINE n == Len(stack)
<1>1. n \in Nat /\ n > 0
  BY DEF IInv, Calls
<1>2. Edges \in [File -> SUBSET File]
  BY EdgesType
<1>3. /\ Top.file \in File
      /\ TheClause.path \in Edges[Top.file]
  BY ClauseLeads
<1>4. ASSUME NEW i \in 1 .. n
      PROVE  TheClause.path \in Reach(Edges, Edges[stack[i].file])
  <2>1. CASE i = n
    <3>1. stack[i].file = Top.file
      BY <2>1 DEF Top
    <3>2. Edges[Top.file] \in SUBSET File
      BY <1>2, <1>3
    <3> QED
      BY <1>3, <3>1, <3>2, ReachStart
  <2>2. CASE i # n
    <3>1. Top.file \in Reach(Edges, Edges[stack[i].file])
      BY <1>1, <2>2 DEF IInv, OneWay, Top
    <3>2. Edges[Top.file] \subseteq Reach(Edges, Edges[stack[i].file])
      BY <1>2, <3>1, ReachStep
    <3> QED
      BY <1>3, <3>2
  <2> QED
    BY <2>1, <2>2
<1> QED
  BY <1>4

\* A call is made for the file a clause names.
LEMMA CallMade ==
  ASSUME IInv, ImportFile, loading' = loading \cup {TheClause.path}
  PROVE  IInv'
<1> DEFINE n == Len(stack)
           t == Frame(TheClause.path)
<1> PICK S : stack \in Seq(S)
  BY DEF IInv, Calls
<1>1. n \in Nat /\ n > 0
  BY DEF IInv, Calls
<1>0. /\ Gathering
      /\ TheClause.path \in File
      /\ TheClause.path \notin loading
      /\ stack' = Append(stack, t)
      /\ UNCHANGED <<layout, outcome>>
  BY DEF ImportFile
<1>2. /\ stack' \in Seq(S \cup {t})
      /\ Len(stack') = n + 1
      /\ \A i \in 1 .. n : stack'[i] = stack[i]
      /\ stack'[n + 1] = t
  BY <1>0, Pushed
<1>3. Edges' = Edges
  BY <1>0 DEF Edges, ImportsOf
<1>4. /\ {"file", "step", "next", "imported", "wanted"} \subseteq DOMAIN t
      /\ t = [x \in DOMAIN t |-> t[x]]
      /\ t.file = TheClause.path
      /\ t.next = 1
      /\ t.step = "gather"
  BY DEF Frame
<1> HIDE DEF t
<1>5. Calls'
  <2>1. layout' \in Layout /\ \E T : stack' \in Seq(T)
    BY <1>0, <1>2 DEF IInv, Calls
  <2>2. ASSUME NEW i \in 1 .. n + 1
        PROVE  /\ {"file", "step", "next", "imported", "wanted"} \subseteq DOMAIN stack'[i]
               /\ stack'[i] = [x \in DOMAIN stack'[i] |-> stack'[i][x]]
               /\ stack'[i].file \in File
               /\ stack'[i].next \in Nat \ {0}
    <3>1. CASE i = n + 1
      BY <1>0, <1>2, <1>4, <3>1
    <3>2. CASE i # n + 1
      <4>1. i \in 1 .. n
        BY <1>1, <3>2
      <4> QED
        BY <1>2, <4>1 DEF IInv, Calls
    <3> QED
      BY <3>1, <3>2
  <2> QED
    BY <1>1, <1>2, <2>1, <2>2 DEF Calls
<1>6. Waiting'
  <2>1. ASSUME NEW i \in 1 .. n
        PROVE  /\ stack[i].step = "gather"
               /\ stack[i].next \in DOMAIN layout[stack[i].file].imports
               /\ layout[stack[i].file].imports[stack[i].next].path = stack'[i + 1].file
    <3>1. CASE i = n
      <4>1. stack[i] = Top
        BY <3>1 DEF Top
      <4>2. Top.step = "gather" /\ Top.next \in DOMAIN layout[Top.file].imports
        BY <1>0, ClauseLeads DEF Gathering
      <4> QED
        BY <1>2, <1>4, <3>1, <4>1, <4>2 DEF TheClause
    <3>2. CASE i # n
      <4>1. i \in 1 .. n - 1 /\ i + 1 \in 1 .. n
        BY <1>1, <3>2
      <4> QED
        BY <1>2, <4>1 DEF IInv, Waiting
    <3> QED
      BY <3>1, <3>2
  <2> QED
    BY <1>0, <1>1, <1>2, <2>1 DEF Waiting
<1>7. Loading'
  <2>1. loading' = {stack'[i].file : i \in 1 .. n + 1}
    <3>1. \A i \in 1 .. n + 1 : i \in 1 .. n \/ i = n + 1
      BY <1>1
    <3>2. \A i \in 1 .. n : i \in 1 .. n + 1
      BY <1>1
    <3>3. n + 1 \in 1 .. n + 1
      BY <1>1
    <3>4. loading = {stack[i].file : i \in 1 .. n}
      BY DEF IInv, Loading
    <3> QED
      BY <1>2, <1>4, <3>1, <3>2, <3>3, <3>4
  <2>2. \A i \in 1 .. n : stack[i].file # TheClause.path
    BY <1>0 DEF IInv, Loading
  <2>3. \A i, j \in 1 .. n + 1 : stack'[i].file = stack'[j].file => i = j
    BY <1>1, <1>2, <1>4, <2>2 DEF IInv, Loading
  <2> QED
    BY <1>2, <2>1, <2>3 DEF Loading
<1>8. OneWay'
  <2>1. \A i \in 1 .. n : TheClause.path \in Reach(Edges, Edges[stack[i].file])
    BY <1>0, AllLead
  <2>2. ASSUME NEW i \in 1 .. n + 1, NEW j \in 1 .. n + 1, i < j
        PROVE  stack'[j].file \in Reach(Edges, Edges[stack'[i].file])
    <3>1. i \in 1 .. n
      BY <1>1, <2>2
    <3>2. CASE j = n + 1
      BY <1>2, <1>4, <2>1, <3>1, <3>2
    <3>3. CASE j # n + 1
      <4>1. j \in 1 .. n
        BY <1>1, <3>3
      <4> QED
        BY <1>2, <2>2, <3>1, <4>1 DEF IInv, OneWay
    <3> QED
      BY <3>2, <3>3
  <2>3. stack'[1].file = Main
    BY <1>1, <1>2 DEF IInv, OneWay
  <2> QED
    BY <1>2, <1>3, <2>2, <2>3 DEF OneWay
<1>9. Passed'
  <2>1. ASSUME NEW i \in 1 .. n + 1
        PROVE  /\ \A k \in DOMAIN layout[stack'[i].file].imports :
                    k < stack'[i].next /\ layout[stack'[i].file].imports[k].path \in File
                      => Clean(Edges, layout[stack'[i].file].imports[k].path)
               /\ stack'[i].step # "gather" => stack'[i].next > Len(layout[stack'[i].file].imports)
    <3>1. CASE i = n + 1
      <4>1. layout[TheClause.path].imports \in Seq(Clause)
        BY <1>0 DEF IInv, Calls, Layout
      <4>2. \A k \in DOMAIN layout[TheClause.path].imports : ~ (k < 1)
        BY <4>1
      <4> QED
        BY <1>2, <1>4, <3>1, <4>2
    <3>2. CASE i # n + 1
      <4>1. i \in 1 .. n
        BY <1>1, <3>2
      <4> QED
        BY <1>2, <4>1 DEF IInv, Passed
    <3> QED
      BY <3>1, <3>2
  <2> QED
    BY <1>0, <1>2, <1>3, <2>1 DEF Passed
<1>10. Verdict'
  BY <1>0, <1>3 DEF IInv, Verdict
<1> QED
  BY <1>5, <1>6, <1>7, <1>8, <1>9, <1>10 DEF IInv

\* A clause that leads to a file being loaded closes a cycle Main leads to.
LEMMA ClosesCycle ==
  ASSUME IInv, ImportCircular
  PROVE  ~ Clean(Edges, Main)
<1> DEFINE p == TheClause.path
<1>1. /\ Gathering
      /\ p \in loading
  BY DEF ImportCircular
<1>2. PICK i \in 1 .. Len(stack) : p = stack[i].file
  BY <1>1 DEF IInv, Loading
<1>3. p \in File /\ Len(stack) \in Nat /\ Len(stack) > 0
  <2>1. Len(stack) > 0 /\ \E S : stack \in Seq(S)
    BY DEF IInv, Calls
  <2>2. stack[i].file \in File
    BY DEF IInv, Calls
  <2> QED
    BY <1>2, <2>1, <2>2
<1>4. p \in Reach(Edges, Edges[p])
  BY <1>1, <1>2, <1>3, AllLead
<1>5. Edges \in [File -> SUBSET File]
  BY EdgesType
<1>6. p \in Reach(Edges, Edges[Main])
  BY <1>1, <1>3, AllLead DEF IInv, OneWay
<1>7. p \in Reach(Edges, {Main})
  <2>1. {Main} \in SUBSET File
    BY MainAssumption
  <2>2. Main \in Reach(Edges, {Main})
    BY <2>1, ReachStart
  <2>3. Edges[Main] \subseteq Reach(Edges, {Main})
    BY <1>5, <2>2, ReachStep
  <2>4. Reach(Edges, Edges[Main]) \subseteq Reach(Edges, {Main})
    BY <1>5, <2>3, ReachOn
  <2> QED
    BY <1>6, <2>4
<1> QED
  BY <1>4, <1>7 DEF Clean

\* A call that returns leaves nothing its file leads to on a cycle.
LEMMA AllClean ==
  ASSUME IInv, Top.step = "extract"
  PROVE  Top.file \in File /\ Clean(Edges, Top.file)
<1> DEFINE imports == layout[Top.file].imports
<1>1. Len(stack) \in 1 .. Len(stack)
  BY DEF IInv, Calls
<1>2. Top.file \in File /\ Top.next \in Nat \ {0}
  BY <1>1 DEF IInv, Calls, Top
<1>3. imports \in Seq(Clause)
  BY <1>2 DEF IInv, Calls, Layout
<1>4. Top.next > Len(imports)
  BY <1>1 DEF IInv, Passed, Top
<1>5. \A k \in DOMAIN imports :
        k < Top.next /\ imports[k].path \in File => Clean(Edges, imports[k].path)
  BY <1>1 DEF IInv, Passed, Top
<1>6. \A k \in DOMAIN imports : k < Top.next
  BY <1>2, <1>3, <1>4
<1>7. \A q \in Edges[Top.file] : Clean(Edges, q)
  BY <1>2, <1>5, <1>6 DEF Edges, ImportsOf
<1> QED
  BY <1>2, <1>7, EdgesType, CleanUp

\* A call returns to the one that made it.
LEMMA CallReturns ==
  ASSUME IInv, Extract, loading' = loading \ {Top.file}
  PROVE  IInv'
<1> DEFINE n == Len(stack)
           caller == Below[Len(Below)]
           clause == layout[caller.file].imports[caller.next]
           t == [caller EXCEPT !.next = @ + 1,
                   !.imported = Append(@, [items |-> Resolved, names |-> clause.names])]
<1> PICK S : stack \in Seq(S)
  BY DEF IInv, Calls
<1>0. /\ Top.step = "extract"
      /\ n > 1
      /\ stack' = [Below EXCEPT ![Len(Below)] = t]
      /\ UNCHANGED <<layout, outcome>>
  <2>1. Top.step = "extract" /\ Len(stack) > 1 /\ layout' = layout /\ outcome' = outcome
    BY DEF Extract
  <2>2. stack' = [Below EXCEPT ![Len(Below)] = t]
    BY Zenon DEF Extract
  <2> QED
    BY <2>1, <2>2
<1>1. n \in Nat /\ n - 1 \in 1 .. n - 1 /\ n - 1 \in 1 .. n /\ n \in 1 .. n
  BY <1>0
<1>2. /\ caller = stack[n - 1]
      /\ stack' \in Seq(S \cup {t})
      /\ Len(stack') = n - 1
      /\ \A i \in 1 .. n - 2 : stack'[i] = stack[i]
      /\ stack'[n - 1] = t
  <2> HIDE DEF t
  <2> QED
    BY <1>0, Popped DEF Below
<1>3. Edges' = Edges
  BY <1>0 DEF Edges, ImportsOf
<1>4. /\ {"file", "step", "next", "imported", "wanted"} \subseteq DOMAIN caller
      /\ caller = [x \in DOMAIN caller |-> caller[x]]
      /\ caller.file \in File
      /\ caller.next \in Nat \ {0}
  <2> HIDE DEF caller
  <2> QED
    BY <1>1, <1>2 DEF IInv, Calls
<1>5. /\ caller.step = "gather"
      /\ caller.next \in DOMAIN layout[caller.file].imports
      /\ layout[caller.file].imports[caller.next].path = Top.file
  <2>1. n - 1 + 1 = n
    BY <1>1
  <2> HIDE DEF caller
  <2> QED
    BY <1>1, <1>2, <2>1 DEF IInv, Waiting, Top
<1> HIDE DEF caller, clause
<1>6. /\ DOMAIN t = DOMAIN caller
      /\ t = [x \in DOMAIN t |-> t[x]]
      /\ t.file = caller.file
      /\ t.next = caller.next + 1
      /\ t.step = "gather"
  BY <1>4, <1>5
<1> HIDE DEF t
<1>7. Top.file \in File /\ Clean(Edges, Top.file)
  BY <1>0, AllClean
<1>8. \A i \in 1 .. n - 1 : stack'[i].file = stack[i].file
  BY <1>1, <1>2, <1>6
<1>9. Calls'
  <2>1. layout' \in Layout /\ \E T : stack' \in Seq(T)
    BY <1>0, <1>2 DEF IInv, Calls
  <2>2. ASSUME NEW i \in 1 .. n - 1
        PROVE  /\ {"file", "step", "next", "imported", "wanted"} \subseteq DOMAIN stack'[i]
               /\ stack'[i] = [x \in DOMAIN stack'[i] |-> stack'[i][x]]
               /\ stack'[i].file \in File
               /\ stack'[i].next \in Nat \ {0}
    <3>1. CASE i = n - 1
      <4>1. caller.next + 1 \in Nat \ {0}
        BY <1>4
      <4> QED
        BY <1>2, <1>4, <1>6, <3>1, <4>1
    <3>2. CASE i # n - 1
      <4>1. i \in 1 .. n - 2 /\ i \in 1 .. n
        BY <1>1, <3>2
      <4> QED
        BY <1>2, <4>1 DEF IInv, Calls
    <3> QED
      BY <3>1, <3>2
  <2>3. Len(stack') > 0
    BY <1>0, <1>1, <1>2
  <2> QED
    BY <1>2, <2>1, <2>2, <2>3 DEF Calls
<1>10. Waiting'
  <2>1. ASSUME NEW i \in 1 .. n - 2
        PROVE  /\ stack'[i].step = "gather"
               /\ stack'[i].next \in DOMAIN layout[stack'[i].file].imports
               /\ layout[stack'[i].file].imports[stack'[i].next].path = stack'[i + 1].file
    <3>1. i \in 1 .. n - 1 /\ i + 1 \in 1 .. n - 1
      BY <1>1
    <3> QED
      BY <1>2, <1>8, <3>1 DEF IInv, Waiting
  <2>2. n - 1 - 1 = n - 2
    BY <1>1
  <2> QED
    BY <1>0, <1>2, <2>1, <2>2 DEF Waiting
<1>11. Loading'
  <2>1. loading' = {stack'[i].file : i \in 1 .. n - 1}
    <3>1. \A i \in 1 .. n : i \in 1 .. n - 1 \/ i = n
      BY <1>1
    <3>2. \A i \in 1 .. n - 1 : i \in 1 .. n /\ i # n
      BY <1>1
    <3>3. loading = {stack[i].file : i \in 1 .. n}
      BY DEF IInv, Loading
    <3>4. \A i \in 1 .. n - 1 : stack[i].file # stack[n].file
      BY <1>1, <3>2 DEF IInv, Loading
    <3> QED
      BY <1>8, <3>1, <3>2, <3>3, <3>4 DEF Top
  <2>2. \A i \in 1 .. n - 1 : i \in 1 .. n
    BY <1>1
  <2>3. \A i, j \in 1 .. n - 1 : stack'[i].file = stack'[j].file => i = j
    BY <1>8, <2>2 DEF IInv, Loading
  <2> QED
    BY <1>2, <2>1, <2>3 DEF Loading
<1>12. OneWay'
  <2>1. \A i \in 1 .. n - 1 : i \in 1 .. n
    BY <1>1
  <2>2. 1 \in 1 .. n - 1
    BY <1>1
  <2> QED
    BY <1>2, <1>3, <1>8, <2>1, <2>2 DEF IInv, OneWay
<1>13. Passed'
  <2>1. ASSUME NEW i \in 1 .. n - 1
        PROVE  /\ \A k \in DOMAIN layout[stack'[i].file].imports :
                    k < stack'[i].next /\ layout[stack'[i].file].imports[k].path \in File
                      => Clean(Edges, layout[stack'[i].file].imports[k].path)
               /\ stack'[i].step # "gather" => stack'[i].next > Len(layout[stack'[i].file].imports)
    <3>1. CASE i = n - 1
      <4>1. layout[caller.file].imports \in Seq(Clause)
        BY <1>4 DEF IInv, Calls, Layout
      <4>2. ASSUME NEW k \in DOMAIN layout[caller.file].imports,
                   k < caller.next + 1,
                   layout[caller.file].imports[k].path \in File
            PROVE  Clean(Edges, layout[caller.file].imports[k].path)
        <5>1. CASE k = caller.next
          BY <1>5, <1>7, <5>1
        <5>2. CASE k # caller.next
          <6>1. k < caller.next
            BY <1>4, <4>1, <4>2, <5>2
          <6> QED
            BY <1>1, <1>2, <4>2, <6>1 DEF IInv, Passed
        <5> QED
          BY <5>1, <5>2
      <4> QED
        BY <1>2, <1>6, <3>1, <4>2
    <3>2. CASE i # n - 1
      <4>1. i \in 1 .. n - 2 /\ i \in 1 .. n
        BY <1>1, <3>2
      <4> QED
        BY <1>2, <4>1 DEF IInv, Passed
    <3> QED
      BY <3>1, <3>2
  <2> QED
    BY <1>0, <1>2, <1>3, <2>1 DEF Passed
<1>14. Verdict'
  BY <1>0, <1>3 DEF IInv, Verdict
<1> QED
  BY <1>9, <1>10, <1>11, <1>12, <1>13, <1>14 DEF IInv

-----------------------------------------------------------------------------
(* The theorem. *)

LEMMA Begins == Init => IInv
<1> SUFFICES ASSUME Init
             PROVE  IInv
  OBVIOUS
<1> DEFINE t == Frame(Main)
<1>1. stack = <<t>> /\ loading = {Main} /\ outcome = "running" /\ layout \in Layout
  BY LayoutAssumption DEF Init
<1>2. /\ {"file", "step", "next", "imported", "wanted"} \subseteq DOMAIN t
      /\ t = [x \in DOMAIN t |-> t[x]]
      /\ t.file = Main
      /\ t.next = 1
      /\ t.step = "gather"
  BY DEF Frame
<1> HIDE DEF t
<1>3. stack \in Seq({t}) /\ Len(stack) = 1 /\ stack[1] = t
  BY <1>1
<1>4. Calls
  <2>1. \A i \in 1 .. Len(stack) : stack[i] = t
    BY <1>3
  <2>2. 1 \in Nat \ {0} /\ Len(stack) > 0
    BY <1>3
  <2> QED
    BY <1>1, <1>2, <1>3, <2>1, <2>2, MainAssumption DEF Calls
<1>5. Waiting
  BY <1>3 DEF Waiting
<1>6. Loading
  BY <1>1, <1>2, <1>3 DEF Loading
<1>7. OneWay
  BY <1>2, <1>3 DEF OneWay
<1>8. Passed
  <2>1. layout[Main].imports \in Seq(Clause)
    BY <1>1, MainAssumption DEF Layout
  <2>2. \A k \in DOMAIN layout[Main].imports : ~ (k < 1)
    BY <2>1
  <2> QED
    BY <1>2, <1>3, <2>2 DEF Passed
<1>9. Verdict
  BY <1>1 DEF Verdict
<1> QED
  BY <1>4, <1>5, <1>6, <1>7, <1>8, <1>9 DEF IInv

\* Every step keeps the invariant.
LEMMA Keeps == IInv /\ [Next]_vars => IInv'
<1> USE DEF Loaded, Unloaded
<1> SUFFICES ASSUME IInv, [Next]_vars
             PROVE  IInv'
  OBVIOUS
<1>1. Edges' = Edges
  BY DEF Edges, ImportsOf, vars, Next, ImportStd, ImportMissing, ImportCircular,
     ImportUnparsable, ImportFile, Seed, Expand, ExtractFails, Extract, Finish, Fail
<1>2. ASSUME NEW reason, Fail(reason), reason # "done",
             reason = "circular" => ~ Clean(Edges, Main)
      PROVE  IInv'
  <2>1. Calls' /\ Waiting' /\ Loading'
    BY <1>2 DEF IInv, Calls, Waiting, Loading, Fail
  <2>2. OneWay' /\ Passed'
    BY <1>1, <1>2 DEF IInv, OneWay, Passed, Fail
  <2>3. Verdict'
    BY <1>1, <1>2 DEF Verdict, Fail
  <2> QED
    BY <2>1, <2>2, <2>3 DEF IInv
<1>3. /\ {"file", "step", "next", "imported", "wanted"} \subseteq DOMAIN Top
      /\ Top = [x \in DOMAIN Top |-> Top[x]]
      /\ Top.file \in File
      /\ Top.next \in Nat \ {0}
      /\ layout[Top.file].imports \in Seq(Clause)
      /\ \A k \in DOMAIN layout[Top.file].imports :
           k < Top.next /\ layout[Top.file].imports[k].path \in File
             => Clean(Edges, layout[Top.file].imports[k].path)
      /\ Top.step # "gather" => Top.next > Len(layout[Top.file].imports)
  <2>1. Len(stack) \in 1 .. Len(stack)
    BY DEF IInv, Calls
  <2>2. /\ {"file", "step", "next", "imported", "wanted"} \subseteq DOMAIN Top
        /\ Top = [x \in DOMAIN Top |-> Top[x]]
        /\ Top.file \in File
        /\ Top.next \in Nat \ {0}
    BY <2>1 DEF IInv, Calls, Top
  <2>3. layout[Top.file].imports \in Seq(Clause)
    BY <2>2 DEF IInv, Calls, Layout
  <2> QED
    BY <2>1, <2>2, <2>3 DEF IInv, Passed, Top
<1>4. CASE ImportStd
  <2>1. CASE TheClause.names \subseteq StdNames
    <3> DEFINE t == [Top EXCEPT !.next = @ + 1]
    <3>1. /\ Gathering
          /\ TheClause.path = "std"
          /\ stack' = Append(Below, t)
          /\ UNCHANGED <<layout, loading, outcome>>
      BY <1>4, <2>1 DEF ImportStd
    <3>2. /\ DOMAIN t = DOMAIN Top
          /\ t = [x \in DOMAIN t |-> t[x]]
          /\ t.file = Top.file
          /\ t.next = Top.next + 1
          /\ t.step = "gather"
      BY <1>3, <3>1 DEF Gathering
    <3> HIDE DEF t
    <3>3. ASSUME NEW k \in DOMAIN layout[Top.file].imports,
                 k < Top.next + 1,
                 layout[Top.file].imports[k].path \in File
          PROVE  Clean(Edges, layout[Top.file].imports[k].path)
      <4>1. CASE k = Top.next
        BY <3>1, <3>3, <4>1, PathAssumption DEF TheClause
      <4>2. CASE k # Top.next
        <5>1. k < Top.next
          BY <1>3, <3>3, <4>2
        <5> QED
          BY <1>3, <3>3, <5>1
      <4> QED
        BY <4>1, <4>2
    <3>4. t.next \in Nat \ {0}
      BY <1>3, <3>2
    <3> QED
      BY <1>3, <3>1, <3>2, <3>3, <3>4, GoesOn
  <2>2. CASE ~ (TheClause.names \subseteq StdNames)
    BY <1>2, <1>4, <2>2 DEF ImportStd
  <2> QED
    BY <2>1, <2>2
<1>5. CASE ImportMissing
  BY <1>2, <1>5 DEF ImportMissing
<1>6. CASE ImportCircular
  BY <1>2, <1>6, ClosesCycle DEF ImportCircular
<1>7. CASE ImportUnparsable
  BY <1>2, <1>7 DEF ImportUnparsable
<1>8. CASE ImportFile
  BY <1>8, CallMade DEF ImportFile
<1>9. CASE Seed
  <2> DEFINE t == [Top EXCEPT !.step = "expand",
                     !.wanted = [i \in DOMAIN Top.imported |-> Top.imported[i].names]]
  <2>1. /\ Top.next > Len(layout[Top.file].imports)
        /\ stack' = Append(Below, t)
        /\ UNCHANGED <<layout, loading, outcome>>
    BY <1>9 DEF Seed
  <2>2. /\ DOMAIN t = DOMAIN Top
        /\ t = [x \in DOMAIN t |-> t[x]]
        /\ t.file = Top.file
        /\ t.next = Top.next
    BY <1>3
  <2> HIDE DEF t
  <2> QED
    BY <1>3, <2>1, <2>2, GoesOn
<1>10. CASE Expand
  <2> DEFINE more == [i \in DOMAIN Top.imported |-> Top.wanted[i] \cup Route(i)]
             t == [Top EXCEPT !.wanted = more,
                     !.step = IF more = Top.wanted THEN "extract" ELSE "expand"]
  <2>1. /\ Top.step = "expand"
        /\ stack' = Append(Below, t)
        /\ UNCHANGED <<layout, loading, outcome>>
    BY <1>10 DEF Expand
  <2>2. /\ DOMAIN t = DOMAIN Top
        /\ t = [x \in DOMAIN t |-> t[x]]
        /\ t.file = Top.file
        /\ t.next = Top.next
    BY <1>3
  <2> HIDE DEF t
  <2> QED
    BY <1>3, <2>1, <2>2, GoesOn
<1>11. CASE ExtractFails
  BY <1>2, <1>11 DEF ExtractFails
<1>12. CASE Extract
  BY <1>12, CallReturns DEF Extract
<1>13. CASE Finish
  <2>1. /\ Len(stack) = 1
        /\ Top.step = "extract"
        /\ outcome' = "done"
        /\ UNCHANGED <<layout, stack, loading>>
    BY <1>13 DEF Finish
  <2>2. layout' = layout /\ stack' = stack /\ loading' = loading
    BY <2>1
  <2>3. Calls' /\ Waiting' /\ Loading' /\ OneWay' /\ Passed'
    <3>1. Calls' /\ Waiting' /\ Loading'
      BY <2>2 DEF IInv, Calls, Waiting, Loading
    <3>2. OneWay' /\ Passed'
      BY <1>1, <2>2 DEF IInv, OneWay, Passed
    <3> QED
      BY <3>1, <3>2
  <2>4. Clean(Edges, Main)
    BY <2>1, AllClean DEF IInv, OneWay, Top
  <2>5. Verdict'
    BY <1>1, <2>1, <2>4 DEF Verdict
  <2> QED
    BY <2>3, <2>5 DEF IInv
<1>14. CASE UNCHANGED vars
  <2>1. Calls' /\ Waiting' /\ Loading'
    BY <1>14 DEF IInv, Calls, Waiting, Loading, vars
  <2>2. OneWay' /\ Passed' /\ Verdict'
    BY <1>1, <1>14 DEF IInv, OneWay, Passed, Verdict, vars
  <2> QED
    BY <2>1, <2>2 DEF IInv
<1> QED
  BY <1>4, <1>5, <1>6, <1>7, <1>8, <1>9, <1>10, <1>11, <1>12, <1>13, <1>14 DEF Next

\* CyclesExact of module Imports: when resolution ends with the error "circular
\* import" (imports.rs) there is a cycle among the files Main leads to, and when
\* it ends well there is none; a file imported twice on different ways is none.
THEOREM CyclesAreExact == Spec => []CyclesExact
<1>1. IInv /\ [Next]_vars => IInv'
  BY Keeps
<1>2. IInv => CyclesExact
  <2>1. ASSUME NEW from PROVE Reachable(from) = Reach(Edges, from)
    <3>1. \A g \in File : Edges[g] = ImportsOf(g)
      BY DEF Edges
    <3> QED
      BY <3>1 DEF Reachable, Reach
  <2>2. Reachable({Main}) \subseteq File
    BY DEF Reachable
  <2>3. \A f \in File : Edges[f] = ImportsOf(f)
    BY DEF Edges
  <2>4. (\E f \in Reachable({Main}) : f \in Reachable(ImportsOf(f))) <=> ~ Clean(Edges, Main)
    BY <2>1, <2>2, <2>3 DEF Clean
  <2> QED
    BY <2>4 DEF IInv, Verdict, CyclesExact
<1> QED
  BY <1>1, <1>2, Begins, PTL DEF Spec

-----------------------------------------------------------------------------
(* What the loops of the module return. *)

\* A set of numbers that is not empty has a smallest.
LEMMA Smallest ==
  ASSUME NEW S \in SUBSET Nat, S # {}
  PROVE  \E m \in S : \A k \in S : m <= k
<1> DEFINE R == {ss \in Nat \X Nat : ss[1] < ss[2]}
<1>1. IsWellFoundedOn(R, Nat)
  BY NatLessThanWellFounded DEF OpToRel
<1>2. \A x, y \in Nat : <<y, x>> \in R <=> y < x
  OBVIOUS
<1> HIDE DEF R
<1>3. PICK x \in S : \A y \in S : ~ (<<y, x>> \in R)
  BY <1>1, WFMin
<1>4. ASSUME NEW y \in S PROVE x <= y
  <2>1. x \in Nat /\ y \in Nat
    BY <1>3
  <2>2. ~ (y < x)
    BY <1>2, <1>3, <2>1
  <2> QED
    BY <2>1, <2>2
<1> QED
  BY <1>3, <1>4

\* What holds at 0 and goes on from each number to the next holds up to n.
LEMMA UpTo ==
  ASSUME NEW n \in Nat, NEW T, 0 \in T, \A i \in 1 .. n : i - 1 \in T => i \in T
  PROVE  \A i \in 0 .. n : i \in T
<1> DEFINE S == {i \in 0 .. n : i \notin T}
<1>1. SUFFICES ASSUME S # {} PROVE FALSE
  OBVIOUS
<1>2. PICK m \in S : \A k \in S : m <= k
  <2>1. S \in SUBSET Nat
    OBVIOUS
  <2> HIDE DEF S
  <2> QED
    BY <1>1, <2>1, Smallest
<1>3. m \in 1 .. n /\ m - 1 \in 0 .. n /\ ~ (m <= m - 1)
  BY <1>2
<1>4. m - 1 \in T
  BY <1>2, <1>3
<1> QED
  BY <1>2, <1>3, <1>4

\* f tells what a loop over 1 .. n that starts with a has after each round.
Iterates(f, X, a, n, step) ==
  f \in [0 .. n -> X] /\ f[0] = a /\ \A i \in 1 .. n : f[i] = step[i][f[i - 1]]

\* There is one.
LEMMA Iterated ==
  ASSUME NEW X, NEW a, NEW n, NEW step, a \in X, n \in Nat, step \in [1 .. n -> [X -> X]]
  PROVE  \E f : Iterates(f, X, a, n, step)
<1> DEFINE Runs(m) == {f \in [0 .. m -> X] : f[0] = a /\ \A i \in 1 .. m : f[i] = step[i][f[i - 1]]}
           T == {m \in 0 .. n : Runs(m) # {}}
<1>1. 0 \in T
  <2>1. [i \in 0 .. 0 |-> a] \in Runs(0)
    OBVIOUS
  <2> QED
    BY <2>1
<1>2. ASSUME NEW m \in 1 .. n, m - 1 \in T
      PROVE  m \in T
  <2>1. PICK f : f \in Runs(m - 1)
    BY <1>2
  <2>2. m - 1 \in Nat /\ m - 1 \in 0 .. m - 1 /\ f[m - 1] \in X
    BY <2>1
  <2> DEFINE g == [i \in 0 .. m |-> IF i = m THEN step[m][f[m - 1]] ELSE f[i]]
  <2>3. g \in [0 .. m -> X]
    BY <2>1, <2>2
  <2>4. g[0] = a
    BY <2>1, <2>2
  <2>5. ASSUME NEW i \in 1 .. m PROVE g[i] = step[i][g[i - 1]]
    <3>1. CASE i = m
      BY <2>2, <3>1
    <3>2. CASE i # m
      <4>1. i \in 1 .. m - 1 /\ i \in 0 .. m /\ i - 1 \in 0 .. m /\ i - 1 # m
        BY <3>2
      <4>2. g[i] = f[i] /\ g[i - 1] = f[i - 1]
        BY <3>2, <4>1
      <4> QED
        BY <2>1, <4>1, <4>2
    <3> QED
      BY <3>1, <3>2
  <2>6. g \in Runs(m)
    BY <2>3, <2>4, <2>5
  <2> QED
    BY <2>6
<1>3. n \in T
  <2>1. \A i \in 0 .. n : i \in T
    <3> HIDE DEF T
    <3> QED
      BY <1>1, <1>2, UpTo
  <2> QED
    BY <2>1
<1> QED
  BY <1>3 DEF Iterates

\* The loop of Picked.
LEMMA PickedSteps ==
  ASSUME NEW X, NEW items \in Seq(X), NEW positions
  PROVE  \E kept \in [0 .. Len(items) -> Seq(X)] :
           /\ kept[0] = <<>>
           /\ \A i \in 1 .. Len(items) :
                kept[i] = IF i \in positions THEN Append(kept[i - 1], items[i]) ELSE kept[i - 1]
           /\ Picked(items, positions) = kept[Len(items)]
<1> DEFINE n == Len(items)
           step == [i \in 1 .. n |-> [s \in Seq(X) |->
                      IF i \in positions THEN Append(s, items[i]) ELSE s]]
           Body(k) == [i \in 0 .. n |->
                         IF i = 0 THEN <<>>
                         ELSE IF i \in positions THEN Append(k[i - 1], items[i]) ELSE k[i - 1]]
           kept == CHOOSE k : k = Body(k)
<1>1. n \in Nat /\ step \in [1 .. n -> [Seq(X) -> Seq(X)]] /\ <<>> \in Seq(X)
  <2>1. \A i \in 1 .. n : items[i] \in X
    OBVIOUS
  <2> QED
    BY <2>1
<1>2. PICK f \in [0 .. n -> Seq(X)] : f[0] = <<>> /\ \A i \in 1 .. n : f[i] = step[i][f[i - 1]]
  <2> DEFINE Y == Seq(X)
             a == <<>>
  <2>1. n \in Nat /\ step \in [1 .. n -> [Y -> Y]] /\ a \in Y
    BY <1>1
  <2> HIDE DEF step, n, Y, a
  <2>2. \E f : Iterates(f, Y, a, n, step)
    BY <2>1, Iterated
  <2> QED
    BY <2>2 DEF Y, a, Iterates
<1>3. ASSUME NEW i \in 1 .. n
      PROVE  f[i] = IF i \in positions THEN Append(f[i - 1], items[i]) ELSE f[i - 1]
  <2>1. i - 1 \in 0 .. n
    BY <1>1
  <2> QED
    BY <1>2, <2>1
<1>4. f = Body(f)
  <2>1. \A i \in 0 .. n : i = 0 \/ i \in 1 .. n
    BY <1>1
  <2>2. \A i \in 0 .. n : f[i] = Body(f)[i]
    BY <1>2, <1>3, <2>1
  <2> QED
    BY <1>2, <2>2
<1>5. kept = Body(kept)
  <2> HIDE DEF Body
  <2> QED
    BY <1>4
<1>6. kept[0] = <<>> /\ \A i \in 1 .. n :
        kept[i] = IF i \in positions THEN Append(kept[i - 1], items[i]) ELSE kept[i - 1]
  <2>1. 0 \in 0 .. n /\ \A i \in 1 .. n : i \in 0 .. n /\ i # 0
    BY <1>1
  <2>2. \A i \in 0 .. n : kept[i] = Body(kept)[i]
    BY <1>5
  <2> HIDE DEF kept
  <2> QED
    BY <2>1, <2>2
<1>7. ASSUME NEW i \in 0 .. n PROVE kept[i] = f[i]
  <2> DEFINE T == {j \in 0 .. n : kept[j] = f[j]}
  <2>1. 0 \in T
    BY <1>1, <1>2, <1>6
  <2>2. ASSUME NEW j \in 1 .. n, j - 1 \in T PROVE j \in T
    <3>1. j \in 0 .. n /\ kept[j - 1] = f[j - 1]
      BY <2>2
    <3>2. kept[j] = f[j]
      <4> HIDE DEF kept
      <4> QED
        BY <1>3, <1>6, <3>1
    <3> QED
      BY <3>1, <3>2
  <2>3. \A j \in 0 .. n : j \in T
    <3> HIDE DEF T
    <3> QED
      BY <1>1, <2>1, <2>2, UpTo
  <2> QED
    BY <2>3
<1>8. Picked(items, positions) = kept[n]
  BY DEF Picked
<1>9. Picked(items, positions) = f[n]
  <2> HIDE DEF kept
  <2> QED
    BY <1>1, <1>7, <1>8
<1> QED
  BY <1>2, <1>3, <1>9

\* How the items that were picked correspond to the positions: one each.
Matching(s, items, places, e) ==
  /\ e \in [1 .. Len(s) -> places]
  /\ \A k \in 1 .. Len(s) : s[k] = items[e[k]]
  /\ \A k, l \in 1 .. Len(s) : e[k] = e[l] => k = l
  /\ \A i \in places : \E k \in 1 .. Len(s) : e[k] = i

\* One item more.
LEMMA MatchingGrows ==
  ASSUME NEW X, NEW items \in Seq(X), NEW s \in Seq(X), NEW places, NEW e,
         NEW i \in 1 .. Len(items), i \notin places, Matching(s, items, places, e)
  PROVE  \E g : Matching(Append(s, items[i]), items, places \cup {i}, g)
<1> DEFINE n == Len(s)
           t == Append(s, items[i])
           g == [k \in 1 .. n + 1 |-> IF k = n + 1 THEN i ELSE e[k]]
<1>1. n \in Nat /\ items[i] \in X
  OBVIOUS
<1>2. /\ Len(t) = n + 1 /\ t[n + 1] = items[i]
      /\ \A k \in 1 .. n : t[k] = s[k]
  BY <1>1
<1>3. /\ e \in [1 .. n -> places]
      /\ \A k \in 1 .. n : s[k] = items[e[k]]
      /\ \A k, l \in 1 .. n : e[k] = e[l] => k = l
      /\ \A j \in places : \E k \in 1 .. n : e[k] = j
  BY DEF Matching
<1> HIDE DEF n, t
<1>4. ASSUME NEW k \in 1 .. n + 1, k # n + 1 PROVE k \in 1 .. n
  <2>1. n \in Nat
    BY <1>1
  <2> QED
    BY <1>4, <2>1
<1>5. n + 1 \in 1 .. n + 1 /\ \A k \in 1 .. n : k \in 1 .. n + 1 /\ k # n + 1
  BY <1>1
<1>6. g[n + 1] = i /\ \A k \in 1 .. n : g[k] = e[k] /\ g[k] \in places /\ g[k] # i
  BY <1>3, <1>5
<1>7. g \in [1 .. n + 1 -> places \cup {i}]
  BY <1>3, <1>4
<1> HIDE DEF g
<1>8. \A k \in 1 .. n + 1 : t[k] = items[g[k]]
  BY <1>2, <1>3, <1>4, <1>6
<1>9. \A k, l \in 1 .. n + 1 : g[k] = g[l] => k = l
  BY <1>3, <1>4, <1>6
<1>10. \A j \in places \cup {i} : \E k \in 1 .. n + 1 : g[k] = j
  <2>1. ASSUME NEW j \in places PROVE \E k \in 1 .. n + 1 : g[k] = j
    BY <1>3, <1>5, <1>6
  <2> QED
    BY <1>5, <1>6, <2>1
<1>11. Matching(t, items, places \cup {i}, g)
  BY <1>2, <1>7, <1>8, <1>9, <1>10 DEF Matching
<1> QED
  BY <1>11 DEF t

\* Picked returns the items at the positions, each position once.
LEMMA PickedIs ==
  ASSUME NEW X, NEW items \in Seq(X), NEW positions \in SUBSET DOMAIN items
  PROVE  /\ Picked(items, positions) \in Seq(X)
         /\ \E e : Matching(Picked(items, positions), items, positions, e)
<1> DEFINE n == Len(items)
<1>1. n \in Nat /\ DOMAIN items = 1 .. n
  OBVIOUS
<1>2. PICK kept \in [0 .. n -> Seq(X)] :
        /\ kept[0] = <<>>
        /\ \A i \in 1 .. n :
             kept[i] = IF i \in positions THEN Append(kept[i - 1], items[i]) ELSE kept[i - 1]
        /\ Picked(items, positions) = kept[n]
  BY PickedSteps
<1> DEFINE T == {m \in 0 .. n : \E e : Matching(kept[m], items, positions \cap 1 .. m, e)}
<1>3. 0 \in T
  <2>1. Matching(<<>>, items, positions \cap 1 .. 0, <<>>)
    <3>1. Len(<<>>) = 0 /\ 1 .. 0 = {} /\ positions \cap 1 .. 0 = {} /\ <<>> \in [1 .. 0 -> {}]
      OBVIOUS
    <3> QED
      BY <3>1 DEF Matching
  <2> QED
    BY <1>1, <1>2, <2>1
<1>4. ASSUME NEW m \in 1 .. n, m - 1 \in T
      PROVE  m \in T
  <2>1. PICK e : Matching(kept[m - 1], items, positions \cap 1 .. m - 1, e)
    BY <1>4
  <2>2. m - 1 \in 0 .. n /\ kept[m - 1] \in Seq(X) /\ m \in 0 .. n
    BY <1>1, <1>2
  <2>3. CASE m \in positions
    <3>1. /\ positions \cap 1 .. m = (positions \cap 1 .. m - 1) \cup {m}
          /\ m \notin positions \cap 1 .. m - 1
      BY <1>1, <2>3
    <3>2. \E g : Matching(Append(kept[m - 1], items[m]), items, (positions \cap 1 .. m - 1) \cup {m}, g)
      BY <2>1, <2>2, <3>1, MatchingGrows
    <3> QED
      BY <1>2, <2>2, <2>3, <3>1, <3>2
  <2>4. CASE m \notin positions
    <3>1. positions \cap 1 .. m = positions \cap 1 .. m - 1
      BY <1>1, <2>4
    <3> QED
      BY <1>2, <2>1, <2>2, <2>4, <3>1
  <2> QED
    BY <2>3, <2>4
<1>5. n \in T
  <2>1. \A i \in 0 .. n : i \in T
    <3> HIDE DEF T
    <3> QED
      BY <1>1, <1>3, <1>4, UpTo
  <2>2. n \in 0 .. n
    BY <1>1
  <2> QED
    BY <2>1, <2>2
<1>6. positions \cap 1 .. n = positions
  BY <1>1
<1>7. kept[n] \in Seq(X)
  BY <1>1, <1>2
<1> QED
  BY <1>2, <1>5, <1>6, <1>7

\* An item of a sequence.
In(it, items) == \E k \in DOMAIN items : items[k] = it

\* What was picked is what stands at the positions.
LEMMA PickedHas ==
  ASSUME NEW X, NEW items \in Seq(X), NEW positions \in SUBSET DOMAIN items, NEW it
  PROVE  In(it, Picked(items, positions)) <=> \E i \in positions : items[i] = it
<1> DEFINE s == Picked(items, positions)
<1>1. PICK e : Matching(s, items, positions, e)
  BY PickedIs
<1>2. s \in Seq(X) /\ DOMAIN s = 1 .. Len(s)
  BY PickedIs
<1> HIDE DEF s
<1>3. /\ \A k \in 1 .. Len(s) : s[k] = items[e[k]] /\ e[k] \in positions
      /\ \A i \in positions : \E k \in 1 .. Len(s) : e[k] = i
  BY <1>1 DEF Matching
<1>4. ASSUME NEW i \in positions PROVE \E k \in DOMAIN s : s[k] = items[i]
  BY <1>2, <1>3
<1>5. ASSUME NEW k \in DOMAIN s PROVE \E i \in positions : s[k] = items[i]
  BY <1>2, <1>3
<1>6. In(it, s) <=> \E i \in positions : items[i] = it
  BY <1>4, <1>5 DEF In
<1> QED
  BY <1>6 DEF s

\* Included returns the items that are wanted.
LEMMA IncludedIs ==
  ASSUME NEW items \in Seq(Item), NEW names
  PROVE  /\ Included(items, names) \in Seq(Item)
         /\ \A it : In(it, Included(items, names)) <=>
                      In(it, items) /\ Named(it) /\ it.name \in names
<1> DEFINE p == {i \in DOMAIN items : Named(items[i]) /\ items[i].name \in names}
<1>1. p \in SUBSET DOMAIN items /\ Included(items, names) = Picked(items, p)
  BY DEF Included
<1>2. ASSUME NEW it
      PROVE  (\E i \in p : items[i] = it) <=> In(it, items) /\ Named(it) /\ it.name \in names
  BY DEF In
<1> HIDE DEF p
<1> QED
  BY <1>1, <1>2, PickedIs, PickedHas

\* What a concatenation holds.
LEMMA InConcat ==
  ASSUME NEW X, NEW s \in Seq(X), NEW t \in Seq(X), NEW it
  PROVE  In(it, s \o t) <=> In(it, s) \/ In(it, t)
<1> DEFINE r == s \o t
           a == Len(s)
           b == Len(t)
<1>1. /\ a \in Nat /\ b \in Nat
      /\ DOMAIN s = 1 .. a /\ DOMAIN t = 1 .. b /\ DOMAIN r = 1 .. a + b
      /\ \A i \in 1 .. a : r[i] = s[i]
      /\ \A i \in 1 .. b : r[a + i] = t[i]
  OBVIOUS
<1> HIDE DEF r, a, b
<1>2. ASSUME NEW k \in 1 .. a PROVE k \in DOMAIN r /\ r[k] = s[k]
  BY <1>1
<1>3. ASSUME NEW k \in 1 .. b PROVE a + k \in DOMAIN r /\ r[a + k] = t[k]
  BY <1>1
<1>4. ASSUME NEW k \in DOMAIN r
      PROVE  (\E i \in DOMAIN s : s[i] = r[k]) \/ (\E i \in DOMAIN t : t[i] = r[k])
  <2>1. CASE k <= a
    BY <1>1, <2>1
  <2>2. CASE ~ (k <= a)
    <3>1. k - a \in 1 .. b /\ a + (k - a) = k
      BY <1>1, <2>2
    <3> QED
      BY <1>1, <3>1
  <2> QED
    BY <2>1, <2>2
<1>5. In(it, r) => In(it, s) \/ In(it, t)
  BY <1>4 DEF In
<1>6. In(it, s) => In(it, r)
  BY <1>1, <1>2 DEF In
<1>7. In(it, t) => In(it, r)
  BY <1>1, <1>3 DEF In
<1> QED
  BY <1>5, <1>6, <1>7 DEF r

\* f has the first parts put together one after the other.
Joins(f, X, n, parts) ==
  f \in [0 .. n -> Seq(X)] /\ f[0] = <<>> /\ \A i \in 1 .. n : f[i] = f[i - 1] \o parts[i]

\* There is such a function.
LEMMA Joined ==
  ASSUME NEW X, NEW n, NEW parts, n \in Nat, parts \in [1 .. n -> Seq(X)]
  PROVE  \E f : Joins(f, X, n, parts)
<1> DEFINE step == [i \in 1 .. n |-> [s \in Seq(X) |-> s \o parts[i]]]
           Y == Seq(X)
           a == <<>>
<1>1. step \in [1 .. n -> [Y -> Y]]
  OBVIOUS
<1>2. a \in Y
  OBVIOUS
<1> HIDE DEF step, Y, a
<1>3. PICK f : Iterates(f, Y, a, n, step)
  BY <1>1, <1>2, Iterated
<1>4. ASSUME NEW i \in 1 .. n PROVE f[i] = f[i - 1] \o parts[i]
  <2>1. i - 1 \in 0 .. n
    OBVIOUS
  <2>2. f[i - 1] \in Seq(X) /\ f[i] = step[i][f[i - 1]]
    BY <1>3, <2>1 DEF Y, Iterates
  <2> QED
    BY <2>2 DEF step
<1> QED
  BY <1>3, <1>4 DEF Y, a, Iterates, Joins

\* The loop of FlattenSeq.
LEMMA FlattenSteps ==
  ASSUME NEW X, NEW seqs \in Seq(Seq(X))
  PROVE  \E flat \in [0 .. Len(seqs) -> Seq(X)] :
           /\ flat[0] = <<>>
           /\ \A i \in 1 .. Len(seqs) : flat[i] = flat[i - 1] \o seqs[i]
           /\ FlattenSeq(seqs) = flat[Len(seqs)]
<1> DEFINE n == Len(seqs)
           Body(k) == [i \in 1 .. n |-> IF i = 1 THEN seqs[i] ELSE k[i - 1] \o seqs[i]]
           flatten == CHOOSE k : k = Body(k)
<1>1. n \in Nat /\ \A i \in 1 .. n : seqs[i] \in Seq(X)
  OBVIOUS
<1>2. seqs \in [1 .. n -> Seq(X)]
  OBVIOUS
<1>3. PICK f \in [0 .. n -> Seq(X)] : f[0] = <<>> /\ \A i \in 1 .. n : f[i] = f[i - 1] \o seqs[i]
  <2> HIDE DEF n
  <2>1. \E f : Joins(f, X, n, seqs)
    BY <1>1, <1>2, Joined
  <2> QED
    BY <2>1 DEF Joins
<1>4. \A i \in 1 .. n : f[i] = f[i - 1] \o seqs[i]
  BY <1>3
<1>5. CASE n = 0
  <2>1. seqs = <<>>
    BY <1>5
  <2>2. FlattenSeq(seqs) = f[n]
    BY <1>3, <1>5, <2>1 DEF FlattenSeq
  <2> QED
    BY <1>3, <1>4, <2>2
<1>6. CASE n # 0
  <2> DEFINE g == [i \in 1 .. n |-> f[i]]
  <2>1. g = Body(g)
    <3>1. ASSUME NEW i \in 1 .. n PROVE g[i] = Body(g)[i]
      <4>1. CASE i = 1
        <5>1. i - 1 = 0
          BY <4>1
        <5>2. f[i] = <<>> \o seqs[i]
          BY <1>3, <1>4, <5>1
        <5> QED
          BY <1>1, <4>1, <5>2
      <4>2. CASE i # 1
        <5>1. i - 1 \in 1 .. n
          BY <1>1, <4>2
        <5> QED
          BY <1>4, <4>2, <5>1
      <4> QED
        BY <4>1, <4>2
    <3> QED
      BY <3>1
  <2>2. flatten = Body(flatten)
    <3> HIDE DEF Body, g
    <3> QED
      BY <2>1
  <2>3. ASSUME NEW i \in 1 .. n
        PROVE  flatten[i] = IF i = 1 THEN seqs[i] ELSE flatten[i - 1] \o seqs[i]
    <3>1. flatten[i] = Body(flatten)[i]
      BY <2>2
    <3> HIDE DEF flatten
    <3> QED
      BY <3>1
  <2> DEFINE T == {j \in 0 .. n : j = 0 \/ flatten[j] = f[j]}
  <2>4. 0 \in T
    BY <1>1
  <2>5. ASSUME NEW j \in 1 .. n, j - 1 \in T PROVE j \in T
    <3>1. j \in 0 .. n /\ (j - 1 = 0 \/ flatten[j - 1] = f[j - 1])
      BY <2>5
    <3>2. flatten[j] = f[j]
      <4> HIDE DEF flatten
      <4>1. CASE j = 1
        <5>1. j - 1 = 0
          BY <4>1
        <5>2. f[j] = <<>> \o seqs[j]
          BY <1>3, <1>4, <5>1
        <5> QED
          BY <1>1, <2>3, <4>1, <5>2
      <4>2. CASE j # 1
        <5>1. j - 1 # 0
          BY <4>2
        <5> QED
          BY <1>4, <2>3, <3>1, <4>2, <5>1
      <4> QED
        BY <4>1, <4>2
    <3> QED
      BY <3>1, <3>2
  <2>6. n \in T
    <3> HIDE DEF T
    <3>1. \A j \in 0 .. n : j \in T
      BY <1>1, <2>4, <2>5, UpTo
    <3> QED
      BY <1>1, <3>1
  <2>7. FlattenSeq(seqs) = flatten[n]
    BY <1>6 DEF FlattenSeq
  <2>8. FlattenSeq(seqs) = f[n]
    <3> HIDE DEF flatten
    <3> QED
      BY <1>6, <2>6, <2>7
  <2> QED
    BY <1>3, <1>4, <2>8
<1> QED
  BY <1>5, <1>6

\* FlattenSeq returns the items of all the sequences.
LEMMA FlattenIs ==
  ASSUME NEW X, NEW seqs \in Seq(Seq(X))
  PROVE  /\ FlattenSeq(seqs) \in Seq(X)
         /\ \A it : In(it, FlattenSeq(seqs)) <=> \E i \in DOMAIN seqs : In(it, seqs[i])
<1> DEFINE n == Len(seqs)
<1>1. n \in Nat /\ DOMAIN seqs = 1 .. n /\ \A i \in 1 .. n : seqs[i] \in Seq(X)
  OBVIOUS
<1>2. PICK flat \in [0 .. n -> Seq(X)] :
        /\ flat[0] = <<>>
        /\ \A i \in 1 .. n : flat[i] = flat[i - 1] \o seqs[i]
        /\ FlattenSeq(seqs) = flat[n]
  BY FlattenSteps
<1> HIDE DEF n
<1>3. ASSUME NEW it PROVE In(it, flat[n]) <=> \E i \in 1 .. n : In(it, seqs[i])
  <2> DEFINE T == {m \in 0 .. n : In(it, flat[m]) <=> \E i \in 1 .. m : In(it, seqs[i])}
  <2>1. 0 \in T
    <3>1. DOMAIN <<>> = {} /\ 1 .. 0 = {} /\ 0 \in 0 .. n
      BY <1>1
    <3>2. ~ In(it, flat[0]) /\ ~ \E i \in 1 .. 0 : In(it, seqs[i])
      BY <1>2, <3>1 DEF In
    <3> QED
      BY <3>1, <3>2
  <2>2. ASSUME NEW m \in 1 .. n, m - 1 \in T PROVE m \in T
    <3>1. m \in 0 .. n /\ m - 1 \in 0 .. n
      BY <1>1
    <3>2. In(it, flat[m]) <=> In(it, flat[m - 1]) \/ In(it, seqs[m])
      <4>1. flat[m - 1] \in Seq(X) /\ seqs[m] \in Seq(X) /\ flat[m] = flat[m - 1] \o seqs[m]
        BY <1>1, <1>2, <3>1
      <4> QED
        BY <4>1, InConcat
    <3>3. \A i : i \in 1 .. m <=> i \in 1 .. m - 1 \/ i = m
      BY <1>1
    <3>4. (\E i \in 1 .. m : In(it, seqs[i])) <=> (\E i \in 1 .. m - 1 : In(it, seqs[i])) \/ In(it, seqs[m])
      BY <3>3
    <3> QED
      BY <2>2, <3>1, <3>2, <3>4
  <2>3. n \in T
    <3> HIDE DEF T
    <3>1. \A j \in 0 .. n : j \in T
      BY <1>1, <2>1, <2>2, UpTo
    <3> QED
      BY <1>1, <3>1
  <2> QED
    BY <2>3
<1>4. flat[n] \in Seq(X)
  BY <1>1, <1>2
<1> QED
  BY <1>1, <1>2, <1>3, <1>4

\* Deduped keeps an item of every name that has one, and of the items that are no
\* blocks one of each name.
LEMMA DedupedIs ==
  ASSUME NEW items \in Seq(Item)
  PROVE  /\ Deduped(items) \in Seq(Item)
         /\ \A it : In(it, Deduped(items)) => In(it, items)
         /\ \A it : In(it, items) /\ Named(it) =>
              \E kt : In(kt, Deduped(items)) /\ Named(kt) /\ kt.name = it.name
         /\ \A k, l \in DOMAIN Deduped(items) :
              /\ Deduped(items)[k].kind \notin {"impl", "extern"}
              /\ Deduped(items)[l].kind \notin {"impl", "extern"}
              /\ Deduped(items)[k].name = Deduped(items)[l].name
              => k = l
<1> DEFINE OfTheName(i) == {j \in DOMAIN items : /\ items[j].kind \notin {"impl", "extern"}
                                                /\ items[j].name = items[i].name}
           p == {i \in DOMAIN items : \/ items[i].kind \in {"impl", "extern"}
                                      \/ \A j \in OfTheName(i) : i <= j}
           s == Deduped(items)
<1>1. s = Picked(items, p)
  BY DEF Deduped
<1>2. p \in SUBSET DOMAIN items /\ DOMAIN items \in SUBSET Nat
  OBVIOUS
<1>3. \A i : i \in p <=> i \in DOMAIN items /\ (items[i].kind \in {"impl", "extern"} \/ \A j \in OfTheName(i) : i <= j)
  OBVIOUS
<1> HIDE DEF p, s
<1>4. s \in Seq(Item) /\ \A it : In(it, s) <=> \E i \in p : items[i] = it
  BY <1>1, <1>2, PickedIs, PickedHas
<1>5. ASSUME NEW it, In(it, s) PROVE In(it, items)
  BY <1>2, <1>4, <1>5 DEF In
<1>6. ASSUME NEW it, In(it, items), Named(it)
      PROVE  \E kt : In(kt, s) /\ Named(kt) /\ kt.name = it.name
  <2>1. PICK i \in DOMAIN items : items[i] = it
    BY <1>6 DEF In
  <2>2. CASE it.kind \in {"impl", "extern"}
    BY <1>3, <1>4, <1>6, <2>1, <2>2
  <2>3. CASE it.kind \notin {"impl", "extern"}
    <3>1. OfTheName(i) \in SUBSET Nat /\ OfTheName(i) # {}
      BY <1>2, <2>1, <2>3
    <3>2. PICK m \in OfTheName(i) : \A j \in OfTheName(i) : m <= j
      <4> HIDE DEF OfTheName
      <4> QED
        BY <3>1, Smallest
    <3>3. /\ m \in DOMAIN items /\ items[m].name = it.name
          /\ items[m].kind \notin {"impl", "extern"}
          /\ OfTheName(m) = OfTheName(i)
      BY <2>1, <3>2
    <3>4. m \in p
      <4> HIDE DEF OfTheName
      <4> QED
        BY <1>3, <3>2, <3>3
    <3>5. In(items[m], s) /\ Named(items[m])
      BY <1>4, <3>3, <3>4 DEF Named
    <3> QED
      BY <3>3, <3>5
  <2> QED
    BY <2>2, <2>3
<1>7. ASSUME NEW k \in DOMAIN s, NEW l \in DOMAIN s,
             s[k].kind \notin {"impl", "extern"}, s[l].kind \notin {"impl", "extern"},
             s[k].name = s[l].name
      PROVE  k = l
  <2>1. PICK e : Matching(s, items, p, e)
    BY <1>1, <1>2, PickedIs
  <2>2. DOMAIN s = 1 .. Len(s)
    BY <1>4
  <2>3. PICK x, y : x = e[k] /\ y = e[l]
    OBVIOUS
  <2>4. x \in p /\ y \in p /\ s[k] = items[x] /\ s[l] = items[y] /\ (x = y => k = l)
    BY <2>1, <2>2, <2>3 DEF Matching
  <2>5. x \in DOMAIN items /\ y \in DOMAIN items /\ x \in Nat /\ y \in Nat
    BY <1>2, <2>4
  <2>6. x \in OfTheName(y) /\ y \in OfTheName(x)
    BY <1>7, <2>4, <2>5
  <2>7. x <= y /\ y <= x
    <3> HIDE DEF OfTheName
    <3> QED
      BY <1>3, <1>7, <2>4, <2>6
  <2> QED
    BY <2>4, <2>5, <2>7
<1>8. /\ \A it : In(it, s) => In(it, items)
      /\ \A it : In(it, items) /\ Named(it) => \E kt : In(kt, s) /\ Named(kt) /\ kt.name = it.name
      /\ \A k, l \in DOMAIN s : /\ s[k].kind \notin {"impl", "extern"}
                                /\ s[l].kind \notin {"impl", "extern"}
                                /\ s[k].name = s[l].name
                                => k = l
  BY <1>5, <1>6, <1>7
<1> QED
  BY <1>4, <1>8 DEF s

-----------------------------------------------------------------------------
(* What is linked. *)

\* What a call has gathered from a file, and a call.
Part == [items : Seq(Item), names : SUBSET Name]
Parts == Seq(Part)
Wanted == Seq(SUBSET Name)
FrameType ==
  [file : File, step : {"gather", "expand", "extract"}, next : Nat \ {0},
   imported : Parts, wanted : Wanted]

\* Every name collected from an item that is in its scope is there.
Closed(items) ==
  \A it : In(it, items) =>
    \A n \in Collected(it) \cap InScope(it.file) : Defines(items, n)

\* What a call has gathered answers the clauses it has passed.
Answered(fr) ==
  /\ \A i \in DOMAIN fr.imported : Closed(fr.imported[i].items)
  /\ \A k \in DOMAIN layout[fr.file].imports :
       LET clause == layout[fr.file].imports[k]
       IN  k < fr.next /\ clause.path # "std" =>
             \E i \in DOMAIN fr.imported : fr.imported[i].names = clause.names

\* Discovered and Route of a call.
Mentioned(fr) ==
  UNION {Collected(it) :
           it \in UNION {ToSet(Included(fr.imported[i].items, fr.wanted[i])) :
                           i \in DOMAIN fr.imported}}
RouteOf(fr, i) == {n \in Mentioned(fr) : Defines(fr.imported[i].items, n)}

\* Past the gathering, the names of the clauses are wanted, and when the items are
\* extracted nothing is left to route.
Routed(fr) ==
  fr.step # "gather" =>
    /\ Len(fr.wanted) = Len(fr.imported)
    /\ \A i \in DOMAIN fr.imported : fr.imported[i].names \subseteq fr.wanted[i]
    /\ fr.step = "extract" => \A i \in DOMAIN fr.imported : RouteOf(fr, i) \subseteq fr.wanted[i]

\* The invariant of linking, which rests on that of the cycles.
Typed == layout \in Layouts /\ stack \in Seq(FrameType)
LinkInv ==
  /\ Typed
  /\ \A i \in 1 .. Len(stack) : Answered(stack[i])
  /\ Routed(Top)
  /\ Linked

\* A name is defined by an item that has it.
LEMMA DefinesIs ==
  ASSUME NEW items, NEW n
  PROVE  Defines(items, n) <=> \E it : In(it, items) /\ Named(it) /\ it.name = n
BY DEF Defines, In

\* No two items but blocks have one name.
Single(items) ==
  \A k, l \in DOMAIN items :
    /\ items[k].kind \notin {"impl", "extern"} /\ items[l].kind \notin {"impl", "extern"}
    /\ items[k].name = items[l].name
    => k = l

\* What a call returns: everything in scope of its items is among them.
LEMMA ResolvedIs ==
  ASSUME Typed, Top \in FrameType, Answered(Top), Routed(Top), Top.step = "extract",
         Top.next > Len(layout[Top.file].imports), AllFound
  PROVE  /\ Resolved \in Seq(Item)
         /\ Closed(Resolved)
         /\ \E d \in Seq(Item) : Resolved = d \o layout[Top.file].items /\ Single(d)
<1> DEFINE m == Len(Top.imported)
           parts == [i \in DOMAIN Top.imported |-> Found(i)]
           all == FlattenSeq(parts)
           d == Deduped(all)
           own == layout[Top.file].items
<1>1. /\ Top.file \in File /\ m \in Nat /\ DOMAIN Top.imported = 1 .. m
      /\ \A i \in 1 .. m : Top.imported[i].items \in Seq(Item)
      /\ own \in Seq(Item) /\ layout[Top.file].imports \in Seq(Clause)
  <2>1. /\ Top.file \in File
        /\ Top.imported \in Seq(Part)
    BY DEF FrameType, Parts
  <2>2. layout \in Layout
    BY LayoutAssumption DEF Typed
  <2>3. own \in Seq(Item) /\ layout[Top.file].imports \in Seq(Clause)
    BY <2>1, <2>2 DEF Layout
  <2>4. m \in Nat /\ DOMAIN Top.imported = 1 .. m
    BY <2>1
  <2>5. ASSUME NEW i \in 1 .. m PROVE Top.imported[i].items \in Seq(Item)
    <3>1. Top.imported[i] \in Part
      BY <2>1, <2>4
    <3> QED
      BY <3>1 DEF Part
  <2> QED
    BY <2>1, <2>3, <2>4, <2>5
<1>2. ASSUME NEW i \in 1 .. m
      PROVE  /\ Found(i) \in Seq(Item)
             /\ \A it : In(it, Found(i)) <=>
                          In(it, Top.imported[i].items) /\ Named(it) /\ it.name \in Top.wanted[i]
  BY <1>1, IncludedIs DEF Found
<1>3. parts \in Seq(Seq(Item)) /\ DOMAIN parts = 1 .. m /\ \A i \in 1 .. m : parts[i] = Found(i)
  BY <1>1, <1>2
<1> HIDE DEF parts, m
<1>4. all \in Seq(Item) /\ \A it : In(it, all) <=> \E i \in 1 .. m : In(it, Found(i))
  BY <1>3, FlattenIs
<1> HIDE DEF all
<1>5. /\ d \in Seq(Item) /\ Single(d)
      /\ \A it : In(it, d) => In(it, all)
      /\ \A it : In(it, all) /\ Named(it) => \E kt : In(kt, d) /\ Named(kt) /\ kt.name = it.name
  BY <1>4, DedupedIs DEF Single
<1> HIDE DEF d, own
<1>6. Resolved = d \o own
  BY DEF Resolved, d, all, parts, own
<1>7. Resolved \in Seq(Item) /\ \A it : In(it, Resolved) <=> In(it, d) \/ In(it, own)
  BY <1>1, <1>5, <1>6, InConcat
<1>8. ASSUME NEW i \in 1 .. m, NEW n, Defines(Found(i), n)
      PROVE  Defines(Resolved, n)
  <2>1. PICK it : In(it, Found(i)) /\ Named(it) /\ it.name = n
    BY <1>8, DefinesIs
  <2>2. PICK kt : In(kt, d) /\ Named(kt) /\ kt.name = it.name
    BY <1>4, <1>5, <2>1
  <2> QED
    BY <1>7, <2>1, <2>2, DefinesIs
<1>9. ASSUME NEW n, Defines(own, n)
      PROVE  Defines(Resolved, n)
  <2>1. PICK it : In(it, own) /\ Named(it) /\ it.name = n
    BY <1>9, DefinesIs
  <2> QED
    BY <1>7, <2>1, DefinesIs
<1>10. ASSUME NEW it, In(it, own), NEW n \in InScope(it.file)
       PROVE  Defines(Resolved, n)
  <2>1. it.file = Top.file
    BY <1>1, <1>10, WrittenAssumption DEF Typed, In, own
  <2>2. CASE Defines(own, n)
    BY <1>9, <2>2
  <2>3. CASE ~ Defines(own, n)
    <3>1. PICK k \in DOMAIN layout[Top.file].imports :
            layout[Top.file].imports[k].path # "std" /\ n \in layout[Top.file].imports[k].names
      BY <1>10, <2>1, <2>3 DEF InScope, own
    <3>2. k < Top.next
      BY <1>1 DEF FrameType
    <3>3. PICK i \in DOMAIN Top.imported : Top.imported[i].names = layout[Top.file].imports[k].names
      BY <3>1, <3>2 DEF Answered
    <3>4. Defines(Found(i), n)
      BY <3>1, <3>3 DEF AllFound
    <3> QED
      BY <1>1, <1>8, <3>3, <3>4
  <2> QED
    BY <2>2, <2>3
<1>11. ASSUME NEW it, In(it, d), NEW n \in Collected(it) \cap InScope(it.file)
       PROVE  Defines(Resolved, n)
  <2>1. PICK i \in 1 .. m : In(it, Found(i))
    BY <1>4, <1>5, <1>11
  <2>2. In(it, Top.imported[i].items)
    BY <1>2, <2>1
  <2>3. Defines(Top.imported[i].items, n)
    BY <1>1, <1>11, <2>2 DEF Answered, Closed
  <2>4. n \in Collected(it)
    BY <1>11
  <2>5. it \in ToSet(Included(Top.imported[i].items, Top.wanted[i]))
    BY <2>1 DEF In, Found, ToSet
  <2>6. n \in Mentioned(Top)
    BY <1>1, <2>4, <2>5 DEF Mentioned
  <2>7. n \in Top.wanted[i]
    BY <1>1, <2>3, <2>6 DEF RouteOf, Routed
  <2>8. PICK kt : In(kt, Top.imported[i].items) /\ Named(kt) /\ kt.name = n
    BY <2>3, DefinesIs
  <2>9. Defines(Found(i), n)
    BY <1>2, <2>7, <2>8, DefinesIs
  <2> QED
    BY <1>8, <2>9
<1>12. Closed(Resolved)
  BY <1>7, <1>10, <1>11 DEF Closed
<1> QED
  BY <1>5, <1>6, <1>7, <1>12 DEF own

\* What a call has answered it has answered for good.
LEMMA AnsweredStays ==
  ASSUME layout' = layout, NEW fr, Answered(fr)
  PROVE  Answered(fr)'
<1>1. ASSUME NEW f PROVE InScope(f)' = InScope(f)
  BY DEF InScope
<1>2. ASSUME NEW items, Closed(items) PROVE Closed(items)'
  BY <1>1, <1>2 DEF Closed
<1> QED
  BY <1>2 DEF Answered

\* So have all calls when the stack changes and the texts do not.
LEMMA AllAnswered ==
  ASSUME layout' = layout, \A i \in 1 .. Len(stack') : Answered(stack'[i])
  PROVE  (\A i \in 1 .. Len(stack) : Answered(stack[i]))'
<1>1. ASSUME NEW i \in 1 .. Len(stack') PROVE Answered(stack[i])'
  <2>1. PICK fr : fr = stack'[i]
    OBVIOUS
  <2>2. Answered(fr)
    BY <2>1
  <2>3. Answered(fr)'
    BY <2>2, AnsweredStays
  <2> QED
    BY <2>1, <2>3 DEF Answered
<1> QED
  BY <1>1

\* A call begins with nothing gathered.
LEMMA BeginsEmpty ==
  ASSUME layout \in Layouts, NEW f \in File
  PROVE  Frame(f) \in FrameType /\ Answered(Frame(f)) /\ Routed(Frame(f))
<1> DEFINE t == Frame(f)
<1>1. /\ t.file = f /\ t.step = "gather" /\ t.next = 1 /\ t.imported = <<>>
      /\ t \in FrameType
  <2>1. <<>> \in Parts /\ <<>> \in Wanted
    BY DEF Parts, Wanted
  <2> QED
    BY <2>1 DEF Frame, FrameType
<1>2. layout[f].imports \in Seq(Clause)
  BY LayoutAssumption DEF Layout
<1> HIDE DEF t
<1>3. \A k \in DOMAIN layout[f].imports : ~ (k < 1)
  BY <1>2
<1>4. DOMAIN t.imported = {}
  BY <1>1
<1>5. Answered(t) /\ Routed(t)
  BY <1>1, <1>3, <1>4 DEF Answered, Routed
<1> QED
  BY <1>1, <1>5 DEF t

\* The innermost call goes on.
LEMMA LinkGoesOn ==
  ASSUME IInv, LinkInv, NEW t \in FrameType, Answered(t), Routed(t),
         stack' = Append(Below, t), layout' = layout, outcome' # "done"
  PROVE  LinkInv'
<1> DEFINE n == Len(stack)
<1>1. n \in Nat /\ n > 0 /\ stack \in Seq(FrameType) /\ FrameType \cup {t} = FrameType
  BY DEF IInv, Calls, LinkInv, Typed
<1>2. /\ stack' \in Seq(FrameType)
      /\ Len(stack') = n
      /\ \A i \in 1 .. n - 1 : stack'[i] = stack[i]
      /\ stack'[n] = t
  <2>1. /\ stack' \in Seq(FrameType \cup {t})
        /\ Len(stack') = n
        /\ \A i \in 1 .. n - 1 : stack'[i] = stack[i]
        /\ stack'[n] = t
    BY <1>1, Replaced DEF Below
  <2> QED
    BY <1>1, <2>1
<1>3. ASSUME NEW i \in 1 .. n PROVE Answered(stack'[i])
  BY <1>1, <1>2 DEF LinkInv
<1>4. (\A i \in 1 .. Len(stack) : Answered(stack[i]))'
  BY <1>2, <1>3, AllAnswered
<1>5. Routed(Top)'
  BY <1>2 DEF Top, Routed, RouteOf, Mentioned
<1>6. Typed'
  BY <1>2 DEF LinkInv, Typed
<1>7. Linked'
  BY DEF Linked
<1> QED
  BY <1>4, <1>5, <1>6, <1>7 DEF LinkInv

\* The innermost call returns to the one around it.
LEMMA LinkReturns ==
  ASSUME IInv, LinkInv, Extract
  PROVE  LinkInv'
<1> DEFINE n == Len(stack)
           caller == Below[Len(Below)]
           clause == layout[caller.file].imports[caller.next]
           part == [items |-> Resolved, names |-> clause.names]
           t == [caller EXCEPT !.next = @ + 1, !.imported = Append(@, part)]
<1>1. n \in Nat /\ n > 1 /\ stack \in Seq(FrameType)
  BY DEF LinkInv, Typed, Extract
<1>2. /\ Len(Below) = n - 1
      /\ caller = stack[n - 1]
      /\ stack' \in Seq(FrameType \cup {t})
      /\ Len(stack') = n - 1
      /\ \A i \in 1 .. n - 2 : stack'[i] = stack[i]
      /\ stack'[n - 1] = t
  <2>1. stack' = [Below EXCEPT ![Len(Below)] = t]
    BY DEF Extract
  <2> HIDE DEF t
  <2> QED
    BY <1>1, <2>1, Popped DEF Below
<1>3. /\ n \in 1 .. n /\ n - 1 \in 1 .. n - 1 /\ n - 1 \in 1 .. n
      /\ Top \in FrameType /\ caller \in FrameType
  BY <1>1, <1>2 DEF Top
<1>4. /\ Resolved \in Seq(Item)
      /\ Closed(Resolved)
  <2>1. Answered(Top) /\ Routed(Top) /\ Typed
    BY <1>3 DEF LinkInv, Top
  <2>2. Top.step = "extract" /\ AllFound
    BY DEF Extract
  <2>3. Top.next > Len(layout[Top.file].imports)
    BY <1>3, <2>2 DEF IInv, Passed, Top
  <2> QED
    BY <1>3, <2>1, <2>2, <2>3, ResolvedIs
<1>5. /\ caller.step = "gather" /\ Answered(caller)
      /\ caller.file \in File /\ caller.next \in Nat \ {0}
      /\ caller.imported \in Parts
      /\ caller.next \in DOMAIN layout[caller.file].imports
      /\ layout[caller.file].imports \in Seq(Clause)
  <2>1. caller.step = "gather" /\ Answered(caller)
        /\ caller.next \in DOMAIN layout[caller.file].imports
    BY <1>2, <1>3 DEF IInv, Waiting, LinkInv
  <2>2. /\ caller.file \in File /\ caller.next \in Nat \ {0}
        /\ caller.imported \in Parts
    BY <1>3 DEF FrameType
  <2>3. layout[caller.file].imports \in Seq(Clause)
    BY <2>2, LayoutAssumption DEF LinkInv, Typed, Layout
  <2> QED
    BY <2>1, <2>2, <2>3
<1>6. part \in Part /\ part.names = clause.names /\ part.items = Resolved
  <2>1. clause \in Clause
    <3> HIDE DEF caller
    <3> QED
      BY <1>5
  <2>2. clause.names \in SUBSET Name
    <3> HIDE DEF clause
    <3> QED
      BY <2>1 DEF Clause
  <2> HIDE DEF clause
  <2> QED
    BY <1>4, <2>2 DEF Part
<1>7. /\ t.file = caller.file /\ t.step = "gather" /\ t.next = caller.next + 1
      /\ t.imported = Append(caller.imported, part)
      /\ t \in FrameType
  <2>1. part \in Part /\ caller.imported \in Seq(Part)
    BY <1>5, <1>6 DEF Parts
  <2> HIDE DEF part
  <2>3. Append(caller.imported, part) \in Parts
    BY <2>1 DEF Parts
  <2>4. PICK c, more : c = caller /\ more = Append(caller.imported, part)
    OBVIOUS
  <2>5. c \in FrameType /\ c.step = "gather" /\ more \in Parts
    BY <1>3, <1>5, <2>3, <2>4
  <2> DEFINE u == [c EXCEPT !.next = c.next + 1, !.imported = more]
  <2>6. t = u
    <3> HIDE DEF caller
    <3> QED
      BY <2>4
  <2>7. u \in FrameType
    <3>1. /\ c.file \in File /\ c.step \in {"gather", "expand", "extract"} /\ c.wanted \in Wanted
          /\ c.next \in Nat \ {0}
      BY <2>5 DEF FrameType
    <3>2. PICK Places, Steps, y : Places = Nat \ {0} /\ Steps = {"gather", "expand", "extract"}
                                 /\ y = c.next + 1
      OBVIOUS
    <3>3. FrameType = [file : File, step : Steps, next : Places, imported : Parts, wanted : Wanted]
      BY <3>2 DEF FrameType
    <3>4. y \in Places
      BY <3>1, <3>2
    <3>5. [c EXCEPT !.next = y, !.imported = more]
            \in [file : File, step : Steps, next : Places, imported : Parts, wanted : Wanted]
      BY <2>5, <3>3, <3>4
    <3>6. u = [c EXCEPT !.next = y, !.imported = more]
      BY <3>2
    <3> HIDE DEF u
    <3> QED
      BY <3>3, <3>5, <3>6
  <2>8. u.file = c.file /\ u.step = "gather" /\ u.next = c.next + 1 /\ u.imported = more
    BY <2>5 DEF FrameType
  <2> HIDE DEF t, u, caller
  <2> QED
    BY <2>4, <2>6, <2>7, <2>8
<1> HIDE DEF t, part
<1>8. /\ Len(t.imported) = Len(caller.imported) + 1
      /\ Len(caller.imported) \in Nat
      /\ DOMAIN caller.imported = 1 .. Len(caller.imported)
      /\ DOMAIN t.imported = 1 .. Len(caller.imported) + 1
      /\ \A i \in 1 .. Len(caller.imported) : t.imported[i] = caller.imported[i]
      /\ t.imported[Len(caller.imported) + 1] = part
  <2> DEFINE old == caller.imported
  <2>1. part \in Part /\ old \in Seq(Part)
    BY <1>5, <1>6 DEF Parts
  <2> HIDE DEF old
  <2>2. /\ Len(Append(old, part)) = Len(old) + 1
        /\ Len(old) \in Nat /\ DOMAIN old = 1 .. Len(old)
        /\ DOMAIN Append(old, part) = 1 .. Len(old) + 1
        /\ \A i \in 1 .. Len(old) : Append(old, part)[i] = old[i]
        /\ Append(old, part)[Len(old) + 1] = part
    BY <2>1
  <2> QED
    BY <1>7, <2>2 DEF old
<1> HIDE DEF clause, caller
<1>9. Answered(t)
  <2>1. ASSUME NEW i \in DOMAIN t.imported PROVE Closed(t.imported[i].items)
    <3>1. CASE i = Len(caller.imported) + 1
      BY <1>4, <1>6, <1>8, <3>1
    <3>2. CASE i # Len(caller.imported) + 1
      <4>1. i \in 1 .. Len(caller.imported)
        BY <1>8, <3>2
      <4> QED
        BY <1>5, <1>8, <4>1 DEF Answered
    <3> QED
      BY <3>1, <3>2
  <2>2. ASSUME NEW k \in DOMAIN layout[t.file].imports,
               k < t.next, layout[t.file].imports[k].path # "std"
        PROVE  \E i \in DOMAIN t.imported : t.imported[i].names = layout[t.file].imports[k].names
    <3>1. CASE k = caller.next
      <4>1. Len(caller.imported) + 1 \in DOMAIN t.imported
        BY <1>8
      <4>2. layout[t.file].imports[k] = clause
        BY <1>7, <3>1 DEF clause
      <4> QED
        BY <1>6, <1>8, <4>1, <4>2
    <3>2. CASE k # caller.next
      <4>1. k < caller.next
        BY <1>5, <1>7, <2>2, <3>2
      <4>2. PICK i \in DOMAIN caller.imported :
              caller.imported[i].names = layout[t.file].imports[k].names
        BY <1>5, <1>7, <2>2, <4>1 DEF Answered
      <4>3. i \in DOMAIN t.imported /\ t.imported[i] = caller.imported[i]
        BY <1>8
      <4> QED
        BY <4>2, <4>3
    <3> QED
      BY <3>1, <3>2
  <2> QED
    BY <2>1, <2>2 DEF Answered
<1>10. ASSUME NEW i \in 1 .. Len(stack') PROVE Answered(stack'[i])
  <2>1. CASE i = n - 1
    BY <1>2, <1>9, <2>1
  <2>2. CASE i # n - 1
    <3>1. i \in 1 .. n - 2 /\ i \in 1 .. n
      BY <1>1, <1>2, <2>2
    <3> QED
      BY <1>2, <3>1 DEF LinkInv
  <2> QED
    BY <2>1, <2>2
<1>11. layout' = layout /\ outcome' = outcome /\ outcome = "running"
  BY DEF Extract
<1>12. (\A i \in 1 .. Len(stack) : Answered(stack[i]))'
  BY <1>10, <1>11, AllAnswered
<1>13. Routed(Top)'
  <2>1. Top'.step = "gather"
    BY <1>2, <1>7 DEF Top
  <2> QED
    BY <2>1 DEF Routed
<1>14. Typed'
  <2>1. FrameType \cup {t} = FrameType
    BY <1>7
  <2> QED
    BY <1>2, <1>11, <2>1 DEF LinkInv, Typed
<1>15. Linked'
  BY <1>11 DEF Linked
<1> QED
  BY <1>12, <1>13, <1>14, <1>15 DEF LinkInv

\* The invariant of linking holds at the start.
LEMMA LinkBegins == Init => LinkInv
<1> SUFFICES ASSUME Init
             PROVE  LinkInv
  OBVIOUS
<1>1. PICK t : t = Frame(Main)
  OBVIOUS
<1>2. stack = <<t>> /\ outcome = "running" /\ layout \in Layouts
  BY <1>1 DEF Init
<1>3. t \in FrameType /\ Answered(t) /\ Routed(t)
  BY <1>1, <1>2, BeginsEmpty, MainAssumption
<1>4. stack \in Seq(FrameType) /\ Len(stack) = 1 /\ stack[1] = t
  BY <1>2, <1>3
<1> QED
  BY <1>2, <1>3, <1>4 DEF LinkInv, Typed, Top, Linked

\* The innermost call as a record.
LEMMA TopIs ==
  ASSUME IInv, LinkInv
  PROVE  /\ Top \in FrameType /\ Answered(Top) /\ Routed(Top)
         /\ Top.file \in File /\ Top.step \in {"gather", "expand", "extract"}
         /\ Top.next \in Nat \ {0} /\ Top.imported \in Seq(Part) /\ Top.wanted \in Wanted
         /\ layout[Top.file].imports \in Seq(Clause)
<1>1. Len(stack) \in 1 .. Len(stack) /\ stack \in Seq(FrameType)
  BY DEF IInv, Calls, LinkInv, Typed
<1>2. Top \in FrameType /\ Answered(Top) /\ Routed(Top)
  BY <1>1 DEF LinkInv, Top
<1>3. /\ Top.file \in File /\ Top.step \in {"gather", "expand", "extract"}
      /\ Top.next \in Nat \ {0} /\ Top.imported \in Parts /\ Top.wanted \in Wanted
  BY <1>2 DEF FrameType
<1>4. layout[Top.file].imports \in Seq(Clause)
  BY <1>3, LayoutAssumption DEF LinkInv, Typed, Layout
<1> QED
  BY <1>2, <1>3, <1>4 DEF Parts

\* A call is made.
LEMMA LinkCalls ==
  ASSUME IInv, LinkInv, ImportFile
  PROVE  LinkInv'
<1> DEFINE n == Len(stack)
<1>1. PICK t : t = Frame(TheClause.path)
  OBVIOUS
<1>2. /\ stack' = Append(stack, t) /\ layout' = layout /\ outcome' = "running"
      /\ TheClause.path \in File
  BY <1>1 DEF ImportFile, Gathering
<1>3. t \in FrameType /\ Answered(t) /\ Routed(t)
  BY <1>1, <1>2, BeginsEmpty DEF LinkInv, Typed
<1>4. n \in Nat /\ stack \in Seq(FrameType) /\ FrameType \cup {t} = FrameType
  BY <1>3 DEF LinkInv, Typed
<1>5. /\ stack' \in Seq(FrameType)
      /\ Len(stack') = n + 1
      /\ \A i \in 1 .. n : stack'[i] = stack[i]
      /\ stack'[n + 1] = t
  BY <1>2, <1>3, <1>4
<1>6. ASSUME NEW i \in 1 .. Len(stack') PROVE Answered(stack'[i])
  <2>1. CASE i = n + 1
    BY <1>3, <1>5, <2>1
  <2>2. CASE i # n + 1
    <3>1. i \in 1 .. n
      BY <1>4, <1>5, <2>2
    <3> QED
      BY <1>5, <3>1 DEF LinkInv
  <2> QED
    BY <2>1, <2>2
<1>7. (\A i \in 1 .. Len(stack) : Answered(stack[i]))'
  BY <1>2, <1>6, AllAnswered
<1>8. Routed(Top)'
  BY <1>3, <1>5 DEF Top, Routed, RouteOf, Mentioned
<1>9. Typed'
  BY <1>2, <1>5 DEF LinkInv, Typed
<1>10. Linked'
  BY <1>2 DEF Linked
<1> QED
  BY <1>7, <1>8, <1>9, <1>10 DEF LinkInv

\* The names of the clauses are wanted first.
LEMMA LinkSeeds ==
  ASSUME IInv, LinkInv, Seed
  PROVE  LinkInv'
<1>1. PICK s, w : s = Top /\ w = [i \in DOMAIN s.imported |-> s.imported[i].names]
  OBVIOUS
<1> DEFINE t == [s EXCEPT !.step = "expand", !.wanted = w]
<1>2. /\ stack' = Append(Below, t) /\ layout' = layout /\ outcome' # "done"
      /\ s.step = "gather"
  BY <1>1 DEF Seed
<1>3. s \in FrameType /\ Answered(s) /\ s.imported \in Seq(Part)
  BY <1>1, TopIs
<1>4. w \in Wanted /\ Len(w) = Len(s.imported) /\ DOMAIN s.imported = 1 .. Len(s.imported)
  <2>1. PICK m : m = Len(s.imported)
    OBVIOUS
  <2>2. m \in Nat /\ DOMAIN s.imported = 1 .. m /\ \A i \in 1 .. m : s.imported[i] \in Part
    BY <1>3, <2>1
  <2>3. \A i \in 1 .. m : s.imported[i].names \in SUBSET Name
    BY <2>2 DEF Part
  <2>4. w \in [1 .. m -> SUBSET Name]
    BY <1>1, <2>2, <2>3
  <2>5. w \in Seq(SUBSET Name) /\ Len(w) = m
    BY <2>2, <2>4
  <2> QED
    BY <2>1, <2>2, <2>5 DEF Wanted
<1>5. /\ t.file = s.file /\ t.next = s.next /\ t.imported = s.imported
      /\ t.step = "expand" /\ t.wanted = w /\ t \in FrameType
  BY <1>3, <1>4 DEF FrameType
<1> HIDE DEF t
<1>6. Answered(t)
  BY <1>3, <1>5 DEF Answered
<1>7. Routed(t)
  <2>1. \A i \in DOMAIN t.imported : t.imported[i].names \subseteq t.wanted[i]
    BY <1>1, <1>5
  <2> QED
    BY <1>4, <1>5, <2>1 DEF Routed
<1> QED
  BY <1>2, <1>5, <1>6, <1>7, LinkGoesOn

\* Names are routed until none is new.
LEMMA LinkExpands ==
  ASSUME IInv, LinkInv, Expand
  PROVE  LinkInv'
<1>1. PICK s, w, p : /\ s = Top
                     /\ w = [i \in DOMAIN s.imported |-> s.wanted[i] \cup RouteOf(s, i)]
                     /\ p = IF w = s.wanted THEN "extract" ELSE "expand"
  OBVIOUS
<1> DEFINE t == [s EXCEPT !.wanted = w, !.step = p]
<1>2. /\ stack' = Append(Below, t) /\ layout' = layout /\ outcome' # "done"
      /\ s.step = "expand"
  <2>1. \A i : Route(i) = RouteOf(Top, i)
    BY DEF Route, RouteOf, Discovered, Mentioned
  <2>2. [i \in DOMAIN Top.imported |-> Top.wanted[i] \cup Route(i)]
          = [i \in DOMAIN Top.imported |-> Top.wanted[i] \cup RouteOf(Top, i)]
    BY <2>1
  <2> QED
    BY <1>1, <2>2 DEF Expand
<1>3. s \in FrameType /\ Answered(s) /\ s.imported \in Seq(Part) /\ Routed(s) /\ s.wanted \in Wanted
  BY <1>1, TopIs
<1>4. PICK m \in Nat : /\ m = Len(s.imported) /\ DOMAIN s.imported = 1 .. m
                       /\ \A i \in 1 .. m : s.imported[i] \in Part
  BY <1>3
<1>5. /\ Len(s.wanted) = m /\ \A i \in 1 .. m : s.wanted[i] \in SUBSET Name
      /\ \A i \in 1 .. m : s.imported[i].names \subseteq s.wanted[i]
  BY <1>2, <1>3, <1>4 DEF Routed, Wanted
<1>6. ASSUME NEW i \in 1 .. m PROVE RouteOf(s, i) \in SUBSET Name
  <2>1. ASSUME NEW j \in 1 .. m, NEW it \in ToSet(Included(s.imported[j].items, s.wanted[j]))
        PROVE  Collected(it) \in SUBSET Name
    <3>1. s.imported[j].items \in Seq(Item)
      BY <1>4 DEF Part
    <3>2. Included(s.imported[j].items, s.wanted[j]) \in Seq(Item)
      BY <3>1, IncludedIs
    <3>3. it \in Item
      BY <3>2 DEF ToSet
    <3> QED
      BY <3>3 DEF Collected, Item
  <2> QED
    BY <1>4, <2>1 DEF RouteOf, Mentioned
<1>7. w \in Wanted /\ Len(w) = m /\ \A i \in 1 .. m : w[i] = s.wanted[i] \cup RouteOf(s, i)
  <2>1. w \in [1 .. m -> SUBSET Name]
    BY <1>1, <1>4, <1>5, <1>6
  <2>2. w \in Seq(SUBSET Name) /\ Len(w) = m
    BY <2>1
  <2> QED
    BY <1>1, <1>4, <2>2 DEF Wanted
<1>8. /\ t.file = s.file /\ t.next = s.next /\ t.imported = s.imported
      /\ t.step = p /\ t.wanted = w /\ t \in FrameType
  BY <1>1, <1>3, <1>7 DEF FrameType
<1> HIDE DEF t
<1>9. Answered(t)
  BY <1>3, <1>8 DEF Answered
<1>10. Routed(t)
  <2>1. \A i \in DOMAIN t.imported : t.imported[i].names \subseteq t.wanted[i]
    BY <1>4, <1>5, <1>7, <1>8
  <2>2. ASSUME t.step = "extract", NEW i \in DOMAIN t.imported
        PROVE  RouteOf(t, i) \subseteq t.wanted[i]
    <3>1. w = s.wanted
      BY <1>1, <1>8, <2>2
    <3>2. RouteOf(t, i) = RouteOf(s, i)
      BY <1>8, <3>1 DEF RouteOf, Mentioned
    <3> QED
      BY <1>4, <1>7, <1>8, <2>2, <3>2
  <2> QED
    BY <1>4, <1>7, <1>8, <2>1, <2>2 DEF Routed
<1> QED
  BY <1>2, <1>8, <1>9, <1>10, LinkGoesOn

\* A clause of a virtual module is passed.
LEMMA LinkPasses ==
  ASSUME IInv, LinkInv, ImportStd, TheClause.names \subseteq StdNames
  PROVE  LinkInv'
<1>1. PICK s, y : s = Top /\ y = s.next + 1
  OBVIOUS
<1> DEFINE t == [s EXCEPT !.next = y]
<1>2. /\ stack' = Append(Below, t) /\ layout' = layout /\ outcome' # "done"
      /\ s.step = "gather" /\ layout[s.file].imports[s.next].path = "std"
  BY <1>1 DEF ImportStd, Gathering, TheClause
<1>3. /\ s \in FrameType /\ Answered(s) /\ s.next \in Nat \ {0}
      /\ layout[s.file].imports \in Seq(Clause)
  BY <1>1, TopIs
<1>4. y \in Nat \ {0}
  BY <1>1, <1>3
<1>5. /\ t.file = s.file /\ t.next = y /\ t.imported = s.imported
      /\ t.step = "gather" /\ t \in FrameType
  BY <1>2, <1>3, <1>4 DEF FrameType
<1> HIDE DEF t
<1>6. Answered(t)
  <2>1. ASSUME NEW k \in DOMAIN layout[s.file].imports, k < y, layout[s.file].imports[k].path # "std"
        PROVE  k < s.next
    <3>1. k \in Nat /\ k # s.next
      BY <1>2, <1>3, <2>1
    <3> QED
      BY <1>1, <1>3, <2>1, <3>1
  <2> QED
    BY <1>3, <1>5, <2>1 DEF Answered
<1>7. Routed(t)
  BY <1>5 DEF Routed
<1> QED
  BY <1>2, <1>5, <1>6, <1>7, LinkGoesOn

\* The outermost call returns: what it resolved is the linked module.
LEMMA LinkFinishes ==
  ASSUME IInv, LinkInv, Finish
  PROVE  LinkInv'
<1>1. /\ layout' = layout /\ stack' = stack /\ linked' = Resolved
      /\ Len(stack) = 1 /\ Top.step = "extract" /\ AllFound
  BY DEF Finish
<1>2. /\ Top \in FrameType /\ Answered(Top) /\ Routed(Top) /\ Top.file \in File
  BY TopIs
<1>3. Top.file = Main
  BY <1>1 DEF IInv, OneWay, Top
<1>4. Top.next > Len(layout[Top.file].imports)
  BY <1>1 DEF IInv, Passed, Top
<1>5. /\ Resolved \in Seq(Item)
      /\ Closed(Resolved)
      /\ \E d \in Seq(Item) : Resolved = d \o layout[Top.file].items /\ Single(d)
  BY <1>1, <1>2, <1>4, ResolvedIs DEF LinkInv
<1>6. PICK d \in Seq(Item) : Resolved = d \o layout[Main].items /\ Single(d)
  BY <1>3, <1>5
<1>7. PICK r : r = Resolved
  OBVIOUS
<1>8. layout[Main].items \in Seq(Item) /\ \A i \in DOMAIN layout[Main].items : layout[Main].items[i].file = Main
  BY MainAssumption, LayoutAssumption, WrittenAssumption DEF LinkInv, Typed, Layout
<1>9. ASSUME NEW k \in DOMAIN r, r[k].kind \notin {"impl", "extern"}, r[k].file # Main
      PROVE  k \in DOMAIN d /\ d[k] = r[k]
  <2>1. PICK own, a, b : own = layout[Main].items /\ a = Len(d) /\ b = Len(own)
    OBVIOUS
  <2>2. own \in Seq(Item) /\ r = d \o own
    BY <1>6, <1>7, <1>8, <2>1
  <2>3. /\ a \in Nat /\ b \in Nat /\ DOMAIN d = 1 .. a /\ DOMAIN own = 1 .. b
        /\ DOMAIN r = 1 .. a + b
        /\ \A i \in 1 .. a : r[i] = d[i]
        /\ \A i \in 1 .. b : r[a + i] = own[i]
    BY <2>1, <2>2
  <2>4. CASE k <= a
    BY <2>3, <2>4
  <2>5. CASE ~ (k <= a)
    <3>1. k - a \in 1 .. b /\ a + (k - a) = k
      BY <2>3, <2>5
    <3>2. r[k] = own[k - a]
      BY <2>3, <3>1
    <3> QED
      BY <1>8, <1>9, <2>1, <2>3, <3>1, <3>2
  <2> QED
    BY <2>4, <2>5
<1>10. ASSUME NEW i \in DOMAIN r, NEW n \in Collected(r[i]) \cap InScope(r[i].file)
       PROVE  Defines(r, n)
  BY <1>5, <1>7, <1>10 DEF Closed, In
<1>11. ASSUME NEW i \in DOMAIN r, NEW j \in DOMAIN r,
              r[i].kind \notin {"impl", "extern"}, r[j].kind \notin {"impl", "extern"},
              r[i].file # Main, r[j].file # Main,
              r[i].name = r[j].name
       PROVE  i = j
  BY <1>6, <1>9, <1>11 DEF Single
<1>12. linked' = r /\ \A f : InScope(f)' = InScope(f)
  BY <1>1, <1>7 DEF InScope
<1>13. Linked'
  <2>1. (\A i \in DOMAIN linked :
           \A n \in Collected(linked[i]) \cap InScope(linked[i].file) : Defines(linked, n))'
    BY <1>1, <1>10, <1>12 DEF InScope
  <2> QED
    BY <1>11, <1>12, <2>1 DEF Linked
<1>14. (\A i \in 1 .. Len(stack) : Answered(stack[i]))'
  BY <1>1, AllAnswered DEF LinkInv
<1>15. Routed(Top)'
  BY <1>1 DEF LinkInv, Top, Routed, RouteOf, Mentioned
<1>16. Typed'
  BY <1>1 DEF LinkInv, Typed
<1> QED
  BY <1>13, <1>14, <1>15, <1>16 DEF LinkInv

\* Nothing but the outcome changes, and it is not a success.
LEMMA LinkFails ==
  ASSUME LinkInv, UNCHANGED <<layout, stack, linked>>, outcome' # "done" \/ UNCHANGED outcome
  PROVE  LinkInv'
<1>1. (\A i \in 1 .. Len(stack) : Answered(stack[i]))'
  BY AllAnswered DEF LinkInv
<1>2. Routed(Top)'
  BY DEF LinkInv, Top, Routed, RouteOf, Mentioned
<1>3. Typed'
  BY DEF LinkInv, Typed
<1>4. Linked'
  BY DEF LinkInv, Linked, InScope
<1> QED
  BY <1>1, <1>2, <1>3, <1>4 DEF LinkInv

\* Every step keeps it.
LEMMA LinkKeeps == IInv /\ LinkInv /\ [Next]_vars => LinkInv'
<1> SUFFICES ASSUME IInv, LinkInv, [Next]_vars
             PROVE  LinkInv'
  OBVIOUS
<1>1. CASE ImportStd
  <2>1. CASE TheClause.names \subseteq StdNames
    BY <1>1, <2>1, LinkPasses
  <2>2. CASE ~ (TheClause.names \subseteq StdNames)
    BY <1>1, <2>2, LinkFails DEF ImportStd, Fail
  <2> QED
    BY <2>1, <2>2
<1>2. CASE ImportMissing \/ ImportCircular \/ ImportUnparsable \/ ExtractFails
  BY <1>2, LinkFails DEF ImportMissing, ImportCircular, ImportUnparsable, ExtractFails, Fail
<1>3. CASE UNCHANGED vars
  BY <1>3, LinkFails DEF vars
<1> QED
  BY <1>1, <1>2, <1>3, LinkCalls, LinkSeeds, LinkExpands, LinkReturns, LinkFinishes DEF Next

\* TypeOK of module Imports: the set the code keeps for circular imports is the
\* files on the way to the one being resolved, each of them once, and what every
\* call of resolve_imports has gathered is lists of items.
THEOREM TypeCorrect == Spec => []TypeOK
<1>1. IInv /\ LinkInv /\ [Next]_vars => (IInv /\ LinkInv)'
  BY Keeps, LinkKeeps
<1>2. IInv /\ LinkInv => TypeOK
  <2> SUFFICES ASSUME IInv, LinkInv
               PROVE  TypeOK
    OBVIOUS
  <2>1. layout \in Layout /\ stack \in Seq(FrameType) /\ stack # <<>>
    BY LayoutAssumption DEF LinkInv, Typed, IInv, Calls
  <2>2. DOMAIN stack = 1 .. Len(stack)
    BY <2>1
  <2>3. /\ loading = {stack[i].file : i \in DOMAIN stack}
        /\ \A i, j \in DOMAIN stack : stack[i].file = stack[j].file => i = j
    BY <2>2 DEF IInv, Loading
  <2> QED
    BY <2>1, <2>3 DEF TypeOK, FrameType, Parts, Part, Wanted
<1> QED
  BY <1>1, <1>2, Begins, LinkBegins, PTL DEF Spec

\* Linked of module Imports: when resolution succeeds, every name that
\* collect_names_in_item finds in an item of the module and that was in scope where
\* the item was written is defined in the module, over however many files the fixed
\* point of resolve_imports had to route it, and no two imported items but blocks
\* have one name.  What it does not look for (the trait of an impl block, the bounds
\* of type parameters) may be missing: SiblingsLinked is false.
THEOREM LinkedIsClosed == Spec => []Linked
<1>1. IInv /\ LinkInv /\ [Next]_vars => (IInv /\ LinkInv)'
  BY Keeps, LinkKeeps
<1>2. LinkInv => Linked
  BY DEF LinkInv
<1> QED
  BY <1>1, <1>2, Begins, LinkBegins, PTL DEF Spec

=============================================================================
