------------------------------- MODULE Values -------------------------------
(***************************************************************************)
(* What Turbo promises of arrays and structs: they are values.  A variable *)
(* holds its own sequence, binding or passing one copies it, and an        *)
(* assignment to an element changes the variable it names and nothing      *)
(* else.  There is no heap, no sharing and no reference count here; Arc    *)
(* is shown to implement this module.                                      *)
(***************************************************************************)
EXTENDS Integers, Sequences

CONSTANTS Rows,      \* variables that hold a sequence of integers
          Grids,     \* variables that hold a sequence of rows (arrays of arrays)
          Structs,   \* variables that hold a fixed number of rows (structs)
          Ints,      \* the integers a program stores
          NFields,   \* the number of fields of a struct
          None       \* an unbound variable, or no expression value

VARIABLES val,       \* the value of every variable in scope
          kind,      \* the type of the expression just evaluated, "none" when there is none
          result     \* its value

vars == <<val, kind, result>>

Nested == Grids \cup Structs
Vars   == Rows \cup Nested
VarsOf(k) == CASE k = "row" -> Rows [] k = "grid" -> Grids [] k = "struct" -> Structs

Init == val = [v \in Vars |-> None] /\ kind = "none" /\ result = None

Bound(v) == val[v] # None

(* An expression is evaluated: a literal, a variable or an element of one. *)
Literal ==
    /\ kind = "none" /\ kind' = "row"
    /\ result' = << >> \/ \E n \in Ints : result' = <<n>>

Read ==
    /\ kind = "none" /\ kind' # "none"
    /\ \E v \in VarsOf(kind') : Bound(v) /\ result' = val[v]

ReadElem ==
    /\ kind = "none" /\ kind' = "row"
    /\ \E v \in Nested : Bound(v) /\ \E i \in DOMAIN val[v] : result' = val[v][i]

Build ==
    /\ kind = "none" /\ kind' = "struct"
    /\ \E rs \in [1..NFields -> Rows] :
         (\A f \in 1..NFields : Bound(rs[f])) /\ result' = [f \in 1..NFields |-> val[rs[f]]]

Wrap == kind = "row" /\ kind' = "grid" /\ result' = <<result>>

Evaluate == (Literal \/ Read \/ ReadElem \/ Build \/ Wrap) /\ UNCHANGED val

(* The value just computed is bound, stored in an element, appended or dropped. *)
Bind == \E v \in VarsOf(kind) : val' = [val EXCEPT ![v] = result]

StoreElem ==
    /\ kind = "row"
    /\ \E v \in Nested : Bound(v) /\ \E i \in DOMAIN val[v] : val' = [val EXCEPT ![v][i] = result]

AppendElem ==
    /\ kind = "row"
    /\ \E v \in Grids : Bound(v) /\ val' = [val EXCEPT ![v] = Append(@, result)]

Discard == UNCHANGED val

Consume ==
    /\ kind # "none" /\ kind' = "none" /\ result' = None
    /\ Bind \/ StoreElem \/ AppendElem \/ Discard

(* Statements on integers: x[i] = n, x = push(x, n), and the same one level down. *)
StoreInt ==
    \E v \in Rows, n \in Ints : Bound(v) /\ \E i \in DOMAIN val[v] :
        val' = [val EXCEPT ![v][i] = n]

AppendInt ==
    \E v \in Rows, n \in Ints : Bound(v) /\ val' = [val EXCEPT ![v] = Append(@, n)]

StoreNested ==
    \E v \in Nested, n \in Ints : Bound(v) /\ \E i \in DOMAIN val[v] : \E j \in DOMAIN val[v][i] :
        val' = [val EXCEPT ![v][i][j] = n]

AppendNested ==
    \E v \in Nested, n \in Ints : Bound(v) /\ \E i \in DOMAIN val[v] :
        val' = [val EXCEPT ![v][i] = Append(@, n)]

(* let b = push(a, n): a keeps its value, b has one element more. *)
BindAppended ==
    \E a, b \in Rows, n \in Ints : Bound(a) /\ val' = [val EXCEPT ![b] = Append(val[a], n)]

Mutate ==
    kind = "none" /\ UNCHANGED <<kind, result>>
    /\ (StoreInt \/ AppendInt \/ StoreNested \/ AppendNested \/ BindAppended)

(* A block or a function ends: some variables go out of scope. *)
Leave ==
    /\ DOMAIN val' = Vars /\ \A v \in Vars : val'[v] \in {None, val[v]}
    /\ UNCHANGED <<kind, result>>

Next == Evaluate \/ Consume \/ Mutate \/ Leave

Spec == Init /\ [][Next]_vars
=============================================================================
