--------------------------------- MODULE Arc ---------------------------------
(***************************************************************************)
(* Reference counting and copy-on-write: how the compiled code of one      *)
(* thread keeps the promise of module Values on a shared heap.             *)
(*                                                                         *)
(* The heap holds arrays of integers ("rows") and containers of rows       *)
(* (arrays of arrays, and structs).  An expression leaves its value in     *)
(* temp; the statement that consumes it retains it when it is borrowed     *)
(* from existing storage and takes it over when it is owned, which is the  *)
(* compiler's expr_result_borrows_existing_rc.  Blocks and calls push a    *)
(* frame; leaving one releases its locals one after the other.             *)
(*                                                                         *)
(* Arithmetic, strings (counted like rows), enums, closures and arenas are *)
(* left out: they add no rule of ownership to those below.                 *)
(***************************************************************************)
EXTENDS Integers, Sequences, FiniteSets

CONSTANTS Addr,      \* heap addresses
          Rows, Grids, Structs, Ints, NFields,
          Nil,       \* no address, no name
          MaxLen,    \* bound: elements of an array
          MaxDepth,  \* bound: blocks and calls entered
          Programs,  \* the sets of variables a program may declare
          Forms      \* the forms of statement programs use beyond the core (see Uses)

ASSUME ArcAssumption ==
    /\ Rows \cap Grids = {} /\ Rows \cap Structs = {} /\ Grids \cap Structs = {}
    /\ Ints \cap Addr = {} /\ Nil \notin Addr /\ Nil \notin Rows \cup Grids \cup Structs
    /\ Nil \notin Seq(Ints) \cup Seq(Seq(Ints))
    /\ Programs \subseteq SUBSET (Rows \cup Grids \cup Structs)
    /\ MaxLen \in Nat \ {0} /\ MaxDepth \in Nat /\ NFields \in 0..MaxLen
    /\ IsFiniteSet(Addr) /\ IsFiniteSet(Rows \cup Grids \cup Structs)

VARIABLES declared,  \* the variables this program declares
          heap,      \* [rc, cap, data] of every address; Free when it is not allocated
          env,       \* what every variable is bound to
          frames,    \* the blocks and calls entered, innermost last
          temp,      \* the value of the expression just evaluated
          leaving,   \* variables of a frame that ended, still to be released
          owed       \* the argument reference the caller still has to release

vars == <<declared, heap, env, frames, temp, leaving, owed>>

Nested == Grids \cup Structs
Vars   == Rows \cup Nested
Kind(v) == IF v \in Rows THEN "row" ELSE IF v \in Grids THEN "grid" ELSE "struct"

Free    == [rc |-> 0, cap |-> 0, data |-> << >>]
Unbound == [ptr |-> Nil, mode |-> "none", depth |-> 0]
NoTemp  == [ptr |-> Nil, kind |-> "none", owned |-> FALSE, name |-> Nil]
NoHeld  == [ptr |-> Nil, kind |-> "none"]

-----------------------------------------------------------------------------
(* The runtime's operations on a heap h.                                   *)

FreeCells(h) == {a \in Addr : h[a].rc = 0}

(* Capacities are compared with lengths only, and no length exceeds MaxLen. *)
Capped(n) == IF n > MaxLen THEN MaxLen ELSE n

Alloc(h, a, data, cap) == [h EXCEPT ![a] = [rc |-> 1, cap |-> Capped(cap), data |-> data]]

(* How often a occurs in the slots I of s. *)
Times(a, s, I) == Cardinality({i \in I : s[i] = a})

RetainSlotsNone(h, s, I) == h   \* mutant: a copied container does not retain its elements

RetainSlots(h, s, I) == [a \in Addr |-> [h[a] EXCEPT !.rc = @ + Times(a, s, I)]]
Retain(h, a) == [h EXCEPT ![a].rc = @ + 1]

Unshare(h, a) == [h EXCEPT ![a].rc = @ - 1]

ReleaseRowKeeps(h, a) == Unshare(h, a)   \* mutant: the last release does not free

ReleaseRow(h, a) == IF h[a].rc = 1 THEN [h EXCEPT ![a] = Free] ELSE Unshare(h, a)

ReleaseSlots(h, s) ==
    [a \in Addr |-> IF Times(a, s, DOMAIN s) = 0 THEN h[a]
                    ELSE IF h[a].rc > Times(a, s, DOMAIN s)
                         THEN [h[a] EXCEPT !.rc = @ - Times(a, s, DOMAIN s)]
                         ELSE Free]

(* The children of a container go with its last reference, before it does. *)
ReleaseNested(h, a) ==
    IF h[a].rc = 1 THEN [ReleaseSlots(h, h[a].data) EXCEPT ![a] = Free] ELSE Unshare(h, a)

Release(h, kind, a) == IF kind = "row" THEN ReleaseRow(h, a) ELSE ReleaseNested(h, a)

Shared(h, a) == h[a].rc > 1

(* rt_array_push writes in place when it is the only holder and there is room. *)
PushesInPlace(h, a) == h[a].cap > Len(h[a].data) /\ h[a].rc = 1

NewCap(h, a) ==
    LET doubled == IF h[a].cap > 0 THEN 2 * h[a].cap ELSE 4
        needed  == Len(h[a].data) + 1
    IN  IF doubled < needed THEN needed ELSE doubled

PushInPlace(h, a, x) == [h EXCEPT ![a].data = Append(@, x)]

(* The copy that a push without room makes; the old array keeps its count. *)
PushedCopy(h, a, x, new) == Alloc(h, new, Append(h[a].data, x), NewCap(h, a))

(* rt_array_set and rt_struct_cow: the copy of a shared object. *)
CowCopy(h, a, data, new) == Unshare(Alloc(h, new, data, Len(data)), a)

-----------------------------------------------------------------------------
(* Scopes.  Code sees the variables of its own function only.              *)

Ptr(v) == env[v].ptr
Bound(v) == env[v].mode # "none"
CanBind(v) == ~Bound(v) /\ v \in declared
Depth == Len(frames)
CallDepths == {d \in 1..Depth : frames[d].call}
Base == IF CallDepths = {} THEN 0 ELSE CHOOSE d \in CallDepths : \A e \in CallDepths : e <= d

Visible(v) == Bound(v) /\ v \notin leaving /\ env[v].depth >= Base
Mutable(v) == Visible(v) /\ env[v].mode # "param"

Working == leaving = {} /\ owed = NoHeld     \* no end of a frame is under way
AtStmt  == Working /\ temp = NoTemp
HasTemp(kind) == Working /\ temp # NoTemp /\ temp.kind = kind

Uses(form) == form \in Forms

Init ==
    /\ declared \in Programs
    /\ heap = [a \in Addr |-> Free]
    /\ env = [v \in Vars |-> Unbound]
    /\ frames = << >>
    /\ temp = NoTemp
    /\ leaving = {}
    /\ owed = NoHeld

Repoint(v, a) == env' = [env EXCEPT ![v].ptr = a]

-----------------------------------------------------------------------------
(* compile_expr: the value of an expression and who owns it.               *)

Owned(a, kind) == temp' = [ptr |-> a, kind |-> kind, owned |-> TRUE, name |-> Nil]
Borrowed(a, kind, name) == temp' = [ptr |-> a, kind |-> kind, owned |-> FALSE, name |-> name]

RowLit ==
    /\ AtStmt
    /\ \E a \in FreeCells(heap), s \in {<< >>} \cup {<<n>> : n \in Ints} :
         heap' = Alloc(heap, a, s, Len(s)) /\ Owned(a, "row")
    /\ UNCHANGED <<declared, env, frames, leaving, owed>>

(* [e]: an array literal takes its element over, or retains it. *)
GridLit ==
    /\ HasTemp("row") /\ declared \cap Grids # {}
    /\ \E a \in FreeCells(heap) :
         /\ heap' = LET h == Alloc(heap, a, <<temp.ptr>>, 1)
                    IN  IF temp.owned THEN h ELSE Retain(h, temp.ptr)
         /\ Owned(a, "grid")
    /\ UNCHANGED <<declared, env, frames, leaving, owed>>

(* S { f: r, g: r }: every field named by a variable is retained. *)
StructLit ==
    /\ AtStmt /\ declared \cap Structs # {}
    /\ \E a \in FreeCells(heap), rs \in [1..NFields -> {r \in Rows : Visible(r)}] :
         LET data == [f \in 1..NFields |-> Ptr(rs[f])]
         IN  heap' = RetainSlots(Alloc(heap, a, data, 0), data, 1..NFields)
             /\ Owned(a, "struct")
    /\ UNCHANGED <<declared, env, frames, leaving, owed>>

Ident(v) ==
    /\ AtStmt /\ Visible(v)
    /\ Borrowed(Ptr(v), Kind(v), v)
    /\ UNCHANGED <<declared, heap, env, frames, leaving, owed>>

(* g[i], s.f *)
Place(g, i) ==
    /\ AtStmt /\ Visible(g) /\ i \in DOMAIN heap[Ptr(g)].data
    /\ Borrowed(heap[Ptr(g)].data[i], "row", Nil)
    /\ UNCHANGED <<declared, heap, env, frames, leaving, owed>>

-----------------------------------------------------------------------------
(* Statements that consume the value in temp.                              *)

RetainTemp(h) == IF temp.owned THEN h ELSE Retain(h, temp.ptr)

Let(v) ==
    /\ HasTemp(Kind(v)) /\ CanBind(v)
    /\ heap' = RetainTemp(heap)
    /\ env' = [env EXCEPT ![v] = [ptr |-> temp.ptr, mode |-> "local", depth |-> Depth]]
    /\ temp' = NoTemp
    /\ UNCHANGED <<declared, frames, leaving, owed>>

(* v = e.  Nothing is counted when e is the object v already holds: push returns    *)
(* its argument that way, and so may a block or a call, which own what they return. *)
Assign(v) ==
    /\ HasTemp(Kind(v)) /\ Mutable(v)
    /\ Uses("assign_same") \/ ~temp.owned \/ temp.ptr # Ptr(v)
    /\ heap' = IF Ptr(v) = temp.ptr THEN heap ELSE Release(RetainTemp(heap), Kind(v), Ptr(v))
    /\ Repoint(v, temp.ptr)
    /\ temp' = NoTemp
    /\ UNCHANGED <<declared, frames, leaving, owed>>

(* g[i] = e *)
IndexAssign(g, i) ==
    /\ HasTemp("row") /\ Mutable(g) /\ i \in DOMAIN heap[Ptr(g)].data
    /\ LET old  == heap[Ptr(g)].data
           data == [old EXCEPT ![i] = temp.ptr]
       IN  \/ /\ Shared(heap, Ptr(g))
              /\ \E a \in FreeCells(heap) :
                   /\ heap' = RetainSlots(CowCopy(RetainTemp(heap), Ptr(g), data, a),
                                          data, DOMAIN data \ {i})
                   /\ Repoint(g, a)
           \/ /\ ~Shared(heap, Ptr(g))
              /\ heap' = ReleaseRow([RetainTemp(heap) EXCEPT ![Ptr(g)].data = data], old[i])
              /\ UNCHANGED env
    /\ temp' = NoTemp
    /\ UNCHANGED <<declared, frames, leaving, owed>>

(* s.f = e: the copy retains every field, then the old one is released. *)
FieldAssign(s, f) ==
    /\ HasTemp("row") /\ Mutable(s) /\ f \in DOMAIN heap[Ptr(s)].data
    /\ LET old == heap[Ptr(s)].data
           Store(h, a) == [ReleaseRow(RetainTemp(h), old[f]) EXCEPT ![a].data[f] = temp.ptr]
       IN  \/ /\ Shared(heap, Ptr(s))
              /\ \E a \in FreeCells(heap) :
                   /\ heap' = Store(RetainSlots(CowCopy(heap, Ptr(s), old, a), old, DOMAIN old), a)
                   /\ Repoint(s, a)
           \/ /\ ~Shared(heap, Ptr(s))
              /\ heap' = Store(heap, Ptr(s))
              /\ UNCHANGED env
    /\ temp' = NoTemp
    /\ UNCHANGED <<declared, frames, leaving, owed>>

(* g = push(g, e): the elements the copy shares with the old array are retained. *)
PushRow(g) ==
    /\ HasTemp("row") /\ Mutable(g) /\ Len(heap[Ptr(g)].data) < MaxLen
    /\ LET old == heap[Ptr(g)].data
       IN  \/ /\ PushesInPlace(heap, Ptr(g))
              /\ heap' = PushInPlace(RetainTemp(heap), Ptr(g), temp.ptr)
              /\ UNCHANGED env
           \/ /\ ~PushesInPlace(heap, Ptr(g))
              /\ \E a \in FreeCells(heap) :
                   /\ heap' = ReleaseNested(
                                RetainSlots(PushedCopy(RetainTemp(heap), Ptr(g), temp.ptr, a),
                                            old, DOMAIN old), Ptr(g))
                   /\ Repoint(g, a)
    /\ temp' = NoTemp
    /\ UNCHANGED <<declared, frames, leaving, owed>>

(* An expression statement: an owned value nobody takes is released. *)
ExprStmt ==
    /\ Working /\ temp # NoTemp
    /\ heap' = IF temp.owned THEN Release(heap, temp.kind, temp.ptr) ELSE heap
    /\ temp' = NoTemp
    /\ UNCHANGED <<declared, env, frames, leaving, owed>>

-----------------------------------------------------------------------------
(* Statements on integers.                                                 *)

(* The array at a with its slot i set to n: in place, or a copy when it is shared. *)
SetInt(v, i, n) ==
    /\ AtStmt /\ Mutable(v) /\ i \in DOMAIN heap[Ptr(v)].data
    /\ LET data == [heap[Ptr(v)].data EXCEPT ![i] = n]
       IN  \/ /\ Shared(heap, Ptr(v))
              /\ \E a \in FreeCells(heap) :
                   heap' = CowCopy(heap, Ptr(v), data, a) /\ Repoint(v, a)
           \/ /\ ~Shared(heap, Ptr(v))
              /\ heap' = [heap EXCEPT ![Ptr(v)].data = data]
              /\ UNCHANGED env
    /\ UNCHANGED <<declared, frames, temp, leaving, owed>>

(* mutant: push returns the array it was given and the assignment releases it *)
PushIntReleases(v, n) ==
    /\ AtStmt /\ Mutable(v) /\ PushesInPlace(heap, Ptr(v)) /\ Len(heap[Ptr(v)].data) < MaxLen
    /\ heap' = ReleaseRow(PushInPlace(heap, Ptr(v), n), Ptr(v))
    /\ UNCHANGED <<declared, env, frames, temp, leaving, owed>>

(* v = push(v, n), which is also what the statement push(v, n) is rewritten to. *)
PushInt(v, n) ==
    /\ AtStmt /\ Mutable(v) /\ Len(heap[Ptr(v)].data) < MaxLen
    /\ \/ /\ PushesInPlace(heap, Ptr(v))
          /\ heap' = PushInPlace(heap, Ptr(v), n)
          /\ UNCHANGED env
       \/ /\ ~PushesInPlace(heap, Ptr(v))
          /\ \E a \in FreeCells(heap) :
               heap' = ReleaseRow(PushedCopy(heap, Ptr(v), n, a), Ptr(v)) /\ Repoint(v, a)
    /\ UNCHANGED <<declared, frames, temp, leaving, owed>>

(* let b = push(v, n): what the call returns is owned by b, whoever else holds it. *)
LetPush(b, v, n) ==
    /\ AtStmt /\ Visible(v) /\ CanBind(b) /\ Len(heap[Ptr(v)].data) < MaxLen
    /\ LET Bind(a) == env' = [env EXCEPT ![b] = [ptr |-> a, mode |-> "local", depth |-> Depth]]
       IN  \/ /\ Uses("let_push") /\ PushesInPlace(heap, Ptr(v))
              /\ heap' = PushInPlace(heap, Ptr(v), n)
              /\ Bind(Ptr(v))
           \/ /\ ~PushesInPlace(heap, Ptr(v))
              /\ \E a \in FreeCells(heap) : heap' = PushedCopy(heap, Ptr(v), n, a) /\ Bind(a)
    /\ UNCHANGED <<declared, frames, temp, leaving, owed>>

(* s.f = push(s.f, n), which is what s.f.push(n) is rewritten to: the field's old  *)
(* value is released before the store, whether or not push returned it again.      *)
PushField(s, f, n) ==
    /\ AtStmt /\ Mutable(s) /\ f \in DOMAIN heap[Ptr(s)].data
    /\ LET old == heap[Ptr(s)].data
           r   == old[f]
           Store(h, a, x) == [ReleaseRow(h, r) EXCEPT ![a].data[f] = x]
           Finish(h, x) ==
               \/ /\ Shared(h, Ptr(s))
                  /\ \E a \in FreeCells(h) :
                       /\ heap' = Store(RetainSlots(CowCopy(h, Ptr(s), old, a), old, DOMAIN old), a, x)
                       /\ Repoint(s, a)
               \/ /\ ~Shared(h, Ptr(s))
                  /\ heap' = Store(h, Ptr(s), x)
                  /\ UNCHANGED env
       IN  /\ Len(heap[r].data) < MaxLen
           /\ \/ /\ Uses("place_push") /\ PushesInPlace(heap, r)
                 /\ Finish(PushInPlace(heap, r, n), r)
              \/ /\ ~PushesInPlace(heap, r)
                 /\ \E a \in FreeCells(heap) : Finish(PushedCopy(heap, r, n, a), a)
    /\ UNCHANGED <<declared, frames, temp, leaving, owed>>

(* g[i] = push(g[i], n): the same for an element, which IndexAssign stores first. *)
PushElem(g, i, n) ==
    /\ AtStmt /\ Mutable(g) /\ i \in DOMAIN heap[Ptr(g)].data
    /\ LET r == heap[Ptr(g)].data[i]
           Finish(h, x) ==
             LET data == [heap[Ptr(g)].data EXCEPT ![i] = x]
             IN  \/ /\ Shared(h, Ptr(g))
                    /\ \E a \in FreeCells(h) :
                         /\ heap' = RetainSlots(CowCopy(h, Ptr(g), data, a), data, DOMAIN data \ {i})
                         /\ Repoint(g, a)
                 \/ /\ ~Shared(h, Ptr(g))
                    /\ heap' = ReleaseRow([h EXCEPT ![Ptr(g)].data = data], r)
                    /\ UNCHANGED env
       IN  /\ Len(heap[r].data) < MaxLen
           /\ \/ /\ Uses("place_push") /\ PushesInPlace(heap, r)
                 /\ Finish(PushInPlace(heap, r, n), r)
              \/ /\ ~PushesInPlace(heap, r)
                 /\ \E a \in FreeCells(heap) : Finish(PushedCopy(heap, r, n, a), a)
    /\ UNCHANGED <<declared, frames, temp, leaving, owed>>

(* g[i][j] = n: the row is reached through g, and only a variable is repointed. *)
SetNested(g, i, j, n) ==
    /\ AtStmt /\ Mutable(g) /\ i \in DOMAIN heap[Ptr(g)].data
    /\ LET r == heap[Ptr(g)].data[i]
       IN  /\ j \in DOMAIN heap[r].data
           /\ \/ /\ Uses("nested_set") \/ (~Shared(heap, r) /\ ~Shared(heap, Ptr(g)))
                 /\ ~Shared(heap, r)
                 /\ heap' = [heap EXCEPT ![r].data[j] = n]
              \/ /\ Uses("nested_set") /\ Shared(heap, r)
                 /\ \E a \in FreeCells(heap) :
                      heap' = CowCopy(heap, r, [heap[r].data EXCEPT ![j] = n], a)
    /\ UNCHANGED <<declared, env, frames, temp, leaving, owed>>

-----------------------------------------------------------------------------
(* Blocks and calls.                                                       *)

EnterBlock ==
    /\ AtStmt /\ Depth < MaxDepth
    /\ frames' = Append(frames, [call |-> FALSE, held |-> NoHeld])
    /\ UNCHANGED <<declared, heap, env, temp, leaving, owed>>

(* f(e) with an immutable parameter: it borrows a reference the caller holds. *)
CallBorrowing(p) ==
    /\ HasTemp(Kind(p)) /\ CanBind(p) /\ Depth < MaxDepth
    /\ heap' = RetainTemp(heap)
    /\ env' = [env EXCEPT ![p] = [ptr |-> temp.ptr, mode |-> "param", depth |-> Depth + 1]]
    /\ frames' = Append(frames, [call |-> TRUE, held |-> [ptr |-> temp.ptr, kind |-> temp.kind]])
    /\ temp' = NoTemp
    /\ UNCHANGED <<declared, leaving, owed>>

(* f(e) with a mut parameter: it owns a reference, and the caller one only of a temporary. *)
CallMutable(p) ==
    /\ HasTemp(Kind(p)) /\ CanBind(p) /\ Depth < MaxDepth
    /\ heap' = Retain(heap, temp.ptr)
    /\ env' = [env EXCEPT ![p] = [ptr |-> temp.ptr, mode |-> "mutparam", depth |-> Depth + 1]]
    /\ frames' = Append(frames, [call |-> TRUE,
                  held |-> IF temp.owned THEN [ptr |-> temp.ptr, kind |-> temp.kind] ELSE NoHeld])
    /\ temp' = NoTemp
    /\ UNCHANGED <<declared, leaving, owed>>

(* mutant: the tail of a block is not retained before the locals are released *)
EndBlockBorrows ==
    /\ Working /\ Depth > 0
    /\ temp' = IF temp = NoTemp THEN temp ELSE [temp EXCEPT !.owned = TRUE, !.name = Nil]
    /\ leaving' = {v \in Vars : env[v].depth = Depth /\ env[v].mode \in {"local", "mutparam"}}
    /\ env' = [v \in Vars |-> IF env[v].depth = Depth /\ env[v].mode = "param"
                              THEN Unbound ELSE env[v]]
    /\ owed' = frames[Depth].held
    /\ frames' = SubSeq(frames, 1, Depth - 1)
    /\ UNCHANGED <<declared, heap>>

(* The end of the innermost block, with or without a tail expression. *)
EndBlock ==
    /\ Working /\ Depth > 0
    /\ heap' = IF temp = NoTemp THEN heap ELSE RetainTemp(heap)
    /\ temp' = IF temp = NoTemp THEN temp ELSE [temp EXCEPT !.owned = TRUE, !.name = Nil]
    /\ leaving' = {v \in Vars : env[v].depth = Depth /\ env[v].mode \in {"local", "mutparam"}}
    /\ env' = [v \in Vars |-> IF env[v].depth = Depth /\ env[v].mode = "param"
                              THEN Unbound ELSE env[v]]
    /\ owed' = frames[Depth].held
    /\ frames' = SubSeq(frames, 1, Depth - 1)
    /\ UNCHANGED declared

(* The locals of a block go in any order, mutable parameters after them. *)
ReleaseLocal(v) ==
    /\ v \in leaving
    /\ env[v].mode = "mutparam" => \A w \in leaving : env[w].mode # "local"
    /\ heap' = Release(heap, Kind(v), Ptr(v))
    /\ env' = [env EXCEPT ![v] = Unbound]
    /\ leaving' = leaving \ {v}
    /\ UNCHANGED <<declared, frames, temp, owed>>

(* The call is over: its caller releases the argument it held. *)
ReleaseHeld ==
    /\ leaving = {} /\ owed # NoHeld
    /\ heap' = Release(heap, owed.kind, owed.ptr)
    /\ owed' = NoHeld
    /\ UNCHANGED <<declared, env, frames, temp, leaving>>

(* return e: jumps out of every block of the function.  Mutable parameters are     *)
(* released, locals are not, and only a parameter named by e is retained.          *)
Return ==
    /\ Working /\ Base > 0
    /\ LET mine == {v \in Vars : Bound(v) /\ env[v].depth >= Base}
           lost == {v \in mine : env[v].mode = "local"}
           ofParam == temp.name # Nil /\ env[temp.name].mode # "local"
       IN  /\ Uses("return_locals") \/ lost \subseteq {temp.name}
           /\ Uses("return_place") \/ temp = NoTemp \/ temp.owned \/ temp.name # Nil
           /\ heap' = IF ~temp.owned /\ temp.name # Nil /\ ofParam THEN Retain(heap, temp.ptr) ELSE heap
           /\ leaving' = {v \in mine : env[v].mode = "mutparam"}
           /\ env' = [v \in Vars |-> IF v \in mine \ leaving' THEN Unbound ELSE env[v]]
    /\ temp' = IF temp = NoTemp THEN temp ELSE [temp EXCEPT !.owned = TRUE, !.name = Nil]
    /\ owed' = frames[Base].held
    /\ frames' = SubSeq(frames, 1, Base - 1)
    /\ UNCHANGED declared

-----------------------------------------------------------------------------
Expression ==
    \/ RowLit \/ GridLit \/ StructLit
    \/ \E v \in Vars : Ident(v)
    \/ \E g \in Nested, i \in 1..MaxLen : Place(g, i)

Consuming ==
    \/ \E v \in Vars : Let(v) \/ Assign(v)
    \/ \E g \in Grids : PushRow(g) \/ \E i \in 1..MaxLen : IndexAssign(g, i)
    \/ \E s \in Structs, f \in 1..NFields : FieldAssign(s, f)
    \/ ExprStmt

OnInts ==
    \E n \in Ints :
        \/ \E v \in Rows : PushInt(v, n) \/ \E i \in 1..MaxLen : SetInt(v, i, n)
        \/ \E b, v \in Rows : LetPush(b, v, n)
        \/ \E s \in Structs, f \in 1..NFields : PushField(s, f, n)
        \/ \E g \in Grids, i \in 1..MaxLen : PushElem(g, i, n)
        \/ \E g \in Nested, i, j \in 1..MaxLen : SetNested(g, i, j, n)

Control ==
    \/ EnterBlock \/ EndBlock \/ Return \/ ReleaseHeld
    \/ \E v \in Vars : CallBorrowing(v) \/ CallMutable(v) \/ ReleaseLocal(v)

Next == Expression \/ Consuming \/ OnInts \/ Control

Spec == Init /\ [][Next]_vars

-----------------------------------------------------------------------------
(* Properties.                                                             *)

(* Every allocated cell is counted at least once, a freed one holds nothing, and   *)
(* variables, frames and the pending value are of the kinds the compiler tracks.   *)
TypeOK ==
    /\ \A a \in Addr :
         /\ heap[a].rc \in Nat /\ heap[a].cap \in 0..MaxLen
         /\ heap[a].data \in Seq(Ints \cup Addr) /\ Len(heap[a].data) <= MaxLen
         /\ heap[a].rc = 0 => heap[a] = Free
    /\ declared \in Programs /\ \A v \in Vars : Bound(v) => v \in declared
    /\ env \in [Vars -> {Unbound} \cup
                        [ptr : Addr, mode : {"local", "param", "mutparam"}, depth : 0..MaxDepth]]
    /\ \A v \in Vars : Bound(v) /\ v \notin leaving => env[v].depth <= Depth
    /\ temp \in {NoTemp} \cup [ptr : Addr, kind : {"row", "grid", "struct"},
                               owned : BOOLEAN, name : Vars \cup {Nil}]
    /\ leaving \subseteq {v \in Vars : Bound(v)}
    /\ owed \in {NoHeld} \cup [ptr : Addr, kind : {"row", "grid", "struct"}]
    /\ Depth <= MaxDepth
    /\ \A d \in 1..Depth :
         /\ frames[d].call \in BOOLEAN
         /\ frames[d].held \in {NoHeld} \cup [ptr : Addr, kind : {"row", "grid", "struct"}]

(* The places that own a reference to a: variables, slots, calls, the pending value. *)
HoldingVars(a)   == {v \in Vars : Ptr(v) = a /\ env[v].mode \in {"local", "mutparam"}}
HoldingSlots(a)  == {s \in Addr \X (1..MaxLen) :
                        s[2] \in DOMAIN heap[s[1]].data /\ heap[s[1]].data[s[2]] = a}
HoldingCalls(a)  == {d \in 1..Depth : frames[d].held.ptr = a}
HoldingOthers(a) == {x \in {"temp", "owed"} : \/ x = "temp" /\ temp.ptr = a /\ temp.owned
                                              \/ x = "owed" /\ owed.ptr = a}

References(a) == Cardinality(HoldingVars(a)) + Cardinality(HoldingSlots(a))
                 + Cardinality(HoldingCalls(a)) + Cardinality(HoldingOthers(a))

(* A reference count is exactly the number of places that own a reference, at      *)
(* every statement and in the middle of every scope exit: nothing is freed while   *)
(* it can be reached, nothing is freed twice, and what cannot be reached is freed. *)
RefcountExact == \A a \in Addr : heap[a].rc = References(a)

(* No variable in scope, borrowed parameters and the pending value included, points *)
(* to memory that was released.                                                     *)
NoDangling ==
    /\ \A v \in Vars : Bound(v) => heap[Ptr(v)].rc > 0
    /\ temp # NoTemp => heap[temp.ptr].rc > 0
    /\ \A a \in Addr : \A i \in DOMAIN heap[a].data :
         heap[a].data[i] \in Addr => heap[heap[a].data[i]].rc > 0

(* Reading a variable through the heap gives the value it would hold were nothing  *)
(* shared, at every step: assignments reach the variable they name and no other,   *)
(* and leaving a scope changes no variable that stays.                             *)
Deref(kind, a) ==
    IF kind = "row" THEN heap[a].data
    ELSE [i \in DOMAIN heap[a].data |-> heap[heap[a].data[i]].data]

View(v) == IF Bound(v) /\ v \notin leaving THEN Deref(Kind(v), Ptr(v)) ELSE Nil
Seen    == [v \in Vars |-> View(v)]
Shown   == IF temp = NoTemp THEN Nil ELSE Deref(temp.kind, temp.ptr)

V == INSTANCE Values WITH None <- Nil, val <- Seen, kind <- temp.kind, result <- Shown

ImplementsValues == V!Spec
=============================================================================
