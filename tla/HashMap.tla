------------------------------- MODULE HashMap -------------------------------
(***************************************************************************)
(* The typed map of the AOT runtime (turbo_rt.c, "Generic HashMap<K,V>     *)
(* core"): open addressing with linear probing, a table that doubles       *)
(* before it is three quarters full, and a removal that takes out and puts *)
(* back every entry behind the hole.  Its values are reference counted.    *)
(*                                                                         *)
(* A map made at startup is persistent: its table is malloc'd.  One made   *)
(* while a request is handled lives in the request's arena.  The arena is  *)
(* also where every value made during the request lives; such a value is   *)
(* not counted, and the end of the request takes it back.                  *)
(*                                                                         *)
(* Each turn of a loop that moves entries is a step; a probe is one step,  *)
(* since nothing changes while it runs.  One thread uses the map: the C    *)
(* runtime takes no lock.  Keys are compared and copied by value, so they  *)
(* are members of a set; out of memory ends the process.                   *)
(***************************************************************************)
EXTENDS Integers, FiniteSets

CONSTANTS
  Key,
  Val,        \* the addresses of values
  Hashes,     \* the hash functions to consider: members of [Key -> Nat]
  InitCap,    \* HASHMAP_INIT_CAP
  MaxCap,     \* bound: the table does not grow beyond it
  MaxRefs,    \* bound: references to one value the program holds
  MaxHandles, \* bound: handles on the map
  Forms,      \* what handlers of requests do beyond the core (see Uses)
  None        \* no key, no value, no slot

ASSUME KeyAssumption == None \notin Key /\ IsFiniteSet(Key)
ASSUME ValAssumption == None \notin Val
ASSUME HashAssumption == Hashes \subseteq [Key -> Nat] /\ None \notin Nat
ASSUME BoundAssumption == /\ InitCap \in Nat /\ InitCap >= 2
                          /\ MaxCap \in Nat /\ MaxRefs \in Nat \ {0} /\ MaxHandles \in Nat \ {0}

VARIABLES
  hash,        \* hashmap_ghash; it never changes
  persistent,  \* map->persistent
  capacity, count,
  table,       \* map->entries: slots 0 .. capacity - 1
  old,         \* the table that is being copied, slots 0 .. capacity / 2 - 1
  cursor,      \* the loop variable of a copy (i) or a removal (next)
  pc,          \* where the map's code is; "idle" between calls, "freed" at the end
  op,          \* the key and the value of the set under way
  handles,     \* map->refcount
  arena,       \* is a request being handled?
  value,       \* value[v]: where v is allocated and its reference count
  mine,        \* how many references to v the program holds and will release
  boxed        \* how many it holds through an optional made in the arena

vars == <<hash, persistent, capacity, count, table, old, cursor, pc, op, handles,
          arena, value, mine, boxed>>

config  == <<hash, persistent>>
program == <<handles, arena, mine, boxed>>

Vacant == [key |-> None, val |-> None]
NoOp   == Vacant
Slots(cap) == 0 .. cap - 1
Cleared(cap) == [i \in Slots(cap) |-> Vacant]

Freed == [home |-> "free", rc |-> 0]

Uses(form) == form \in Forms

\* The map is made by hashmap(): at startup, or by a handler.
Init ==
  /\ hash \in Hashes
  /\ persistent \in BOOLEAN
  /\ capacity = InitCap /\ count = 0
  /\ table = Cleared(InitCap)
  /\ old = Cleared(0)
  /\ cursor = 0
  /\ pc = "idle"
  /\ op = NoOp
  /\ handles = 1
  /\ arena = ~ persistent
  /\ value = [v \in Val |-> Freed]
  /\ mine = [v \in Val |-> 0]
  /\ boxed = [v \in Val |-> 0]

-----------------------------------------------------------------------------
(* Probing *)

\* The slot d places after the one k hashes to, in a table of cap slots.
Probe(k, d, cap) == (hash[k] + d) % cap

\* The first place of a probe where P holds of the slot.
First(D) == CHOOSE d \in D : \A e \in D : d <= e

\* hashmap_gfind: the probe stops at the key, at a vacant slot, or when it has
\* seen the whole table.
Find(k) ==
  LET stops == {d \in Slots(capacity) : table[Probe(k, d, capacity)].key \in {k, None}}
      slot  == Probe(k, First(stops), capacity)
  IN  IF stops # {} /\ table[slot].key = k THEN slot ELSE None

\* The loops that insert: the first vacant slot.  Without one they never end.
VacantPlaces(t, k) == {d \in DOMAIN t : t[Probe(k, d, Cardinality(DOMAIN t))] = Vacant}
Insert(t, e) ==
  [t EXCEPT ![Probe(e.key, First(VacantPlaces(t, e.key)), Cardinality(DOMAIN t))] = e]

-----------------------------------------------------------------------------
(* rt_retain and rt_release: no-ops on values of an arena *)

Retained(v) == IF value[v].home = "heap" THEN [value EXCEPT ![v].rc = @ + 1] ELSE value

ReleaseTimes(vs, n) ==
  [v \in Val |->
     IF vs[v].home # "heap" \/ n[v] = 0 THEN vs[v]
     ELSE IF vs[v].rc > n[v] THEN [vs[v] EXCEPT !.rc = @ - n[v]] ELSE Freed]

Released(vs, v) == ReleaseTimes(vs, [w \in Val |-> IF w = v THEN 1 ELSE 0])

-----------------------------------------------------------------------------
(* Mutants: none is part of the specification. *)

\* The removal leaves the entries behind the hole where they are.
RemoveLeavesHole(k) ==
  /\ pc = "idle" /\ Find(k) # None
  /\ value' = Released(value, table[Find(k)].val)
  /\ table' = [table EXCEPT ![Find(k)] = Vacant]
  /\ count' = count - 1
  /\ UNCHANGED <<config, capacity, old, cursor, pc, op, program>>

\* Overwriting a value does not release the one before.
OverwriteLeaks(i) ==
  /\ table' = [table EXCEPT ![i].val = op.val]
  /\ value' = Retained(op.val)
  /\ count' = count

\* The copying leaves out the last slot of the old table.
CopyDoneEarly ==
  /\ pc = "copy" /\ cursor + 1 \notin DOMAIN old
  /\ pc' = "store"
  /\ old' = Cleared(0)
  /\ cursor' = 0
  /\ UNCHANGED <<config, capacity, count, table, op, value, program>>

\* The loop of a removal stays at the end of the table, or runs past it.
SuccNoWrap(i) == IF i + 1 = capacity THEN i ELSE i + 1
SuccPastEnd(i) == i + 1

-----------------------------------------------------------------------------
(* rt_hashmap_gset *)

Holds(v) == mine[v] + boxed[v] > 0

\* (count + 1) > capacity * 0.75
MustGrow == 4 * (count + 1) > 3 * capacity

\* hashmap_gresize: an empty table of twice the size, then the copying.
Grow ==
  /\ old' = table
  /\ table' = Cleared(2 * capacity)
  /\ capacity' = 2 * capacity
  /\ count' = 0
  /\ cursor' = 0

\* A handler that stores a value made by its own request is a form of its own.
Set(k, v) ==
  /\ pc = "idle"
  /\ Holds(v)
  /\ value[v].home = "heap" \/ ~ persistent \/ Uses("request_value")
  /\ op' = [key |-> k, val |-> v]
  /\ \/ /\ MustGrow /\ 2 * capacity <= MaxCap
        /\ pc' = "copy"
        /\ Grow
     \/ /\ ~ MustGrow
        /\ pc' = "store"
        /\ UNCHANGED <<capacity, count, table, old, cursor>>
  /\ UNCHANGED <<config, value, program>>

CopyEntry ==
  /\ pc = "copy" /\ cursor \in DOMAIN old
  /\ \/ /\ old[cursor] # Vacant
        /\ VacantPlaces(table, old[cursor].key) # {}
        /\ table' = Insert(table, old[cursor])
        /\ count' = count + 1
     \/ old[cursor] = Vacant /\ UNCHANGED <<table, count>>
  /\ cursor' = cursor + 1
  /\ UNCHANGED <<config, capacity, old, pc, op, value, program>>

CopyDone ==
  /\ pc = "copy" /\ cursor \notin DOMAIN old
  /\ pc' = "store"
  /\ old' = Cleared(0)
  /\ cursor' = 0
  /\ UNCHANGED <<config, capacity, count, table, op, value, program>>

\* The new value is retained before the old one is released.
Overwrite(i) ==
  /\ table' = [table EXCEPT ![i].val = op.val]
  /\ value' = Released(Retained(op.val), table[i].val)
  /\ count' = count

Add ==
  /\ VacantPlaces(table, op.key) # {}
  /\ table' = Insert(table, op)
  /\ value' = Retained(op.val)
  /\ count' = count + 1

Store ==
  /\ pc = "store"
  /\ IF Find(op.key) # None THEN Overwrite(Find(op.key)) ELSE Add
  /\ pc' = "idle"
  /\ op' = NoOp
  /\ UNCHANGED <<config, capacity, old, cursor, program>>

-----------------------------------------------------------------------------
(* rt_hashmap_gremove *)

\* next = (next + 1) % capacity
Succ(i) == IF i + 1 = capacity THEN 0 ELSE i + 1

Remove(k) ==
  /\ pc = "idle" /\ Find(k) # None
  /\ value' = Released(value, table[Find(k)].val)
  /\ table' = [table EXCEPT ![Find(k)] = Vacant]
  /\ count' = count - 1
  /\ cursor' = Succ(Find(k))
  /\ pc' = "shift"
  /\ UNCHANGED <<config, capacity, old, op, program>>

\* The entry at the cursor is taken out and inserted again.
Shift ==
  /\ pc = "shift" /\ table[cursor] # Vacant
  /\ table' = Insert([table EXCEPT ![cursor] = Vacant], table[cursor])
  /\ cursor' = Succ(cursor)
  /\ UNCHANGED <<config, capacity, count, old, pc, op, value, program>>

ShiftDone ==
  /\ pc = "shift" /\ table[cursor] = Vacant
  /\ pc' = "idle"
  /\ cursor' = 0
  /\ UNCHANGED <<config, capacity, count, table, old, op, value, program>>

-----------------------------------------------------------------------------
(* rt_hashmap_gget, rt_hashmap_gretain, rt_hashmap_grelease *)

storage == <<capacity, count, table, old, cursor, op>>

\* A hit is returned in an optional, which holds a reference.  The optional a
\* handler gets lies in the arena, so the code that drops it (expr.rs) finds no
\* last reference and leaves what it holds alone: a form of its own.
Get(k) ==
  /\ pc = "idle" /\ Find(k) # None
  /\ LET v == table[Find(k)].val
     IN  /\ mine[v] + boxed[v] < MaxRefs
         /\ value' = Retained(v)
         /\ \/ /\ ~ arena
               /\ mine' = [mine EXCEPT ![v] = @ + 1]
               /\ UNCHANGED boxed
            \/ /\ arena
               /\ value[v].home # "heap" \/ Uses("request_get")
               /\ boxed' = [boxed EXCEPT ![v] = @ + 1]
               /\ UNCHANGED mine
  /\ UNCHANGED <<config, storage, pc, handles, arena>>

RetainMap ==
  /\ pc = "idle" /\ handles < MaxHandles
  /\ handles' = handles + 1
  /\ UNCHANGED <<config, storage, pc, arena, value, mine, boxed>>

\* The last handle takes the entries with it.
ReleaseMap ==
  /\ pc = "idle"
  /\ handles' = handles - 1
  /\ IF handles = 1
       THEN /\ value' = ReleaseTimes(value, [v \in Val |->
                          Cardinality({i \in DOMAIN table : table[i].val = v})])
            /\ table' = Cleared(capacity)
            /\ count' = 0
            /\ pc' = "freed"
       ELSE UNCHANGED <<value, table, count, pc>>
  /\ UNCHANGED <<config, capacity, old, cursor, op, arena, mine, boxed>>

-----------------------------------------------------------------------------
(* The program, and the requests it handles *)

rest == <<config, storage, pc, handles>>

\* A value is allocated: by a handler, in its arena.
NewValue(v) ==
  /\ value[v].home = "free"
  /\ value' = [value EXCEPT ![v] = IF arena THEN [home |-> "arena", rc |-> 0]
                                            ELSE [home |-> "heap", rc |-> 1]]
  /\ mine' = [mine EXCEPT ![v] = 1]
  /\ UNCHANGED <<rest, arena, boxed>>

DropValue(v) ==
  /\ mine[v] > 0
  /\ mine' = [mine EXCEPT ![v] = @ - 1]
  /\ value' = Released(value, v)
  /\ UNCHANGED <<rest, arena, boxed>>

RequestBegins ==
  /\ ~ arena
  /\ arena' = TRUE
  /\ UNCHANGED <<rest, value, mine, boxed>>

\* rt_arena_end.  The variables of the handler are gone, the map among them if
\* the handler made it.
RequestEnds ==
  /\ arena
  /\ pc = "freed" \/ persistent
  /\ arena' = FALSE
  /\ value' = [v \in Val |-> IF value[v].home = "arena" THEN Freed ELSE value[v]]
  /\ mine' = [v \in Val |-> IF value[v].home = "arena" THEN 0 ELSE mine[v]]
  /\ boxed' = [v \in Val |-> 0]
  /\ UNCHANGED rest

\* One thread: the program goes on when the call has returned.
Program ==
  /\ pc \in {"idle", "freed"}
  /\ \/ RequestBegins \/ RequestEnds
     \/ \E v \in Val : NewValue(v) \/ DropValue(v)

\* What the code of a call that has begun does by itself.
Internal == CopyEntry \/ CopyDone \/ Store \/ Shift \/ ShiftDone

Next ==
  \/ Internal \/ RetainMap \/ ReleaseMap \/ Program
  \/ \E k \in Key : Remove(k) \/ Get(k) \/ \E v \in Val : Set(k, v)

Spec == Init /\ [][Next]_vars

\* A call that has begun runs on.
FairSpec == Spec /\ WF_vars(Internal)

-----------------------------------------------------------------------------
(* Properties *)

TypeOK ==
  /\ hash \in Hashes /\ persistent \in BOOLEAN /\ arena \in BOOLEAN
  /\ capacity \in Nat /\ capacity > 0
  /\ count \in 0 .. capacity
  /\ table \in [Slots(capacity) -> {Vacant} \cup [key : Key, val : Val]]
  /\ old \in [Slots(0) \cup DOMAIN old -> {Vacant} \cup [key : Key, val : Val]]
  /\ pc \in {"idle", "copy", "store", "shift", "freed"}
  /\ cursor \in Nat /\ (pc = "shift" => cursor \in Slots(capacity))
  /\ op \in {NoOp} \cup [key : Key, val : Val] /\ (op = NoOp <=> pc \notin {"copy", "store"})
  /\ handles \in 0 .. MaxHandles
  /\ value \in [Val -> [home : {"free", "heap", "arena"}, rc : Nat]]
  /\ mine \in [Val -> 0 .. MaxRefs] /\ boxed \in [Val -> 0 .. MaxRefs]

\* Where a key is: in the table, or in the part of the old one still to copy.
Entries ==
  {table[i] : i \in {j \in DOMAIN table : table[j] # Vacant}}
    \cup {old[i] : i \in {j \in DOMAIN old : j >= cursor /\ old[j] # Vacant}}

Content == [k \in Key |-> IF \E e \in Entries : e.key = k
                            THEN (CHOOSE e \in Entries : e.key = k).val ELSE None]

Phase == CASE pc \in {"copy", "store"} -> "setting" [] pc = "shift" -> "removing"
           [] pc = "idle" -> "idle" [] pc = "freed" -> "dropped"

Map == INSTANCE KeyValue WITH store <- Content, phase <- Phase, pending <- op

\* The table is a map: every call, growing and moving included, changes what it
\* holds the way a function from keys to values changes.
ImplementsMap == Map!Spec

\* Between two calls a probe finds every key that is there, once, and no key that
\* is not; the count is the number of keys.  Even while entries move the table is
\* at most three quarters full, so a probe for a missing key ends.
LookupsAgree ==
  /\ 4 * Cardinality({i \in DOMAIN table : table[i] # Vacant}) <= 3 * capacity
  /\ pc = "idle" =>
    /\ count = Cardinality({k \in Key : Content[k] # None})
    /\ \A k \in Key :
         /\ Content[k] # None <=> Find(k) # None
         /\ \A i, j \in DOMAIN table : table[i].key = k /\ table[j].key = k => i = j

\* The count of a heap value is exact: one for each reference of the program and
\* one for each entry.  Nothing points to a value that was freed or that went with
\* the arena of its request.
EntriesOf(v) ==
  Cardinality({i \in DOMAIN table : table[i].val = v})
    + Cardinality({i \in DOMAIN old : i >= cursor /\ old[i].val = v})

CountsExact ==
  \A v \in Val :
    /\ value[v].home = "heap" => value[v].rc = mine[v] + boxed[v] + EntriesOf(v)
    /\ value[v].home = "free" => mine[v] + boxed[v] + EntriesOf(v) = 0

\* Every call returns: no probe and no moving of entries goes round for ever.
CallsReturn == pc \notin {"idle", "freed"} ~> pc \in {"idle", "freed"}
=============================================================================
