------------------------------- MODULE Exits -------------------------------
(***************************************************************************)
(* `defer` and the ways out of a block, as the two code generators lay     *)
(* them out.  The back end of `run` and `build` (Cranelift) stops a block  *)
(* at its first part that leaves it, and emits the block's deferred        *)
(* expressions only on a path that falls off its end.  The wasm back end   *)
(* writes C: it keeps a stack of the scopes' deferred expressions and      *)
(* writes them all out before a `return` it meets in statement position.   *)
(* A block in value position (a block that is a statement, or the tail of  *)
(* a function that returns a value) becomes a statement expression of C,   *)
(* which other code writes.                                                *)
(*                                                                         *)
(* The code is run one instruction at a time, with every outcome of its    *)
(* conditions, and beside it the source is: what a function means, one     *)
(* part at a time, under the same outcomes.  An instruction holds the      *)
(* number of a nested block and what its code generator passes down to it; *)
(* as that is all the block's code depends on, the code is written out     *)
(* when control comes to it.                                               *)
(***************************************************************************)
EXTENDS Naturals, Sequences, FiniteSets

CONSTANTS
    Functions, \* the functions compiled
    MaxTests   \* a run takes this many conditions freely, then all are false

(***************************************************************************)
(* The blocks of a function are numbered, its body first and each before   *)
(* the blocks nested in it.  A part of a block is "act" (a call that       *)
(* yields a value), "defer", "return" (n = 0: without an expression, and   *)
(* then the last part of its block), "try" (`?` on the value last          *)
(* computed), "break", "continue", "if" (else = 0: without one), "while"   *)
(* or "block" (then is their block).  An expression just before the        *)
(* closing brace is the block's tail, whatever it is.                      *)
(***************************************************************************)
Leaving == {"break", "continue"}
Asks == {"if", "while", "try"}
PartKind == {"act", "defer", "return", "block"} \cup Leaving \cup Asks

Part == [k : PartKind, n : Nat, then : Nat, else : Nat]
Block == [parts : Seq(Part), tailed : BOOLEAN]
Function == [void : BOOLEAN, blocks : Seq(Block)]

Parts(f, b) == f.blocks[b].parts

\* A nested block has a higher number; a defer and a return are statements.
WellNested(f) ==
    /\ f.blocks # <<>>
    /\ \A b \in DOMAIN f.blocks :
          /\ f.blocks[b].tailed =>
                /\ Parts(f, b) # <<>>
                /\ Parts(f, b)[Len(Parts(f, b))].k \notin {"defer", "return"}
          /\ \A i \in DOMAIN Parts(f, b) :
                LET p == Parts(f, b)[i]
                    inside == (b + 1) .. Len(f.blocks)
                IN  /\ IF p.k \in {"if", "while", "block"} THEN p.then \in inside
                       ELSE p.then = 0
                    /\ p.k = "if" => p.else \in inside \cup {0}

ASSUME FunctionsAssumption == Functions \subseteq {f \in Function : WellNested(f)}
ASSUME MaxTestsAssumption == MaxTests \in Nat

VARIABLES
    function, \* the function
    backend,  \* "native" or "wasm"
    stage,    \* "source", "refused", "running" or "done"
    code,     \* the instructions still to run, the nearest first
    loops,    \* for each loop being run, the code from its header on, innermost first
    trace,    \* the calls the code made, in order
    acc,      \* the value it computed last, deferred calls aside
    asked,    \* how many conditions were taken
    frames,   \* the blocks the source is in, innermost first
    exit,     \* how the source is leaving them ("next" when it is not)
    meant,    \* the calls of the source, each with the way its block was left
    result    \* the value the source computed last

target == <<code, loops, trace, acc>>
source == <<frames, exit, meant, result>>
exits_vars == <<function, backend, stage, asked, target, source>>

-----------------------------------------------------------------------------
(* Instructions. *)

\* What a code generator passes down to a block: how the block is written, and
\* (wasm) what the scopes around it have deferred, the last first.
ContextKind == {"native", "inner", "void", "value", "lost"}
Context == [kind : ContextKind, owed : Seq(Nat)]
In(kind, owed) == [kind |-> kind, owed |-> owed]
Native == In("native", <<>>)
\* A block that is an expression of C: its statements are written without the
\* scopes around it.
Inner == In("inner", <<>>)

Conditions == {"test", "try", "loop", "again"}
Op == {"do", "clean", "enter", "ret", "error"} \cup Leaving \cup Conditions
Instr == [op : Op, n : Nat, then : Nat, else : Nat, under : Context]
Ins(op, n, then, else, c) == [op |-> op, n |-> n, then |-> then, else |-> else, under |-> c]

Do(n) == Ins("do", n, 0, 0, Native)
Clean(n) == Ins("clean", n, 0, 0, Native)
Branching(then, else, c) == Ins("test", 0, then, else, c)
Loop(body, c) == Ins("loop", 0, body, 0, c)
Again(body, c) == Ins("again", 0, body, 0, c)
Enter(body, c) == Ins("enter", 0, body, 0, c)
Sole(op) == Ins(op, 0, 0, 0, Native)
Ret == Sole("ret")
Error == Sole("error")

\* The expression of a return, when it has one.
Value(p) == IF p.n = 0 THEN <<>> ELSE <<Do(p.n)>>

\* Mutant, not part of the specification: the first one first.
DeferredInOrder(parts, i) ==
    LET deferred[j \in 0 .. Len(parts)] ==
            IF j = 0 THEN <<>>
            ELSE deferred[j - 1] \o (IF parts[j].k = "defer" THEN <<parts[j].n>> ELSE <<>>)
    IN  deferred[i]

\* The deferred expressions among the first i parts, the last one first.
Deferred(parts, i) ==
    LET deferred[j \in 0 .. Len(parts)] ==
            IF j = 0 THEN <<>>
            ELSE (IF parts[j].k = "defer" THEN <<parts[j].n>> ELSE <<>>) \o deferred[j - 1]
    IN  deferred[i]

\* The calls of some deferred expressions.
Cleanups(deferred) == [i \in DOMAIN deferred |-> Clean(deferred[i])]

-----------------------------------------------------------------------------
(* What both code generators need to know of a block. *)

\* Nothing is reachable after the part: a return, break or continue opens a
\* block that no jump enters, and an if both of whose arms do so never merges.
DiesIn(dies, p) ==
    \/ p.k \in Leaving \cup {"return"}
    \/ p.k = "block" /\ dies[p.then]
    \/ p.k = "if" /\ p.else # 0 /\ dies[p.then] /\ dies[p.else]

BlocksDying(f) ==
    LET dies[b \in DOMAIN f.blocks] ==
            \E i \in DOMAIN Parts(f, b) : DiesIn(dies, Parts(f, b)[i])
    IN  dies

Dies(f, p) == DiesIn(BlocksDying(f), p)

\* The C type inferred for a block's tail is one a temporary can have.
Yields(f, b) ==
    LET yields[d \in DOMAIN f.blocks] ==
            LET p == Parts(f, d)[Len(Parts(f, d))]
            IN  /\ f.blocks[d].tailed
                /\ \/ p.k = "act"
                   \/ p.k = "block" /\ yields[p.then]
                   \/ p.k = "if" /\ \A a \in {p.then, p.else} \ {0} : yields[a]
    IN  yields[b]

-----------------------------------------------------------------------------
(* The code generators. *)

\* A part as native code, or as wasm writes it in value position: a return
\* runs no deferred expression.
Usual(p, c) ==
    CASE p.k = "act" -> <<Do(p.n)>>
      [] p.k = "defer" -> <<>>
      [] p.k = "return" -> Append(Value(p), Ret)
      [] p.k = "try" -> <<IF c.kind = "native" THEN Sole("try") ELSE Error>>
      [] p.k \in Leaving -> <<Sole(p.k)>>
      [] p.k = "if" -> <<Branching(p.then, p.else, c)>>
      [] p.k = "while" -> <<Loop(p.then, c)>>
      [] p.k = "block" -> <<Enter(p.then, c)>>

\* A tail whose value wasm wants: a break or continue is written as a name that
\* C does not know, and one that waits for deferred expressions is kept in a
\* temporary, which must have a type.
WasmTail(f, b, p) ==
    IF p.k \in Leaving \/ (Deferred(Parts(f, b), Len(Parts(f, b))) # <<>> /\ ~Yields(f, b))
    THEN <<Error>>
    ELSE Usual(p, Inner)

\* How the body of an if or a while is written, under the scopes live there: a
\* return always without a value, which C refuses in a function that has one.
Nested(c) == In(IF c.kind = "void" THEN "void" ELSE "lost", c.owed)

\* A statement of wasm: before a return, what every live scope has deferred.
WasmStmt(p, c) ==
    CASE p.k = "return" ->
             IF c.kind = "lost" THEN <<Error>> ELSE Value(p) \o Cleanups(c.owed) \o <<Ret>>
      [] p.k = "if" -> <<Branching(p.then, p.else, Nested(c))>>
      [] p.k = "while" -> <<Loop(p.then, Nested(c))>>
      [] OTHER -> Usual(p, Inner)

\* Mutant, not part of the specification: a return runs what the block around
\* it deferred, and no more.
LiveInnermost(f, b, i, c) == In(c.kind, Deferred(Parts(f, b), i))

\* The context once the first i parts are written: the block's own scope is
\* filled as its statements are.
Live(f, b, i, c) == In(c.kind, Deferred(Parts(f, b), i) \o c.owed)

IsTail(f, b, i) == f.blocks[b].tailed /\ i = Len(Parts(f, b))

PartCode(f, b, i, c) ==
    LET p == Parts(f, b)[i]
    IN  CASE c.kind = "native" -> Usual(p, Native)
          [] c.kind \in {"inner", "value"} /\ IsTail(f, b, i) -> WasmTail(f, b, p)
          [] c.kind = "inner" /\ ~IsTail(f, b, i) -> Usual(p, Inner)
          [] OTHER -> WasmStmt(p, Live(f, b, i - 1, c))

\* A block from its i-th part on, and its deferred expressions after them.
\* Native code stops at the first part that dies.
From(f, b, i, c) ==
    LET parts == Parts(f, b)
        from[j \in 1 .. Len(parts) + 1] ==
            IF j > Len(parts) THEN Cleanups(Deferred(parts, Len(parts)))
            ELSE PartCode(f, b, j, c)
                   \o (IF c.kind = "native" /\ Dies(f, parts[j]) THEN <<>> ELSE from[j + 1])
    IN  from[i]

BlockCode(f, b, c) == From(f, b, 1, c)

BodyContext ==
    CASE backend = "native" -> Native
      [] backend = "wasm" /\ function.void -> In("void", <<>>)
      [] OTHER -> In("value", <<>>)

\* The generated program compiles: `?` is reported as unsupported before the C
\* compiler runs, and the C compiler refuses the rest.
Compiles(f, body) ==
    LET compiles[x \in (DOMAIN f.blocks) \X Context] ==
            LET instrs == BlockCode(f, x[1], x[2])
            IN  \A i \in DOMAIN instrs :
                   /\ instrs[i].op # "error"
                   /\ \A b \in {instrs[i].then, instrs[i].else} \ {0} :
                         compiles[<<b, instrs[i].under>>]
    IN  compiles[<<1, body>>]

-----------------------------------------------------------------------------
(***************************************************************************)
(* What the source means: a deferred expression runs once each time the    *)
(* block that registered it is left, in whatever way, the last registered  *)
(* first.  A frame is [block, next, place, pending, again]: the part of    *)
(* the block evaluated next, where the block stands ("value" in value      *)
(* position; "function" for the body of a function that returns a value,   *)
(* whose tail alone is in value position), what it deferred and has not    *)
(* yet run, the last first, and whether the body of the while it is at has *)
(* been begun.  A return in value position is left with "unwind".          *)
(***************************************************************************)
Place == {"statement", "value", "function"}
Exit == {"next", "return", "unwind"} \cup Leaving
Frame ==
    [block : Nat, next : Nat, place : Place, pending : Seq(Nat), again : BOOLEAN]
Meaning == [n : Nat, left : Exit]

At(b, i, place, pending, again) ==
    [block |-> b, next |-> i, place |-> place, pending |-> pending, again |-> again]
Begun(b, place) == At(b, 1, place, <<>>, FALSE)

Top == frames[1]
Replace(fr) == <<fr>> \o Tail(frames)
Onward(fr) == At(fr.block, fr.next + 1, fr.place, fr.pending, FALSE)

\* Where a part of the top frame stands.
PlaceOf(f, fr) ==
    IF fr.place # "function" THEN fr.place
    ELSE IF IsTail(f, fr.block, fr.next) THEN "value" ELSE "statement"

\* The source evaluates a part next, and which.
Evaluating ==
    frames # <<>> /\ exit = "next" /\ Top.next <= Len(Parts(function, Top.block))
Here == Parts(function, Top.block)[Top.next]

Asking == Evaluating /\ Here.k \in Asks

\* The source waits for the code, at a condition or at its end.
Resting == Asking \/ frames = <<>>

Evaluates(k) == stage = "running" /\ Evaluating /\ Here.k = k

Called(n) == meant' = Append(meant, [n |-> n, left |-> "next"]) /\ result' = n

SourceCall ==
    /\ Evaluates("act")
    /\ Called(Here.n)
    /\ frames' = Replace(Onward(Top))
    /\ UNCHANGED <<function, backend, stage, asked, target, exit>>

SourceDefer ==
    /\ Evaluates("defer")
    /\ frames' = Replace(At(Top.block, Top.next + 1, Top.place, <<Here.n>> \o Top.pending, FALSE))
    /\ UNCHANGED <<function, backend, stage, asked, target, exit, meant, result>>

SourceReturn ==
    /\ Evaluates("return")
    /\ exit' = IF PlaceOf(function, Top) = "value" THEN "unwind" ELSE "return"
    /\ IF Here.n = 0 THEN UNCHANGED <<meant, result>> ELSE Called(Here.n)
    /\ UNCHANGED <<function, backend, stage, asked, target, frames>>

SourceLeave ==
    /\ \E k \in Leaving : Evaluates(k)
    /\ exit' = Here.k
    /\ UNCHANGED <<function, backend, stage, asked, target, frames, meant, result>>

SourceBlock ==
    /\ Evaluates("block")
    /\ frames' = <<Begun(Here.then, "value")>> \o Replace(Onward(Top))
    /\ UNCHANGED <<function, backend, stage, asked, target, exit, meant, result>>

\* The block is being left.
Closing == stage = "running" /\ frames # <<>> /\ ~Evaluating

SourceCleanup ==
    /\ Closing
    /\ Top.pending # <<>>
    /\ meant' = Append(meant, [n |-> Head(Top.pending), left |-> exit])
    /\ frames' = Replace(At(Top.block, Top.next, Top.place, Tail(Top.pending), Top.again))
    /\ UNCHANGED <<function, backend, stage, asked, target, exit, result>>

\* A break or continue ends with the body of the innermost while.
SourceEnd ==
    /\ Closing
    /\ Top.pending = <<>>
    /\ IF exit \in Leaving /\ Len(frames) > 1 /\ frames[2].again
       THEN /\ exit' = "next"
            /\ frames' = IF exit = "break" THEN <<Onward(frames[2])>> \o Tail(Tail(frames))
                         ELSE Tail(frames)
       ELSE exit' = exit /\ frames' = Tail(frames)
    /\ UNCHANGED <<function, backend, stage, asked, target, meant, result>>

\* The source takes a condition.
Answer(yes) ==
    LET nested(b, fr) == <<Begun(b, PlaceOf(function, Top))>> \o Replace(fr)
        onward == Replace(Onward(Top))
    IN  /\ frames' =
              CASE Here.k = "if" /\ yes -> nested(Here.then, Onward(Top))
                [] Here.k = "if" /\ ~yes /\ Here.else # 0 -> nested(Here.else, Onward(Top))
                [] Here.k = "while" /\ yes ->
                       nested(Here.then, At(Top.block, Top.next, Top.place, Top.pending, TRUE))
                [] OTHER -> onward
        /\ exit' = IF Here.k = "try" /\ ~yes THEN "return" ELSE "next"
        /\ UNCHANGED <<meant, result>>

Source ==
    \/ SourceCall \/ SourceDefer \/ SourceReturn \/ SourceLeave \/ SourceBlock
    \/ SourceCleanup \/ SourceEnd

-----------------------------------------------------------------------------
(* Compiling, and running the code. *)

ExitsInit ==
    /\ function \in Functions
    /\ backend \in {"native", "wasm"}
    /\ stage = "source"
    /\ code = <<>>
    /\ loops = <<>>
    /\ trace = <<>>
    /\ acc = 0
    /\ asked = 0
    /\ frames = <<>>
    /\ exit = "next"
    /\ meant = <<>>
    /\ result = 0

Compile ==
    /\ stage = "source"
    /\ code' = Append(BlockCode(function, 1, BodyContext), Ret)
    /\ frames' = <<Begun(1, IF function.void THEN "statement" ELSE "function")>>
    /\ stage' = IF Compiles(function, BodyContext) THEN "running" ELSE "refused"
    /\ UNCHANGED <<function, backend, loops, trace, acc, asked, exit, meant, result>>

\* The source goes first.
Ready(ops) == stage = "running" /\ Resting /\ code # <<>> /\ Head(code).op \in ops

\* Into a nested block.
EnterBlock ==
    /\ Ready({"enter"})
    /\ code' = BlockCode(function, Head(code).then, Head(code).under) \o Tail(code)
    /\ UNCHANGED <<function, backend, stage, asked, loops, trace, acc, source>>

\* A call, of a statement or of a deferred expression.
Call ==
    /\ Ready({"do", "clean"})
    /\ trace' = Append(trace, Head(code).n)
    /\ acc' = IF Head(code).op = "do" THEN Head(code).n ELSE acc
    /\ code' = Tail(code)
    /\ UNCHANGED <<function, backend, stage, asked, loops, source>>

\* The code after a condition, and the loops around it: a loop leaves the jump
\* back below its body.
Header(i, rest) == <<Again(i.then, i.under)>> \o rest
Taken(f, i, rest, yes) ==
    LET body(b) == BlockCode(f, b, i.under)
    IN  CASE i.op = "test" /\ yes -> body(i.then) \o rest
          [] i.op = "test" /\ ~yes /\ i.else # 0 -> body(i.else) \o rest
          [] i.op = "try" /\ ~yes -> <<Ret>>
          [] i.op \in {"loop", "again"} /\ yes -> body(i.then) \o Header(i, rest)
          [] OTHER -> rest
Around(i, rest, yes, around) ==
    CASE i.op = "loop" /\ yes -> <<Header(i, rest)>> \o around
      [] i.op = "again" /\ ~yes -> Tail(around)
      [] OTHER -> around

Branch ==
    /\ Ready(Conditions)
    /\ \E yes \in BOOLEAN :
          /\ yes => asked < MaxTests
          /\ code' = Taken(function, Head(code), Tail(code), yes)
          /\ loops' = Around(Head(code), Tail(code), yes, loops)
          /\ IF Asking THEN Answer(yes) ELSE UNCHANGED source
    /\ asked' = asked + 1
    /\ UNCHANGED <<function, backend, stage, trace, acc>>

\* A jump to the exit or to the header of the loop around it.
Jump ==
    /\ Ready(Leaving)
    /\ loops # <<>>
    /\ IF Head(code).op = "break"
       THEN code' = Tail(Head(loops)) /\ loops' = Tail(loops)
       ELSE code' = Head(loops) /\ loops' = loops
    /\ UNCHANGED <<function, backend, stage, asked, trace, acc, source>>

Return ==
    /\ Ready({"ret"})
    /\ stage' = "done"
    /\ code' = <<>>
    /\ UNCHANGED <<function, backend, asked, loops, trace, acc, source>>

ExitsNext == Compile \/ Source \/ EnterBlock \/ Call \/ Branch \/ Jump \/ Return

ExitsSpec == ExitsInit /\ [][ExitsNext]_exits_vars

-----------------------------------------------------------------------------
\* The ways out on which a back end runs the deferred expressions: native code
\* where it falls off the end of their block, wasm also on a return, but not on
\* one in value position.
Runs == [native |-> {"next"}, wasm |-> {"next", "return"}]

\* The calls made are those of the source, in order, but for the deferred
\* expressions left in a way on which the back end runs none.
SameCalls(calls) ==
    LET kept == {i \in DOMAIN meant : meant[i].left \in Runs[backend]}
    IN  /\ Len(calls) = Cardinality(kept)
        /\ \A i \in kept : calls[Cardinality(kept \cap 1 .. i)] = meant[i].n

\* A finished run of either back end made the calls the source means, each once
\* and in their order, and returned its value, however many blocks, loops and
\* scopes it left on the way; of the deferred expressions, exactly those are
\* missing whose block was left in a way on which the back end runs none
\* (emit_all_deferred_for_return against the nesting of the scopes, the native
\* generator's dead code against a path that is not dead).
RunsAsMeant ==
    stage = "done" =>
        /\ frames = <<>>
        /\ SameCalls(trace)
        /\ ~function.void => acc = result

\* The code comes to the conditions of the source, and to no other: at each of
\* them it has made the calls the source has made by then, none too early,
\* twice, or on a path that does not reach it.
InStep ==
    Ready(Conditions) =>
        /\ Asking
        /\ Head(code).then = Here.then
        /\ SameCalls(trace)
        /\ acc = result

=============================================================================
