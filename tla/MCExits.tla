------------------------------ MODULE MCExits ------------------------------
(***************************************************************************)
(* Three blocks one inside another.  The innermost holds one way out, or   *)
(* none, with a deferred expression before it, after it, twice before it   *)
(* or not at all; it is the body of an if, of an else, of a while, or a    *)
(* block by itself, in a block that defers around it; that one again is an *)
(* if, a while or a block in the body of the function.  Every call has its *)
(* own number: ten times the depth, and its place.                         *)
(*                                                                         *)
(* The blocks are written as trees, [stmts, tail] with a tail of at most   *)
(* one part, and then numbered.                                            *)
(***************************************************************************)
EXTENDS Exits, SequencesExt

Step(k, n) == [k |-> k, n |-> n, nested |-> <<>>]
Over(k, blocks) == [k |-> k, n |-> 0, nested |-> blocks]
Blk(stmts, tail) == [stmts |-> stmts, tail |-> tail]
IfPart(then, else) == Over("if", <<then>> \o else)

\* A return without a value is the last thing in its block: the parser takes
\* whatever follows it as its expression.
Empty == Step("return", 0)

\* The ways out, as statements, and as the tail of a block.
Ways(void, loop) ==
    {Step("act", 32), Step("return", 32), IF void THEN Empty ELSE Step("try", 0)}
        \cup (IF loop THEN {Step("break", 0), Step("continue", 0)} ELSE {})

Tails(void, loop) == {w \in Ways(void, loop) : w.k # "return"}

Innermost(void, loop) ==
    {Blk(<<w>>, <<>>) : w \in Ways(void, loop)}
        \cup {Blk(<<Step("defer", 31), w>>, <<>>) : w \in Ways(void, loop)}
        \cup {Blk(<<w, Step("defer", 33)>>, <<Step("act", 34)>>) :
                  w \in Ways(void, loop) \ {Empty}}
        \cup {Blk(<<Step("defer", 30), Step("defer", 31)>>, <<w>>) : w \in Tails(void, loop)}
        \cup {Blk(<<Step("defer", 30)>>, <<IfPart(Blk(<<w>>, <<>>), <<>>)>>) :
                  w \in Ways(void, loop)}

Inside(void, loop) ==
    {IfPart(b, <<>>) : b \in Innermost(void, loop)}
        \cup {IfPart(Blk(<<IF void THEN Empty ELSE Step("return", 36)>>, <<>>), <<b>>) :
                  b \in Innermost(void, loop)}
        \cup {Over("while", <<b>>) : b \in Innermost(void, TRUE)}
        \cup {Over("block", <<b>>) : b \in Innermost(void, loop)}

Middle(void, loop) ==
    {Blk(<<Step("defer", 21), p, Step("act", 22)>>, <<>>) : p \in Inside(void, loop)}
        \cup {Blk(<<p, Step("defer", 23)>>, <<Step("act", 24)>>) : p \in Inside(void, loop)}
        \cup {Blk(<<Step("defer", 21)>>, <<p>>) : p \in Inside(void, loop)}

Outer(void) ==
    {IfPart(b, <<>>) : b \in Middle(void, FALSE)}
        \cup {Over("while", <<b>>) : b \in Middle(void, TRUE)}
        \cup {Over("block", <<b>>) : b \in Middle(void, FALSE)}

\* The tail of a function's body: none, a call, or an if of two blocks.
Results(void) ==
    IF void THEN {<<>>}
    ELSE {<<Step("act", 13)>>,
          <<IfPart(Blk(<<Step("defer", 14)>>, <<Step("act", 15)>>),
                   <<Blk(<<IfPart(Blk(<<Step("return", 16)>>, <<>>), <<>>)>>,
                         <<Step("act", 17)>>)>>)>>}

\* The blocks of a tree, the first of them numbered n: a part has its nested
\* blocks numbered after those of the parts before it.
RECURSIVE Numbered(_, _)
Numbered(b, n) ==
    LET nest(e, nested) == [at |-> Append(e.at, n + 1 + Len(e.inner)),
                            inner |-> e.inner \o Numbered(nested, n + 1 + Len(e.inner))]
        number(e, p) ==
            LET in == FoldLeft(nest, [at |-> <<>>, inner |-> e.inner], p.nested)
                then == IF in.at = <<>> THEN 0 ELSE in.at[1]
                else == IF Len(in.at) < 2 THEN 0 ELSE in.at[2]
            IN  [parts |-> Append(e.parts, [k |-> p.k, n |-> p.n, then |-> then, else |-> else]),
                 inner |-> in.inner]
        all == FoldLeft(number, [parts |-> <<>>, inner |-> <<>>], b.stmts \o b.tail)
    IN  <<[parts |-> all.parts, tailed |-> b.tail # <<>>]>> \o all.inner

Bodies(void) ==
    {Blk(<<Step("defer", 11), p, Step("defer", 12)>>, tail) :
         p \in Outer(void), tail \in Results(void)}
        \cup {Blk(<<Step("defer", 11), p, Step("return", 18), Step("defer", 12)>>, <<>>) :
                  p \in Outer(void)}

MCFunctions ==
    UNION {{[void |-> void, blocks |-> Numbered(b, 1)] : b \in Bodies(void)} :
               void \in BOOLEAN}

=============================================================================
