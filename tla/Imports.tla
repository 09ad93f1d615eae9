------------------------------- MODULE Imports -------------------------------
(***************************************************************************)
(* Import resolution of the CLI (imports.rs): resolve_imports replaces the *)
(* import clauses of a parsed file by the items they pull in, recursively. *)
(* One call of it is a frame of the stack below: it gathers the imported   *)
(* files, each resolved by a call of its own, expands the names wanted     *)
(* from each of them to a fixed point, and extracts the items.             *)
(*                                                                         *)
(* Not modelled: where a path points to in the file system                 *)
(* (resolve_import_path): a clause names a file, a virtual standard module *)
(* ("std") or nothing that exists ("missing").                             *)
(***************************************************************************)
EXTENDS Naturals, FiniteSets, Sequences, SequencesExt

CONSTANTS
  File,      \* the files of the program
  Main,      \* the one the compiler is given
  Name,      \* the names of items
  StdNames,  \* what the virtual standard modules export
  Layouts    \* the contents the files may have

ASSUME MainAssumption == Main \in File
ASSUME FileAssumption == IsFiniteSet(File)
ASSUME PathAssumption == {"std", "missing"} \cap File = {}

\* An item: where it is written, what kind it is (a function, struct, enum or
\* constant is "plain"), and what it mentions.  An impl block has the name of its
\* type, an extern block that of a function it declares.
\* refs: the names in the types of its signature and fields and in its bodies.
\* traits: the trait it implements and the bounds of its type parameters.
Item == [file : File, kind : {"plain", "impl", "trait", "extern"}, name : Name,
         refs : SUBSET Name, traits : SUBSET Name]

\* import { names } from "path"
Clause == [path : File \cup {"std", "missing"}, names : SUBSET Name]

\* parses = FALSE: the file has lexical or syntax errors.
Layout == [File -> [imports : Seq(Clause), items : Seq(Item), parses : BOOLEAN]]

ASSUME LayoutAssumption == Layouts \subseteq Layout
ASSUME WrittenAssumption ==
  \A l \in Layouts, f \in File : \A i \in DOMAIN l[f].items : l[f].items[i].file = f

VARIABLES
  layout,    \* what the files contain
  stack,     \* the calls of resolve_imports in progress, the innermost last
  loading,   \* the set `loading`: files being loaded
  outcome,   \* "running", "done", or the error that ended the compilation
  linked     \* module.items of Main once it is done

vars == <<layout, stack, loading, outcome, linked>>

\* imported_files and wanted are parallel: what the i-th import gathered, and the
\* names wanted from it.  next is the import clause the call looks at.
Frame(f) == [file |-> f, step |-> "gather", next |-> 1, imported |-> <<>>, wanted |-> <<>>]

\* main.rs puts the file it compiles in the set before the first call.
Init ==
  /\ layout \in Layouts
  /\ stack = <<Frame(Main)>>
  /\ loading = {Main}
  /\ outcome = "running"
  /\ linked = <<>>

Top == stack[Len(stack)]
Below == SubSeq(stack, 1, Len(stack) - 1)
TheClause == layout[Top.file].imports[Top.next]

\* item_def_name: an extern block has no name, so its functions cannot be wanted.
Named(it) == it.kind # "extern"
Defines(items, n) == \E i \in DOMAIN items : Named(items[i]) /\ items[i].name = n

\* collect_names_in_item: the trait an impl block implements and the bounds of type
\* parameters are not looked at, nor is anything in traits and extern blocks.
Collected(it) ==
  CASE it.kind = "plain" -> it.refs
    [] it.kind = "impl" -> it.refs \cup {it.name}
    [] OTHER -> {}

\* The items at some positions, in their order.
Picked(items, positions) ==
  LET kept[i \in 0 .. Len(items)] ==
        IF i = 0 THEN <<>>
        ELSE IF i \in positions THEN Append(kept[i - 1], items[i]) ELSE kept[i - 1]
  IN  kept[Len(items)]

\* Items are wanted by name; the impl blocks of a wanted type come with it.
Included(items, names) ==
  Picked(items, {i \in DOMAIN items : Named(items[i]) /\ items[i].name \in names})

Fail(reason) ==
  /\ outcome' = reason
  /\ UNCHANGED <<layout, stack, loading, linked>>

-----------------------------------------------------------------------------
(* Mutants: none is part of the specification. *)

\* loading.insert is forgotten.
LoadedWithout(f) == loading

\* loading.remove is forgotten.
UnloadedNever(f) == loading

-----------------------------------------------------------------------------
(* Phase A: gather *)

Gathering ==
  /\ outcome = "running"
  /\ Top.step = "gather"
  /\ Top.next <= Len(layout[Top.file].imports)

\* A virtual module is only checked for the names it exports.
ImportStd ==
  /\ Gathering
  /\ TheClause.path = "std"
  /\ IF TheClause.names \subseteq StdNames
       THEN /\ stack' = Append(Below, [Top EXCEPT !.next = @ + 1])
            /\ UNCHANGED <<layout, loading, outcome, linked>>
       ELSE Fail("not exported")

ImportMissing ==
  /\ Gathering
  /\ TheClause.path = "missing"
  /\ Fail("not found")

\* Circular import detection, before the file is read.
ImportCircular ==
  /\ Gathering
  /\ TheClause.path \in loading
  /\ Fail("circular")

ImportUnparsable ==
  /\ Gathering
  /\ TheClause.path \in File \ loading
  /\ ~ layout[TheClause.path].parses
  /\ Fail("parse error")

Loaded(f) == loading \cup {f}

\* Read, parse, and resolve the imports of the imported file first.
ImportFile ==
  /\ Gathering
  /\ TheClause.path \in File \ loading
  /\ layout[TheClause.path].parses
  /\ loading' = Loaded(TheClause.path)
  /\ stack' = Append(stack, Frame(TheClause.path))
  /\ UNCHANGED <<layout, outcome, linked>>

-----------------------------------------------------------------------------
(* Phase B: the names wanted from all the imported files at once *)

Seed ==
  /\ outcome = "running"
  /\ Top.step = "gather"
  /\ Top.next > Len(layout[Top.file].imports)
  /\ stack' = Append(Below,
       [Top EXCEPT !.step = "expand",
                   !.wanted = [i \in DOMAIN Top.imported |-> Top.imported[i].names]])
  /\ UNCHANGED <<layout, loading, outcome, linked>>

\* The names that the wanted items of any imported file mention.
Discovered ==
  UNION {Collected(it) :
           it \in UNION {ToSet(Included(Top.imported[i].items, Top.wanted[i])) :
                           i \in DOMAIN Top.imported}}

\* Of these, the ones the i-th imported file defines.
Route(i) == {n \in Discovered : Defines(Top.imported[i].items, n)}

\* Mutant, not part of the specification: one round only, so what the names it
\* adds mention is not wanted.
ExpandOnce ==
  /\ outcome = "running"
  /\ Top.step = "expand"
  /\ stack' = Append(Below,
       [Top EXCEPT !.wanted = [i \in DOMAIN Top.imported |-> Top.wanted[i] \cup Route(i)],
                   !.step = "extract"])
  /\ UNCHANGED <<layout, loading, outcome, linked>>

\* One round of the fixed point; the round that adds nothing ends it.
Expand ==
  /\ outcome = "running"
  /\ Top.step = "expand"
  /\ LET more == [i \in DOMAIN Top.imported |-> Top.wanted[i] \cup Route(i)]
     IN  stack' = Append(Below,
           [Top EXCEPT !.wanted = more,
                       !.step = IF more = Top.wanted THEN "extract" ELSE "expand"])
  /\ UNCHANGED <<layout, loading, outcome, linked>>

-----------------------------------------------------------------------------
(* Phase C: extract, dedupe, validate *)

Found(i) == Included(Top.imported[i].items, Top.wanted[i])

\* A name of the clause itself must be there.
AllFound ==
  \A i \in DOMAIN Top.imported : \A n \in Top.imported[i].names : Defines(Found(i), n)

ExtractFails ==
  /\ outcome = "running"
  /\ Top.step = "extract"
  /\ ~ AllFound
  /\ Fail("name not found")

\* The first item of a name stays; impl and extern blocks all do.
Deduped(items) ==
  LET OfTheName(i) == {j \in DOMAIN items : /\ items[j].kind \notin {"impl", "extern"}
                                            /\ items[j].name = items[i].name}
  IN  Picked(items, {i \in DOMAIN items : \/ items[i].kind \in {"impl", "extern"}
                                          \/ \A j \in OfTheName(i) : i <= j})

\* The imported items come before those of the file.
Resolved ==
  Deduped(FlattenSeq([i \in DOMAIN Top.imported |-> Found(i)])) \o layout[Top.file].items

Unloaded(f) == loading \ {f}

\* The innermost call returns to the import clause that made it.
Extract ==
  /\ outcome = "running"
  /\ Top.step = "extract"
  /\ AllFound
  /\ Len(stack) > 1
  /\ LET caller == Below[Len(Below)]
         clause == layout[caller.file].imports[caller.next]
         goesOn == [caller EXCEPT !.next = @ + 1,
                                  !.imported = Append(@, [items |-> Resolved, names |-> clause.names])]
     IN  stack' = [Below EXCEPT ![Len(Below)] = goesOn]
  /\ loading' = Unloaded(Top.file)
  /\ UNCHANGED <<layout, outcome, linked>>

\* The outermost call returns: the module goes on to the type checker.
Finish ==
  /\ outcome = "running"
  /\ Top.step = "extract"
  /\ AllFound
  /\ Len(stack) = 1
  /\ linked' = Resolved
  /\ outcome' = "done"
  /\ UNCHANGED <<layout, stack, loading>>

Next ==
  \/ ImportStd \/ ImportMissing \/ ImportCircular \/ ImportUnparsable \/ ImportFile
  \/ Seed \/ Expand \/ ExtractFails \/ Extract \/ Finish

Spec == Init /\ [][Next]_vars

-----------------------------------------------------------------------------
(* Properties *)

\* The set the code keeps for circular imports is exactly the files on the way
\* from the main file to the one being resolved, each of them once: however many
\* clauses name a file, it is a cycle only while it is still being loaded.
TypeOK ==
  /\ layout \in Layout
  /\ stack \in Seq([file : File, step : {"gather", "expand", "extract"}, next : Nat \ {0},
                    imported : Seq([items : Seq(Item), names : SUBSET Name]),
                    wanted : Seq(SUBSET Name)])
  /\ stack # <<>>
  /\ loading = {stack[i].file : i \in DOMAIN stack}
  /\ \A i, j \in DOMAIN stack : stack[i].file = stack[j].file => i = j

\* The files a file imports, and the files some clauses lead to from a set.
ImportsOf(f) == {layout[f].imports[i].path : i \in DOMAIN layout[f].imports} \cap File
Reachable(from) ==
  {f \in File : \A s \in SUBSET File :
                  from \subseteq s /\ (\A g \in s : ImportsOf(g) \subseteq s) => f \in s}

\* Circular imports are reported when there are some, and only then: a file that
\* is imported twice on different ways is no cycle.
CyclesExact ==
  LET cyclic == \E f \in Reachable({Main}) : f \in Reachable(ImportsOf(f))
  IN  /\ outcome = "circular" => cyclic
      /\ outcome = "done" => ~ cyclic

\* What an item may count on: the names its own file defines or asks for.
InScope(f) ==
  {n \in Name : Defines(layout[f].items, n)}
    \cup UNION {layout[f].imports[i].names :
                  i \in {j \in DOMAIN layout[f].imports : layout[f].imports[j].path # "std"}}

\* The result is closed under the names that collect_names_in_item looks for, and
\* without duplicates: each of them that was in scope where the item was written is
\* defined in the linked module, whatever files it took to get there, and no two
\* imported items but blocks have one name.
Linked ==
  outcome = "done" =>
    /\ \A i \in DOMAIN linked :
         \A n \in Collected(linked[i]) \cap InScope(linked[i].file) : Defines(linked, n)
    /\ LET imported == {i \in DOMAIN linked : /\ linked[i].kind \notin {"impl", "extern"}
                                            /\ linked[i].file # Main}
       IN  \A i, j \in imported : linked[i].name = linked[j].name => i = j

Declares(items, n) == \E i \in DOMAIN items : items[i].name = n

\* What the comment at imports.rs:274 says, and no run checks, for the code does not do
\* it (the README says how): it collects "every name referenced in a top-level item's
\* signature and body", so that "any sibling items the requested items transitively
\* depend on" are pulled in.
SiblingsLinked ==
  outcome = "done" =>
    \A i \in DOMAIN linked :
      LET it == linked[i]
      IN  \A n \in it.refs \cup it.traits :
            Declares(layout[it.file].items, n) => Declares(linked, n)
=============================================================================
