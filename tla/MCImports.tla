----------------------------- MODULE MCImports -----------------------------
(* Imports on four files: the main file, two libraries and a shared one. *)
EXTENDS Imports

CONSTANTS m, a, b, c

Import(path, names) == [path |-> path, names |-> names]
Plain(f, n, refs) == [file |-> f, kind |-> "plain", name |-> n, refs |-> refs, traits |-> {}]
Bounded(f, n, refs, traits) == [Plain(f, n, refs) EXCEPT !.traits = traits]
Impl(f, n, refs, traits) == [Bounded(f, n, refs, traits) EXCEPT !.kind = "impl"]
Trait(f, n, refs) == [Plain(f, n, refs) EXCEPT !.kind = "trait"]
Contents(imports, items, parses) == [imports |-> imports, items |-> items, parses |-> parses]

\* Diamonds, cycles, files imported in every order, names nobody defines.
MainImports ==
  {<<Import(a, {"f"})>>, <<Import(a, {"f"}), Import(b, {"g"})>>,
   <<Import(b, {"g"}), Import(a, {"f"}), Import(c, {"T"})>>,
   <<Import("std", {"sin"}), Import(c, {"h"}), Import(a, {"f"})>>,
   <<Import(a, {"f"}), Import("std", {"f"})>>, <<Import(a, {"f"}), Import("missing", {"f"})>>,
   <<Import(a, {"g"})>>}
LibImports ==
  {<<>>, <<Import(b, {"g"})>>, <<Import(c, {"h", "T", "Show"})>>, <<Import(b, {"g"}), Import(c, {"T"})>>}
OtherImports == {<<>>, <<Import(c, {"h"})>>, <<Import(c, {"T"})>>, <<Import(a, {"f"})>>}
SharedImports == {<<>>, <<Import(m, {"main"})>>}

\* b may have an h of its own, so two files define one name.
SmallLayouts ==
  {[x \in {m, a, b, c} |->
      CASE x = m -> Contents(im, <<Plain(m, "main", {"f", "T"})>>, TRUE)
        [] x = a -> Contents(ia, <<Plain(a, "f", ra), Plain(a, "k", {"T"})>>, TRUE)
        [] x = b -> Contents(ib, <<Bounded(b, "g", rb, {"Show"})>> \o own, TRUE)
        [] x = c -> Contents(ic, <<Plain(c, "h", rc), Plain(c, "T", {}), Trait(c, "Show", {"h"}),
                                   Impl(c, "T", {"h"}, {"Show"})>>, ok)] :
     im \in MainImports, ia \in LibImports, ib \in OtherImports, ic \in SharedImports,
     ra \in {{"k"}, {"g"}, {"g", "T"}}, rb \in {{}, {"h"}, {"T", "f"}}, rc \in {{}, {"T"}},
     own \in {<<>>, <<Plain(b, "h", {})>>}, ok \in BOOLEAN}

\* The main file asks for a struct that implements a trait of its own file, or for a
\* function whose type parameter is bounded by one.
TraitLayouts ==
  {[x \in {m, a, b, c} |->
      CASE x = m -> Contents(<<Import(c, {n})>>, <<Plain(m, "main", {n})>>, TRUE)
        [] x = c -> Contents(<<>>, <<Plain(c, "T", {}), Trait(c, "Show", {}),
                                     Impl(c, "T", {}, {"Show"}), Bounded(c, "h", {}, {"Show"})>>, TRUE)
        [] OTHER -> Contents(<<>>, <<>>, TRUE)] :
     n \in {"T", "h"}}
=============================================================================
