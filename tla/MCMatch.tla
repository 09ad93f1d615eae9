------------------------------ MODULE MCMatch ------------------------------
(* Matches of at most MaxArms arms on a subject of each kind. *)
EXTENDS Match

CONSTANTS MaxArms

Pat(kind, name, arg) == [kind |-> kind, name |-> name, arg |-> arg]
D(names, arity) == [names |-> names, arity |-> arity]

\* The enum matched on, E, without data and with data in its first or its second
\* variant; another enum with data and names of its own, or with a name of E.
Own == D(<<"c">>, <<1>>)
Shared == D(<<"c", "b">>, <<0, 0>>)
EnumDecls ==
  {[E |-> D(<<"a", "b">>, <<0, 0>>), F |-> Own], [E |-> D(<<"a", "b">>, <<1, 0>>), F |-> Own],
   [E |-> D(<<"b", "a">>, <<0, 1>>), F |-> Shared]}
OtherDecls == {[E |-> D(<<"a", "b">>, <<1, 0>>), F |-> Own]}

Patterns(kind) ==
  {Pat("wildcard", "x", 2)} \cup
  CASE kind = "enum" -> {Pat("ident", "a", 2), Pat("ident", "b", 2),
                         Pat("destructure", "a", 0), Pat("destructure", "a", 1),
                         Pat("destructure", "b", 0)}
    [] kind \in {"int", "str"} -> {Pat("ident", "x", 2), Pat(kind, "x", 0), Pat(kind, "x", 1)}
    [] kind = "bool" -> {Pat("ident", "x", 2), Pat("ident", "c", 2), Pat("bool", "x", 0),
                         Pat("bool", "x", 1), Pat("int", "x", 0)}
    [] kind = "result" -> {Pat("ident", "x", 2), Pat("ok", "x", 2), Pat("err", "x", 2),
                           Pat("some", "x", 2)}
    [] kind = "optional" -> {Pat("ident", "x", 2), Pat("some", "x", 2), Pat("none", "x", 2)}

ArmLists(kind) ==
  UNION {[1 .. k -> [pattern : Patterns(kind), guarded : BOOLEAN]] : k \in 0 .. MaxArms}

SmallPrograms ==
  UNION {[decls : IF k = "enum" THEN EnumDecls ELSE OtherDecls,
          subject : {[kind |-> k, of |-> "E"]},
          arms : ArmLists(k)] : k \in SubjectKind}
=============================================================================
