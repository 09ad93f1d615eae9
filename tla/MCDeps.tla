------------------------------- MODULE MCDeps -------------------------------
(* Deps on three packages of two repositories. *)
EXTENDS Deps, TLC

Lib == 1  Db == 2  Kit == 3

Line(p, kind, r, n, subdir) == [name |-> p, kind |-> kind, repo |-> r, n |-> n, subdir |-> subdir]
NoRegistries == [p \in {} |-> "r"]
Manifest(deps) == [deps |-> deps, registries |-> NoRegistries]

MCIndex == Db :> [repo |-> "m", subdir |-> TRUE]
MCDefault == Db :> "r"
MCUserClone == [p \in {Lib, Db, Kit} |-> "r"]

DbLine == Line(Db, "version", "m", 0, FALSE)

\* A package keeps its repository and is not turned from a link into a clone.
MCManifests ==
  {Manifest(<<Line(Lib, "rev", "r", 1, FALSE), DbLine>>),
   Manifest(<<Line(Lib, "bare", "r", 0, FALSE), Line(Kit, "rev", "m", 0, TRUE)>>),
   Manifest(<<DbLine, Line(Lib, "tag", "r", 0, FALSE)>>),
   Manifest(<<Line(Kit, "path", "m", 0, FALSE), Line(Lib, "rev", "r", 0, FALSE)>>),
   Manifest(<<Line(Lib, "version", "r", 0, FALSE), Line(Kit, "rev", "m", 0, TRUE)>>),
   Manifest(<<Line(Lib, "bare", "r", 0, FALSE), Line(Db, "unsupported", "m", 0, FALSE)>>)}

Entry(r, n) == [repo |-> r, rev |-> [repo |-> r, n |-> n]]
MCLocks == {<<>>, Lib :> Entry("r", 0), Lib :> Entry("m", 0)}

ASSUME CopeAssumption == Steady /\ NamedOnce /\ Settling
=============================================================================
