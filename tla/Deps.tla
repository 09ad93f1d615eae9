-------------------------------- MODULE Deps --------------------------------
(***************************************************************************)
(* The package manager of the CLI (deps.rs): `install` and `update` walk   *)
(* the dependencies of turbo.toml in order, put each one under             *)
(* turbo_modules/<name> and write turbo.lock once, at the end.             *)
(*                                                                         *)
(* turbo_modules/<name> (target below) is a clone of the dependency's own, *)
(* a link into a clone shared by all packages of one repository at one     *)
(* commit (.turbo-cache/<repo>@<rev>), or a link to a directory of the     *)
(* user.  Git run "in" a target works on the clone behind the link.        *)
(*                                                                         *)
(* A commit of a repository is [repo, n]: the n-th on its only branch.     *)
(* Versions match every tag.  Not modelled: names that are refused, a      *)
(* checkout killed after some files and before HEAD moved, a directory     *)
(* removed in part (it is removed as a whole or not at all).               *)
(***************************************************************************)
EXTENDS Integers, FiniteSets, Sequences, Functions

CONSTANTS
  Package,     \* names of dependencies, numbers: turbo.lock is sorted by name
  Repo,
  MaxCommit,   \* commits pushed to a repository
  MaxRuns,     \* commands the user gives
  Index,       \* the published registry: Package -> [repo, subdir], for some packages
  Default,     \* the built-in default: Package -> Repo, for the turbo-* ones
  UserClone,   \* what the user's own directories are clones of: Package -> Repo
  Manifests,   \* what the user may write into turbo.toml
  Locks        \* what turbo.lock may hold in a fresh copy of the project

ASSUME PackageAssumption == Package \subseteq Nat /\ IsFiniteSet(Package)
ASSUME BoundAssumption == MaxCommit \in Nat /\ MaxRuns \in Nat
ASSUME IndexAssumption ==
  /\ DOMAIN Index \subseteq Package
  /\ \A p \in DOMAIN Index : Index[p] \in [repo : Repo, subdir : BOOLEAN]
ASSUME DefaultAssumption == DOMAIN Default \subseteq Package /\ Range(Default) \subseteq Repo
ASSUME UserCloneAssumption == UserClone \in [Package -> Repo]

Commit == [repo : Repo, n : 0 .. MaxCommit]

\* A line of [dependencies].  kind: { path }, { github, rev }, { github, version },
\* { github } alone, "version", or something that is none of these.
\* n is the commit of rev.
Kinds == {"path", "rev", "tag", "bare", "version", "unsupported"}
Dependency == [name : Package, kind : Kinds, repo : Repo, n : 0 .. MaxCommit, subdir : BOOLEAN]

\* registries: the [registries] section
IsManifest(mf) ==
  /\ mf.deps \in Seq(Dependency)
  /\ DOMAIN mf.registries \subseteq Package /\ Range(mf.registries) \subseteq Repo

ASSUME ManifestAssumption == \A mf \in Manifests : IsManifest(mf)

PartialFn(D, S) == UNION {[E -> S] : E \in SUBSET D}
With(f, x, y) == [z \in DOMAIN f \cup {x} |-> IF z = x THEN y ELSE f[z]]
Lock == PartialFn(Package, [repo : Repo, rev : Commit])

\* The lock files of the program name commits of the repository they name.
ASSUME LockAssumption ==
  /\ Locks \subseteq Lock
  /\ \A l \in Locks : \A p \in DOMAIN l : l[p].rev.repo = l[p].repo

NoCommit == [repo |-> "none", n |-> 0]

ASSUME NoCommitAssumption == NoCommit \notin Commit

Nowhere == <<"none", 0>>
Own(p) == <<"own", p>>
Local(p) == <<"local", p>>
Cache(rev) == <<"cache", rev>>
Place == {Own(p) : p \in Package} \cup {Local(p) : p \in Package} \cup {Cache(c) : c \in Commit}

VARIABLES
  manifest,  \* turbo.toml
  lock,      \* turbo.lock, as read_lockfile reads it
  target,    \* what turbo_modules/<name> is: a Place and whether it is a subdirectory of it
  clones,    \* the clones on disk: origin, HEAD and the commits their history is cut at
  tip,       \* the last commit of every repository
  tags,      \* its tagged commits
  job,       \* the command that runs
  runs       \* commands given so far

vars == <<manifest, lock, target, clones, tip, tags, job, runs>>
disk == <<manifest, lock, target, clones>>
world == <<tip, tags>>

\* step: "idle" before a command and after one that was killed or refused, "done"
\* after one that wrote the lock file.  at: the dependency it is at.  pin:
\* the commit that was resolved.  mem: the lock file in memory.  index: the registry
\* index was fetched.  clean: no dependency was skipped.  trouble: something outside
\* the program failed.
Steps == {"idle", "resolve", "place", "checkout", "link", "done"}
Job == [cmd : {"install", "update"}, step : Steps, at : Nat, pin : Commit \cup {NoCommit},
        mem : Lock, index : BOOLEAN, clean : BOOLEAN, refused : BOOLEAN, trouble : BOOLEAN]

Idle == [cmd |-> "install", step |-> "idle", at |-> 1, pin |-> NoCommit, mem |-> <<>>,
         index |-> FALSE, clean |-> FALSE, refused |-> FALSE, trouble |-> FALSE]

Absent == [place |-> Nowhere, subdir |-> FALSE]

Init ==
  /\ manifest \in Manifests
  /\ lock \in Locks
  /\ target = [p \in Package |-> Absent]
  /\ clones = [w \in {Local(p) : p \in Package} |->
       [origin |-> UserClone[w[2]], head |-> [repo |-> UserClone[w[2]], n |-> 0], cuts |-> {}]]
  /\ tip = [r \in Repo |-> 0]
  /\ tags = [r \in Repo |-> {0}]
  /\ job = Idle
  /\ runs = 0

Dep == manifest.deps[job.at]
Running == job.step \in Steps \ {"idle", "done"}
Handling(step, kinds) ==
  /\ job.step = step
  /\ job.at <= Len(manifest.deps)
  /\ Dep.kind \in kinds


-----------------------------------------------------------------------------
(* Which repository and which commit *)

\* resolve_registry_repo_with_index
RegistryRepos(p) ==
  IF p \in DOMAIN manifest.registries THEN {manifest.registries[p]}
  ELSE IF job.index /\ p \in DOMAIN Index THEN {Index[p].repo}
  ELSE {Default[q] : q \in {p} \cap DOMAIN Default}

ReposOf(d) == IF d.kind = "version" THEN RegistryRepos(d.name) ELSE {d.repo}
TheRepo == CHOOSE r \in ReposOf(Dep) : TRUE

\* resolve_subdir_from_index: the index is asked whatever gave the repository.
InSubdir(d) ==
  IF d.kind = "version" THEN job.index /\ d.name \in DOMAIN Index /\ Index[d.name].subdir
  ELSE d.subdir

\* select_tag_for_version
Tagged(r) == {[repo |-> r, n |-> n] : n \in {m \in tags[r] : \A k \in tags[r] : k <= m}}

\* Mutants, not part of the specification: an entry is used for whatever repository;
\* the branch is taken instead of the entry.
LockedByName(d) == {job.mem[p].rev : p \in {d.name} \cap DOMAIN job.mem}
LockedIgnored(d) == {[repo |-> d.repo, n |-> tip[d.repo]]}

\* An entry of the lock file is used if it is for the repository of the manifest.
Locked(d) == {job.mem[p].rev : p \in {q \in {d.name} \cap DOMAIN job.mem : job.mem[q].repo = d.repo}}

\* The commit a dependency stands for; none if it cannot be told.
Candidates(d) ==
  CASE d.kind = "rev" -> {[repo |-> d.repo, n |-> d.n]}
    [] d.kind \in {"tag", "version"} -> UNION {Tagged(r) : r \in ReposOf(d)}
    [] d.kind = "bare" -> IF job.cmd = "install" THEN Locked(d) ELSE {}

-----------------------------------------------------------------------------
(* The steps of the walk *)

NextDep(mem) == job' = [job EXCEPT !.step = "resolve", !.at = @ + 1, !.pin = NoCommit, !.mem = mem]
Skip(trouble) ==
  job' = [job EXCEPT !.step = "resolve", !.at = @ + 1, !.pin = NoCommit, !.clean = FALSE,
                     !.trouble = @ \/ trouble]
GoTo(step) == job' = [job EXCEPT !.step = step]

Recorded(rev) == With(job.mem, Dep.name, [repo |-> TheRepo, rev |-> rev])

\* The clone git works on: the shared one, or whatever the target leads to.
Workplace == IF InSubdir(Dep) THEN Cache(job.pin) ELSE target[Dep.name].place

Targeted(p, place, subdir) == [target EXCEPT ![p] = [place |-> place, subdir |-> subdir]]

\* Before a link is made, what is in its place is removed, a clone of the package's
\* own with it.
Removed(p) == Restrict(clones, DOMAIN clones \ {Own(p)})
Unlinked(p) == [target EXCEPT ![p] = Absent]

InstallPath ==
  /\ Handling("resolve", {"path"})
  /\ job.cmd = "install"
  /\ target' = Targeted(Dep.name, Local(Dep.name), FALSE)
  /\ clones' = Removed(Dep.name)
  /\ NextDep(job.mem)
  /\ UNCHANGED <<manifest, lock, runs>> /\ UNCHANGED world

\* The path cannot be resolved: exit(1) in the middle of the walk.
PathMissing ==
  /\ Handling("resolve", {"path"})
  /\ job.cmd = "install"
  /\ job' = Idle
  /\ UNCHANGED <<disk, world, runs>>

LeavePath ==
  /\ Handling("resolve", {"path"})
  /\ job.cmd = "update"
  /\ NextDep(job.mem)
  /\ UNCHANGED <<disk, world, runs>>

Refuse ==
  /\ Handling("resolve", {"unsupported"})
  /\ job' = [job EXCEPT !.at = @ + 1, !.refused = TRUE]
  /\ UNCHANGED <<disk, world, runs>>

GitKinds == {"rev", "tag", "bare", "version"}
Installed(p) == target[p] # Absent

\* update leaves alone what is not installed, except packages in a subdirectory.
NotInstalled ==
  /\ Handling("resolve", GitKinds)
  /\ job.cmd = "update"
  /\ ReposOf(Dep) # {}
  /\ ~ InSubdir(Dep) /\ ~ Installed(Dep.name)
  /\ Skip(FALSE)
  /\ UNCHANGED <<disk, world, runs>>

Resolvable == job.cmd = "install" \/ InSubdir(Dep) \/ Installed(Dep.name)

Resolve ==
  /\ Handling("resolve", GitKinds)
  /\ Resolvable
  /\ \E c \in Candidates(Dep) : job' = [job EXCEPT !.pin = c, !.step = "place"]
  /\ UNCHANGED <<disk, world, runs>>

\* No repository is known under the name, which is the first thing update asks too; it
\* has no commit for the line; or git ls-remote cannot ask it.
Unresolved ==
  /\ Handling("resolve", GitKinds)
  /\ Resolvable \/ ReposOf(Dep) = {}
  /\ ~ (job.cmd = "update" /\ Dep.kind = "bare" /\ ~ InSubdir(Dep))
  /\ \/ Candidates(Dep) = {} /\ Skip(FALSE)
     \/ Dep.kind \in {"tag", "version"} /\ ReposOf(Dep) # {} /\ Skip(TRUE)
  /\ UNCHANGED <<disk, world, runs>>

\* update: git pull --ff-only, in whatever repository the target is a clone of.  It
\* can go from HEAD to the tip unless the history in between was cut away by a
\* --depth=1.
CanPull(c) ==
  /\ c.head # NoCommit
  /\ c.cuts \cap (c.head.n + 1) .. tip[c.head.repo] = {}

Pull ==
  /\ Handling("resolve", {"bare"})
  /\ job.cmd = "update"
  /\ ~ InSubdir(Dep) /\ Installed(Dep.name)
  /\ LET w == target[Dep.name].place
         new == [repo |-> clones[w].origin, n |-> tip[clones[w].origin]]
     IN \/ /\ CanPull(clones[w])
           /\ clones' = [clones EXCEPT ![w].head = new]
           /\ NextDep(Recorded(new))
        \/ /\ Skip(CanPull(clones[w]))
           /\ UNCHANGED clones
  /\ UNCHANGED <<manifest, lock, target, runs>> /\ UNCHANGED world

-----------------------------------------------------------------------------
(* Getting the commit *)

NeedsClone ==
  IF InSubdir(Dep) THEN Cache(job.pin) \notin DOMAIN clones
  ELSE job.cmd = "install" /\ ~ Installed(Dep.name)

CloneAt == IF InSubdir(Dep) THEN Cache(job.pin) ELSE Own(Dep.name)
FreshClone(r) == [origin |-> r, head |-> [repo |-> r, n |-> tip[r]], cuts |-> {tip[r]}]

\* git clone --depth=1.  A clone of the dependency's own is its target at once.
Clone ==
  /\ job.step = "place" /\ NeedsClone
  /\ clones' = With(clones, CloneAt, FreshClone(TheRepo))
  /\ target' = IF InSubdir(Dep) THEN target ELSE Targeted(Dep.name, CloneAt, FALSE)
  /\ GoTo("checkout")
  /\ UNCHANGED <<manifest, lock, runs>> /\ UNCHANGED world

\* The program is killed with git at work: the directory is there, HEAD is not.
KilledClone ==
  /\ job.step = "place" /\ NeedsClone
  /\ clones' = With(clones, CloneAt, [origin |-> TheRepo, head |-> NoCommit, cuts |-> {}])
  /\ target' = IF InSubdir(Dep) THEN target ELSE Targeted(Dep.name, CloneAt, FALSE)
  /\ job' = Idle
  /\ UNCHANGED <<manifest, lock, runs>> /\ UNCHANGED world

CloneFails ==
  /\ job.step = "place" /\ NeedsClone
  /\ Skip(TRUE)
  /\ UNCHANGED <<disk, world, runs>>

\* Mutant, not part of the specification: what is there is taken as it is.
UpToDateAlways == TRUE

\* What is there is checked out again unless HEAD is the commit; update does not look.
UpToDate == clones[Workplace].head = job.pin
Reused == UpToDate /\ (InSubdir(Dep) \/ job.cmd = "install")

Present ==
  /\ job.step = "place" /\ ~ NeedsClone
  /\ IF ~ Reused THEN GoTo("checkout")
     ELSE IF InSubdir(Dep) THEN GoTo("link")
     ELSE NextDep(Recorded(job.pin))
  /\ UNCHANGED <<disk, world, runs>>

\* checkout_git_rev: fetch --depth=1 from the clone's own origin, checkout --detach.
Fetchable == clones[Workplace].origin = job.pin.repo /\ job.pin.n <= tip[job.pin.repo]

CheckedOut(w) ==
  [clones EXCEPT ![w].head = job.pin, ![w].cuts = @ \cup {job.pin.n}]

Checkout ==
  /\ job.step = "checkout"
  /\ Fetchable
  /\ clones' = CheckedOut(Workplace)
  /\ IF InSubdir(Dep) THEN GoTo("link") ELSE NextDep(Recorded(job.pin))
  /\ UNCHANGED <<manifest, lock, target, runs>> /\ UNCHANGED world

\* What was cloned stays where it is, at its origin's tip.  A clone of another
\* repository than the dependency's is not noticed otherwise.
CheckoutFails ==
  /\ job.step = "checkout"
  /\ Skip(clones[Workplace].origin = job.pin.repo)
  /\ UNCHANGED <<disk, world, runs>>

Link ==
  /\ job.step = "link"
  /\ target' = Targeted(Dep.name, Cache(job.pin), TRUE)
  /\ clones' = Removed(Dep.name)
  /\ NextDep(Recorded(clones[Cache(job.pin)].head))
  /\ UNCHANGED <<manifest, lock, runs>> /\ UNCHANGED world

\* The commit has no such subdirectory; or it has, and symlink fails, with what was in
\* its place already gone.
LinkFails ==
  /\ job.step = "link"
  /\ Skip(TRUE)
  /\ \/ UNCHANGED <<target, clones>>
     \/ target' = Unlinked(Dep.name) /\ clones' = Removed(Dep.name)
  /\ UNCHANGED <<manifest, lock, runs>> /\ UNCHANGED world

\* The program is killed between the removal and the link, or the link of a path cannot
\* be made, which is exit(1).
KilledLink ==
  /\ job.step = "link" \/ (Handling("resolve", {"path"}) /\ job.cmd = "install")
  /\ target' = Unlinked(Dep.name)
  /\ clones' = Removed(Dep.name)
  /\ job' = Idle
  /\ UNCHANGED <<manifest, lock, runs>> /\ UNCHANGED world

-----------------------------------------------------------------------------
(* The end of the walk *)

AtEnd == job.step = "resolve" /\ job.at > Len(manifest.deps)

\* Dependencies of an unsupported form end the command before the lock file.
EndRefused ==
  /\ AtEnd /\ job.refused
  /\ job' = Idle
  /\ UNCHANGED <<disk, world, runs>>

Written == job.mem

\* write_lockfile
WriteLock ==
  /\ AtEnd /\ ~ job.refused
  /\ lock' = Written
  /\ GoTo("done")
  /\ UNCHANGED <<manifest, target, clones, runs>> /\ UNCHANGED world

\* Killed while it writes: the lines up to some name are there, the last one cut off.
KilledWrite ==
  /\ AtEnd /\ ~ job.refused
  /\ \E last \in Package :
       lock' = Restrict(job.mem, {p \in DOMAIN job.mem : p < last})
  /\ job' = Idle
  /\ UNCHANGED <<manifest, target, clones, runs>> /\ UNCHANGED world

Killed ==
  /\ Running
  /\ job' = Idle
  /\ UNCHANGED <<disk, world, runs>>

-----------------------------------------------------------------------------
(* The user and the repositories *)

\* needs_registry_index: somebody needs it; load_index_quietly: or it cannot be had.
NeedsIndex ==
  \E i \in DOMAIN manifest.deps :
    manifest.deps[i].kind = "version" /\ manifest.deps[i].name \notin DOMAIN manifest.registries

Run(cmd) ==
  /\ ~ Running /\ runs < MaxRuns
  /\ runs' = runs + 1
  /\ \E fetched \in BOOLEAN :
       /\ fetched => NeedsIndex
       /\ job' = [Idle EXCEPT !.cmd = cmd, !.step = "resolve", !.mem = lock, !.index = fetched,
                              !.clean = TRUE, !.trouble = NeedsIndex /\ ~ fetched]
  /\ UNCHANGED <<disk, world>>

Edit ==
  /\ ~ Running /\ runs < MaxRuns
  /\ \E mf \in Manifests : manifest' = mf
  /\ job' = Idle
  /\ UNCHANGED <<lock, target, clones, runs>> /\ UNCHANGED world

Push(r) ==
  /\ tip[r] < MaxCommit
  /\ tip' = [tip EXCEPT ![r] = @ + 1]
  /\ UNCHANGED <<disk, job, runs, tags>>

Tag(r) ==
  /\ tip[r] \notin tags[r]
  /\ tags' = [tags EXCEPT ![r] = @ \cup {tip[r]}]
  /\ UNCHANGED <<disk, job, runs, tip>>

Next ==
  \/ InstallPath \/ PathMissing \/ LeavePath \/ Refuse \/ NotInstalled \/ Resolve \/ Unresolved
  \/ Pull \/ Clone \/ KilledClone \/ CloneFails \/ Present \/ Checkout \/ CheckoutFails
  \/ Link \/ LinkFails \/ KilledLink \/ EndRefused \/ WriteLock \/ KilledWrite \/ Killed \/ Edit
  \/ \E cmd \in {"install", "update"} : Run(cmd)
  \/ \E r \in Repo : Push(r) \/ Tag(r)

Spec == Init /\ [][Next]_vars

-----------------------------------------------------------------------------
(* Properties *)

\* No target leads nowhere, and no clone is left behind when a link takes its place.
ClonesOK ==
  /\ DOMAIN clones \subseteq Place
  /\ \A w \in DOMAIN clones :
       clones[w] \in [origin : Repo, head : Commit \cup {NoCommit}, cuts : SUBSET (0 .. MaxCommit)]
  /\ \A p \in Package : Own(p) \in DOMAIN clones <=> target[p].place = Own(p)
  /\ \A p \in Package : target[p] # Absent => target[p].place \in DOMAIN clones

\* Every variable has its type, and turbo_modules and the clones fit together.
TypeOK ==
  /\ manifest \in Manifests
  /\ lock \in Lock
  /\ target \in [Package -> [place : Place \cup {Nowhere}, subdir : BOOLEAN]]
  /\ ClonesOK
  /\ tip \in [Repo -> 0 .. MaxCommit]
  /\ tags \in [Repo -> SUBSET (0 .. MaxCommit)]
  /\ job \in Job
  /\ runs \in 0 .. MaxRuns

Done == job.step = "done"

\* The last line of a name counts ([dependencies] and [dev-dependencies] may share one).
GitDeps ==
  {manifest.deps[i] : i \in {j \in DOMAIN manifest.deps :
     /\ manifest.deps[j].kind \in GitKinds
     /\ \A k \in DOMAIN manifest.deps : manifest.deps[k].name = manifest.deps[j].name => k <= j}}

\* A command that skipped nothing leaves the project as its lock file says: every
\* package at the commit locked for it, in a clone of its repository, at the root or
\* the subdirectory the manifest or the registry name.
Pinned ==
  Done /\ job.clean =>
    \A d \in GitDeps :
      LET entry == lock[d.name]  at == target[d.name]
      IN /\ d.name \in DOMAIN lock
         /\ entry.repo \in ReposOf(d)
         /\ entry.rev.repo = entry.repo
         /\ at.place \in DOMAIN clones /\ clones[at.place].head = entry.rev
         /\ at = IF InSubdir(d) THEN [place |-> Cache(entry.rev), subdir |-> TRUE]
                                ELSE [place |-> Own(d.name), subdir |-> FALSE]
         /\ d.kind = "rev" => entry.rev.n = d.n

\* Whatever commands were killed or gave up before, and whatever was edited since, an
\* install nothing outside the program disturbs puts every package in its place.
Heals ==
  (/\ Done
   /\ job.cmd = "install" /\ ~ job.trouble
   /\ \A d \in GitDeps : Candidates(d) # {})
  => job.clean

\* install keeps the commits of the packages that have no other pin than turbo.lock.
KeepsLocked ==
  [][~ Done /\ Done' /\ job.cmd = "install" =>
       \A d \in GitDeps : \A p \in {d.name} \cap DOMAIN lock :
         d.kind = "bare" /\ lock[p].repo = d.repo => p \in DOMAIN lock' /\ lock'[p] = lock[p]]_vars

\* What the documentation says and no run checks, for the code does otherwise (the
\* README says how).  docs/packages.md:55: update moves the packages to the newest commit their
\* declaration allows, "a fast-forward `git pull` for a bare GitHub repo".
UpdateReaches ==
  (/\ Done
   /\ job.cmd = "update" /\ ~ job.trouble
   /\ \A d \in GitDeps :
        /\ Installed(d.name) /\ clones[target[d.name].place].head # NoCommit
        /\ d.kind = "bare" => ~ d.subdir)
  => job.clean

-----------------------------------------------------------------------------
(* The manifests the commands cope with *)

Needs(mf) ==
  \E i \in DOMAIN mf.deps : mf.deps[i].kind = "version" /\ mf.deps[i].name \notin DOMAIN mf.registries

\* A manifest, and whether the registry index could be fetched.
Setting == {s \in [mf : Manifests, index : BOOLEAN] : s.index => Needs(s.mf)}

Lines(s) == {s.mf.deps[i] : i \in DOMAIN s.mf.deps}
GitLines(s) == {d \in Lines(s) : d.kind \in GitKinds}

\* ReposOf and InSubdir of module Deps in a given setting.
Repos(s, d) ==
  IF d.kind # "version" THEN {d.repo}
  ELSE IF d.name \in DOMAIN s.mf.registries THEN {s.mf.registries[d.name]}
  ELSE IF s.index /\ d.name \in DOMAIN Index THEN {Index[d.name].repo}
  ELSE {Default[q] : q \in {d.name} \cap DOMAIN Default}

Linked(s, d) ==
  IF d.kind = "version" THEN s.index /\ d.name \in DOMAIN Index /\ Index[d.name].subdir
  ELSE d.subdir

\* A package with a clone of its own is nowhere a path, nor a link into a clone of
\* the same repository; and its repository is everywhere the same if it follows a branch.
Steady ==
  \A s, t \in Setting : \A d \in GitLines(s), e \in Lines(t) :
    d.name = e.name /\ ~ Linked(s, d) =>
      /\ e.kind # "path"
      /\ e.kind \in GitKinds /\ Linked(t, e) => Repos(s, d) \cap Repos(t, e) = {}
      /\ e.kind \in GitKinds /\ d.kind = "bare" => Repos(t, e) \subseteq {d.repo}

\* No name is given twice in a manifest.
NamedOnce ==
  \A mf \in Manifests : \A i, j \in DOMAIN mf.deps :
    mf.deps[i].name = mf.deps[j].name => i = j

\* A package that is no link when the index can be fetched is never one, and has one
\* repository.
Settling ==
  \A s, t \in Setting : \A d \in GitLines(s), e \in GitLines(t) :
    d.name = e.name /\ ~ Linked(s, d) /\ s.index = Needs(s.mf) =>
      /\ ~ Linked(t, e)
      /\ \A r \in Repos(s, d), q \in Repos(t, e) : r = q

=============================================================================
