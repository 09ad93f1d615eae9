----------------------------- MODULE DepsProofs -----------------------------
(***************************************************************************)
(* That install and update leave what the lock file says, and that an      *)
(* install heals what earlier commands left, for any set of manifests in   *)
(* which a package keeps its repository and is not turned from a link into *)
(* a clone.                                                                *)
(***************************************************************************)
EXTENDS Deps, TLAPS

-----------------------------------------------------------------------------
(* The invariant *)

Here == [mf |-> manifest, index |-> job.index]

Honest(l) == \A p \in DOMAIN l : l[p].rev.repo = l[p].repo

\* The lock files are the program's, and name commits of the repository they name.
Recording ==
  /\ Honest(lock) /\ Honest(job.mem)
  /\ job.step = "done" => lock = job.mem /\ job.at > Len(manifest.deps)

\* A clone is at a commit of its origin, a shared one is named for its origin.
Cloned ==
  /\ \A w \in DOMAIN clones :
       clones[w].head # NoCommit => clones[w].head.repo = clones[w].origin
  /\ \A c \in Commit : Cache(c) \in DOMAIN clones => clones[Cache(c)].origin = c.repo
  /\ \A p \in Package : Local(p) \in DOMAIN clones

\* What a target is, some line made it.
Made(p, s, e) ==
  \/ e.kind = "path" /\ target[p] = [place |-> Local(p), subdir |-> FALSE]
  \/ /\ e.kind \in GitKinds /\ ~ Linked(s, e)
     /\ target[p] = [place |-> Own(p), subdir |-> FALSE]
     /\ clones[Own(p)].origin \in Repos(s, e)
  \/ /\ e.kind \in GitKinds /\ Linked(s, e)
     /\ \E c \in Commit : target[p] = [place |-> Cache(c), subdir |-> TRUE] /\ c.repo \in Repos(s, e)

Targets ==
  \A p \in Package :
    target[p] # Absent => \E s \in Setting : \E e \in Lines(s) : e.name = p /\ Made(p, s, e)

\* What a command knows at each of its steps.
Walk ==
  Running =>
    /\ job.index => NeedsIndex
    /\ job.at >= 1
    /\ job.step # "resolve" =>
         /\ job.at <= Len(manifest.deps)
         /\ Dep.kind \in GitKinds
         /\ job.pin \in Commit
         /\ ReposOf(Dep) = {job.pin.repo}
         /\ Dep.kind = "rev" => job.pin.n = Dep.n
         /\ Dep.kind = "bare" =>
              /\ Dep.name \in DOMAIN job.mem
              /\ job.mem[Dep.name] = [repo |-> Dep.repo, rev |-> job.pin]
              /\ job.cmd = "install"
         /\ Resolvable
    /\ job.step = "checkout" => Workplace \in DOMAIN clones
    /\ job.step = "link" =>
         /\ InSubdir(Dep) /\ Cache(job.pin) \in DOMAIN clones
         /\ clones[Cache(job.pin)].head = job.pin

\* The package of line d is where l says.
Settled(d, l) ==
  LET entry == l[d.name]  at == target[d.name]
  IN /\ d.name \in DOMAIN l
     /\ entry.repo \in ReposOf(d)
     /\ entry.rev.repo = entry.repo
     /\ at.place \in DOMAIN clones /\ clones[at.place].head = entry.rev
     /\ at = IF InSubdir(d) THEN [place |-> Cache(entry.rev), subdir |-> TRUE]
                            ELSE [place |-> Own(d.name), subdir |-> FALSE]
     /\ d.kind = "rev" => entry.rev.n = d.n

\* The lines behind the walk, each the last of its name so far.
Behind ==
  {i \in DOMAIN manifest.deps :
     /\ i < job.at
     /\ manifest.deps[i].kind \in GitKinds
     /\ \A k \in DOMAIN manifest.deps :
          k < job.at /\ manifest.deps[k].name = manifest.deps[i].name => k <= i}

Progress ==
  (Running \/ Done) /\ job.clean => \A i \in Behind : Settled(manifest.deps[i], job.mem)

\* turbo_modules and the clones.
Disk ==
  /\ target \in [Package -> [place : Place \cup {Nowhere}, subdir : BOOLEAN]]
  /\ ClonesOK
  /\ Cloned
  /\ Targets

IInv == TypeOK /\ Recording /\ Disk /\ Walk /\ Progress

\* No commit can be told for a line.
Hopeless(d) ==
  \/ d.kind \in {"tag", "version"} /\ ReposOf(d) = {}
  \/ d.kind = "bare" /\ Locked(d) = {}

\* What an undisturbed install could not help.
Excused ==
  (Running \/ Done) /\ job.cmd = "install" /\ ~ job.trouble =>
    /\ job.index = NeedsIndex
    /\ job.clean \/ \E i \in DOMAIN manifest.deps :
                      /\ i < job.at /\ manifest.deps[i].kind \in GitKinds
                      /\ Hopeless(manifest.deps[i])

\* Every repository has a newest tag.
Topped == \A r \in Repo : \E m \in tags[r] : \A k \in tags[r] : k <= m

\* A package that only the lock file pins keeps its entry.
Keeping ==
  Running /\ job.cmd = "install" =>
    \A i \in DOMAIN manifest.deps :
      LET d == manifest.deps[i]
      IN  d.kind = "bare" /\ d.name \in DOMAIN lock /\ lock[d.name].repo = d.repo =>
            d.name \in DOMAIN job.mem /\ job.mem[d.name] = lock[d.name]

-----------------------------------------------------------------------------
(* What a step finds *)

LEMMA LockIs ==
  ASSUME NEW l
  PROVE  l \in Lock <=>
           /\ l = [p \in DOMAIN l |-> l[p]] /\ DOMAIN l \subseteq Package
           /\ \A p \in DOMAIN l : l[p] \in [repo : Repo, rev : Commit]
BY DEF Lock, PartialFn

\* The line the walk is at.
LEMMA LineIs ==
  ASSUME IInv, Running, job.at <= Len(manifest.deps)
  PROVE  /\ job.at \in DOMAIN manifest.deps
         /\ Dep \in Dependency
         /\ Dep \in Lines(Here)
<1>1. manifest \in Manifests /\ job.at \in Nat /\ job.at >= 1
  BY DEF IInv, TypeOK, Job, Walk
<1>2. manifest.deps \in Seq(Dependency)
  BY <1>1, ManifestAssumption DEF IsManifest
<1> QED
  BY <1>1, <1>2 DEF Dep, Lines, Here

\* The setting it is in.
LEMMA SettingIs ==
  ASSUME IInv, Running
  PROVE  Here \in Setting /\ \A d : ReposOf(d) = Repos(Here, d) /\ InSubdir(d) = Linked(Here, d)
<1>1. Here \in Setting
  BY DEF IInv, TypeOK, Job, Walk, Here, Setting, Needs, NeedsIndex
<1> QED
  BY <1>1 DEF Here, Repos, Linked, ReposOf, RegistryRepos, InSubdir

\* The repository of a resolved line.
LEMMA RepoIs ==
  ASSUME IInv, Running, job.step # "resolve"
  PROVE  TheRepo = job.pin.repo /\ job.pin \in Commit /\ job.pin.repo \in Repo
BY DEF IInv, Walk, TheRepo, Commit

\* What is installed under the name of a line that is no link: a clone of the package's
\* own, or a link into a clone of another repository.
LEMMA InstalledIs ==
  ASSUME Steady, IInv, Running, job.at <= Len(manifest.deps), Dep.kind \in GitKinds,
         ~ InSubdir(Dep), Installed(Dep.name)
  PROVE  \/ /\ target[Dep.name] = [place |-> Own(Dep.name), subdir |-> FALSE]
            /\ Own(Dep.name) \in DOMAIN clones
            /\ Dep.kind = "bare" => clones[Own(Dep.name)].origin = Dep.repo
         \/ \E c \in Commit :
              /\ target[Dep.name] = [place |-> Cache(c), subdir |-> TRUE]
              /\ Cache(c) \in DOMAIN clones
              /\ clones[Cache(c)].origin \notin ReposOf(Dep)
              /\ Dep.kind # "bare"
<1>1. Dep \in Lines(Here) /\ Dep.name \in Package
  BY LineIs DEF Dependency
<1>2. Here \in Setting /\ Dep \in GitLines(Here) /\ ~ Linked(Here, Dep)
  BY <1>1, SettingIs DEF GitLines
<1>3. ReposOf(Dep) = Repos(Here, Dep) /\ (Dep.kind = "bare" => ReposOf(Dep) = {Dep.repo})
  BY SettingIs DEF ReposOf
<1>4. PICK s \in Setting : \E e \in Lines(s) : e.name = Dep.name /\ Made(Dep.name, s, e)
  BY <1>1 DEF IInv, Disk, Targets, Installed
<1>5. PICK e \in Lines(s) : e.name = Dep.name /\ Made(Dep.name, s, e)
  BY <1>4
<1>6. /\ e.kind # "path"
      /\ e.kind \in GitKinds /\ Linked(s, e) => Repos(Here, Dep) \cap Repos(s, e) = {}
      /\ e.kind \in GitKinds /\ Dep.kind = "bare" => Repos(s, e) \subseteq {Dep.repo}
  BY <1>2, <1>5 DEF Steady
<1>7. target[Dep.name].place \in DOMAIN clones
  BY <1>1 DEF IInv, TypeOK, ClonesOK, Installed
<1>8. CASE e.kind \in GitKinds /\ ~ Linked(s, e)
  BY <1>5, <1>6, <1>7, <1>8 DEF Made
<1>9. CASE e.kind \in GitKinds /\ Linked(s, e)
  <2>1. PICK c \in Commit : target[Dep.name] = [place |-> Cache(c), subdir |-> TRUE] /\ c.repo \in Repos(s, e)
    BY <1>5, <1>9, <1>6 DEF Made
  <2>2. clones[Cache(c)].origin = c.repo
    BY <2>1, <1>7 DEF IInv, Disk, Cloned, Commit
  <2>3. Cache(c) \in DOMAIN clones
    BY <2>1, <1>7
  <2>4. c.repo \notin ReposOf(Dep)
    BY <2>1, <1>3, <1>6, <1>9
  <2>5. Dep.kind # "bare"
    BY <2>1, <1>3, <1>6, <1>9
  <2> QED
    BY <2>1, <2>2, <2>3, <2>4, <2>5
<1> QED
  BY <1>5, <1>6, <1>8, <1>9 DEF Made

-----------------------------------------------------------------------------
(* What a step leaves on the disk *)

LEMMA DiskKept ==
  ASSUME Disk, UNCHANGED <<target, clones>>
  PROVE  Disk'
BY DEF Disk, ClonesOK, Cloned, Targets, Made

\* A checkout or a pull moves the head of a clone to a commit of its origin.
LEMMA HeadMoved ==
  ASSUME Disk, target' = target, DOMAIN clones' = DOMAIN clones,
         \A w \in DOMAIN clones :
           /\ clones'[w] \in [origin : Repo, head : Commit \cup {NoCommit}, cuts : SUBSET (0 .. MaxCommit)]
           /\ clones'[w].origin = clones[w].origin
           /\ clones'[w].head = clones[w].head \/ clones'[w].head.repo = clones[w].origin
  PROVE  Disk'
<1>1. ClonesOK'
  BY DEF Disk, ClonesOK
<1>2. Cloned'
  BY NoCommitAssumption DEF Disk, Cloned
<1>3. Targets'
  <2> SUFFICES ASSUME NEW p \in Package, target'[p] # Absent
               PROVE  \E s \in Setting : \E e \in Lines(s) : e.name = p /\ Made(p, s, e)'
    BY DEF Targets
  <2>1a. PICK s \in Setting : \E e \in Lines(s) : e.name = p /\ Made(p, s, e)
    BY DEF Disk, Targets
  <2>1. PICK e \in Lines(s) : e.name = p /\ Made(p, s, e)
    BY <2>1a
  <2>2. target[p].place \in DOMAIN clones
    BY DEF Disk, ClonesOK
  <2>3. Made(p, s, e)'
    BY <2>1, <2>2 DEF Made
  <2> QED
    BY <2>1, <2>3
<1> QED
  BY <1>1, <1>2, <1>3 DEF Disk

\* Places of different kinds, or of different packages, are different.
LEMMA PlacesDiffer ==
  /\ \A p, q : Own(p) # Local(q) /\ Own(p) # Cache(q) /\ Local(p) # Cache(q)
  /\ \A p : Own(p) # Nowhere /\ Local(p) # Nowhere /\ Cache(p) # Nowhere
  /\ \A p, q : (Own(p) = Own(q) <=> p = q) /\ (Local(p) = Local(q) <=> p = q)
              /\ (Cache(p) = Cache(q) <=> p = q)
BY DEF Own, Local, Cache, Nowhere

LEMMA MadeIs ==
  ASSUME NEW p, NEW s, NEW e, Made(p, s, e)
  PROVE  \/ target[p] = [place |-> Local(p), subdir |-> FALSE]
         \/ target[p] = [place |-> Own(p), subdir |-> FALSE]
         \/ \E c \in Commit : target[p] = [place |-> Cache(c), subdir |-> TRUE]
BY Zenon DEF Made

LEMMA MadeKept ==
  ASSUME NEW p, NEW s, NEW e, Made(p, s, e), target'[p] = target[p],
         target[p].place = Own(p) => clones'[Own(p)].origin = clones[Own(p)].origin
  PROVE  Made(p, s, e)'
<1>1. target[p] = [place |-> Own(p), subdir |-> FALSE] => target[p].place = Own(p)
  OBVIOUS
<1> QED
  BY <1>1, Zenon DEF Made

\* No target is another package's own clone.
LEMMA OnlyOwn ==
  ASSUME Disk, NEW p \in Package, NEW q \in Package, target[q].place = Own(p)
  PROVE  p = q
<1>1. target[q] # Absent
  BY PlacesDiffer DEF Absent
<1>2a. PICK s \in Setting : \E e \in Lines(s) : Made(q, s, e)
  BY <1>1 DEF Disk, Targets
<1>2. PICK e \in Lines(s) : Made(q, s, e)
  BY <1>2a
<1>3. target[q].place \in {Local(q), Own(q)} \/ \E c \in Commit : target[q].place = Cache(c)
  <2>1. ASSUME NEW w, NEW b, target[q] = [place |-> w, subdir |-> b]
        PROVE  target[q].place = w
    BY <2>1
  <2> QED
    BY <1>2, <2>1, MadeIs
<1> QED
  BY <1>3, PlacesDiffer

\* A target is replaced by one that is no clone of the package's own.
LEMMA TargetReplaced ==
  ASSUME Disk, NEW p \in Package, NEW w \in DOMAIN clones, NEW subdir \in BOOLEAN,
         \A q \in Package : w # Own(q),
         target' = Targeted(p, w, subdir), clones' = Removed(p),
         \E s \in Setting : \E e \in Lines(s) : e.name = p /\ Made(p, s, e)'
  PROVE  Disk'
<1>1. target' \in [Package -> [place : Place \cup {Nowhere}, subdir : BOOLEAN]]
  BY DEF Disk, ClonesOK, Targeted
<1>2. /\ target'[p] = [place |-> w, subdir |-> subdir]
      /\ \A q \in Package \ {p} : target'[q] = target[q]
  BY DEF Targeted, Disk
<1>3. /\ DOMAIN clones' = DOMAIN clones \ {Own(p)}
      /\ \A v \in DOMAIN clones' : clones'[v] = clones[v]
  BY DEF Removed, Restrict
<1>4. ClonesOK'
  <2>1. \A q \in Package : Own(q) \in DOMAIN clones' <=> target'[q].place = Own(q)
    BY <1>2, <1>3, PlacesDiffer DEF Disk, ClonesOK
  <2>2. \A q \in Package : target'[q] # Absent => target'[q].place \in DOMAIN clones'
    BY <1>2, <1>3, OnlyOwn DEF Disk, ClonesOK
  <2> QED
    BY <2>1, <2>2, <1>3 DEF Disk, ClonesOK
<1>5. Cloned'
  BY <1>3, PlacesDiffer DEF Disk, Cloned
<1>6. Targets'
  <2> SUFFICES ASSUME NEW q \in Package \ {p}, target'[q] # Absent
               PROVE  \E s \in Setting : \E e \in Lines(s) : e.name = q /\ Made(q, s, e)'
    BY DEF Targets
  <2>1a. PICK s \in Setting : \E e \in Lines(s) : e.name = q /\ Made(q, s, e)
    BY <1>2 DEF Disk, Targets
  <2>1. PICK e \in Lines(s) : e.name = q /\ Made(q, s, e)
    BY <2>1a
  <2>2. target[q].place \in DOMAIN clones /\ (target[q].place = Own(q) => Own(q) \in DOMAIN clones')
    BY <1>2, <1>3, PlacesDiffer DEF Disk, ClonesOK
  <2>3. Made(q, s, e)'
    BY <2>1, <2>2, <1>2, <1>3 DEF Made
  <2> QED
    BY <2>1, <2>3
<1> QED
  BY <1>1, <1>4, <1>5, <1>6 DEF Disk

\* A target is removed and nothing is put in its place.
LEMMA TargetRemoved ==
  ASSUME Disk, NEW p \in Package, target' = Unlinked(p), clones' = Removed(p)
  PROVE  Disk'
<1>1. /\ target' \in [Package -> [place : Place \cup {Nowhere}, subdir : BOOLEAN]]
      /\ target'[p] = Absent /\ \A q \in Package \ {p} : target'[q] = target[q]
  BY DEF Disk, Unlinked, Absent
<1>2. /\ DOMAIN clones' = DOMAIN clones \ {Own(p)}
      /\ \A v \in DOMAIN clones' : clones'[v] = clones[v]
  BY DEF Removed, Restrict
<1>3. ClonesOK'
  <2>1. \A q \in Package : Own(q) \in DOMAIN clones' <=> target'[q].place = Own(q)
    BY <1>1, <1>2, PlacesDiffer DEF Disk, ClonesOK, Absent
  <2>2. \A q \in Package : target'[q] # Absent => target'[q].place \in DOMAIN clones'
    BY <1>1, <1>2, OnlyOwn DEF Disk, ClonesOK
  <2> QED
    BY <2>1, <2>2, <1>2 DEF Disk, ClonesOK
<1>4. Cloned'
  BY <1>2, PlacesDiffer DEF Disk, Cloned
<1>5. Targets'
  <2> SUFFICES ASSUME NEW q \in Package, target'[q] # Absent
               PROVE  \E s \in Setting : \E e \in Lines(s) : e.name = q /\ Made(q, s, e)'
    BY DEF Targets
  <2>1. q # p /\ target'[q] = target[q]
    BY <1>1
  <2>2a. PICK s \in Setting : \E e \in Lines(s) : e.name = q /\ Made(q, s, e)
    BY <2>1 DEF Disk, Targets
  <2>2. PICK e \in Lines(s) : e.name = q /\ Made(q, s, e)
    BY <2>2a
  <2>3. target[q].place = Own(q) => clones'[Own(q)] = clones[Own(q)]
    BY <1>2, <2>1, PlacesDiffer DEF Disk, ClonesOK
  <2>4. Made(q, s, e)'
    BY <2>1, <2>2, <2>3, MadeKept
  <2> QED
    BY <2>2, <2>4
<1> QED
  BY <1>1, <1>3, <1>4, <1>5 DEF Disk

\* The line's own clone, or the shared one, is made.
LEMMA CloneMade ==
  ASSUME IInv, Running, job.step = "place", NeedsClone, NEW x,
         x \in [origin : Repo, head : Commit \cup {NoCommit}, cuts : SUBSET (0 .. MaxCommit)],
         x.origin = job.pin.repo, x.head # NoCommit => x.head.repo = x.origin,
         clones' = With(clones, CloneAt, x),
         target' = IF InSubdir(Dep) THEN target ELSE Targeted(Dep.name, CloneAt, FALSE)
  PROVE  /\ Disk'
         /\ CloneAt \notin DOMAIN clones /\ CloneAt \in DOMAIN clones'
         /\ InSubdir(Dep) => CloneAt = Cache(job.pin)
         /\ ~ InSubdir(Dep) => CloneAt = Own(Dep.name) /\ target'[Dep.name] = [place |-> CloneAt, subdir |-> FALSE]
         /\ \A v \in DOMAIN clones : v \in DOMAIN clones' /\ clones'[v] = clones[v]
         /\ \A q \in Package : q # Dep.name \/ InSubdir(Dep) => target'[q] = target[q]
<1> DEFINE w == CloneAt
<1> DEFINE p == Dep.name
<1>1. /\ job.at <= Len(manifest.deps) /\ Dep.kind \in GitKinds
      /\ job.pin \in Commit /\ ReposOf(Dep) = {job.pin.repo}
  BY DEF IInv, Walk
<1>2. p \in Package /\ Dep \in Lines(Here) /\ Here \in Setting
      /\ InSubdir(Dep) = Linked(Here, Dep) /\ ReposOf(Dep) = Repos(Here, Dep)
  BY <1>1, LineIs, SettingIs DEF Dependency
<1>3. Disk
  BY DEF IInv
<1>4. /\ w \notin DOMAIN clones
      /\ ~ InSubdir(Dep) => target[p] = Absent
      /\ InSubdir(Dep) => w = Cache(job.pin)
      /\ ~ InSubdir(Dep) => w = Own(p)
  BY <1>2, <1>3, PlacesDiffer DEF Disk, ClonesOK, NeedsClone, CloneAt, Installed, Absent
<1>5. /\ DOMAIN clones' = DOMAIN clones \cup {w}
      /\ clones'[w] = x
      /\ \A v \in DOMAIN clones : clones'[v] = clones[v]
  BY <1>4 DEF With
<1>6. /\ \A q \in Package : q # p \/ InSubdir(Dep) => target'[q] = target[q]
      /\ ~ InSubdir(Dep) => target'[p] = [place |-> Own(p), subdir |-> FALSE] /\ target'[p].place = Own(p)
  BY <1>2, <1>3, <1>4 DEF Targeted, Disk
<1>7. target' \in [Package -> [place : Place \cup {Nowhere}, subdir : BOOLEAN]]
  BY <1>2, <1>3, <1>4 DEF Targeted, Disk, Place
<1>8. ClonesOK'
  <2>1. DOMAIN clones' \subseteq Place
    BY <1>1, <1>2, <1>3, <1>4, <1>5 DEF Disk, ClonesOK, Place
  <2>2. \A v \in DOMAIN clones' :
          clones'[v] \in [origin : Repo, head : Commit \cup {NoCommit}, cuts : SUBSET (0 .. MaxCommit)]
    BY <1>3, <1>5 DEF Disk, ClonesOK
  <2>3. \A q \in Package : Own(q) \in DOMAIN clones' <=> target'[q].place = Own(q)
    <3>1. CASE InSubdir(Dep)
      BY <3>1, <1>3, <1>4, <1>5, <1>6, PlacesDiffer DEF Disk, ClonesOK
    <3>2. CASE ~ InSubdir(Dep)
      <4>1. Own(p) \in DOMAIN clones' /\ target'[p].place = Own(p)
        BY <3>2, <1>4, <1>5, <1>6
      <4>2. ASSUME NEW q \in Package, q # p
            PROVE  Own(q) \in DOMAIN clones' <=> target'[q].place = Own(q)
        <5>1. Own(q) # w
          BY <4>2, <3>2, <1>4, PlacesDiffer
        <5>2. target'[q] = target[q]
          BY <4>2, <1>6
        <5> QED
          BY <4>2, <5>1, <5>2, <1>3, <1>5 DEF Disk, ClonesOK
      <4> QED
        BY <4>1, <4>2
    <3> QED
      BY <3>1, <3>2
  <2>4. \A q \in Package : target'[q] # Absent => target'[q].place \in DOMAIN clones'
    <3> SUFFICES ASSUME NEW q \in Package, target'[q] # Absent
                 PROVE  target'[q].place \in DOMAIN clones'
      OBVIOUS
    <3>1. CASE q # p \/ InSubdir(Dep)
      BY <3>1, <1>3, <1>5, <1>6 DEF Disk, ClonesOK
    <3>2. CASE q = p /\ ~ InSubdir(Dep)
      BY <3>2, <1>4, <1>5, <1>6
    <3> QED
      BY <3>1, <3>2
  <2> QED
    BY <2>1, <2>2, <2>3, <2>4 DEF ClonesOK
<1>9. Cloned'
  <2>1. \A c \in Commit : Cache(c) \in DOMAIN clones' => clones'[Cache(c)].origin = c.repo
    BY <1>1, <1>3, <1>4, <1>5, PlacesDiffer DEF Disk, Cloned
  <2> QED
    BY <2>1, <1>3, <1>5 DEF Disk, Cloned
<1>10. Targets'
  <2> SUFFICES ASSUME NEW q \in Package, target'[q] # Absent
               PROVE  \E s \in Setting : \E e \in Lines(s) : e.name = q /\ Made(q, s, e)'
    BY DEF Targets
  <2>1. CASE q = p /\ ~ InSubdir(Dep)
    <3>1. PICK s \in Setting : s = Here
      BY <1>2
    <3>2. PICK e \in Lines(s) : e = Dep
      BY <1>2, <3>1
    <3>3. e.kind \in GitKinds /\ ~ Linked(s, e)
      BY <2>1, <1>1, <1>2, <3>1, <3>2
    <3>4. target'[q] = [place |-> Own(q), subdir |-> FALSE]
      BY <2>1, <1>6
    <3>5. clones'[Own(q)].origin \in Repos(s, e)
      BY <2>1, <1>1, <1>2, <1>4, <1>5, <3>1, <3>2
    <3>6. Made(q, s, e)'
      BY <3>3, <3>4, <3>5, Zenon DEF Made
    <3> QED
      BY <2>1, <3>2, <3>6
  <2>2. CASE q # p \/ InSubdir(Dep)
    <3>1. target'[q] = target[q]
      BY <2>2, <1>6
    <3>2a. PICK s \in Setting : \E e \in Lines(s) : e.name = q /\ Made(q, s, e)
      BY <3>1, <1>3 DEF Disk, Targets
    <3>2. PICK e \in Lines(s) : e.name = q /\ Made(q, s, e)
      BY <3>2a
    <3>3. target[q].place \in DOMAIN clones
      BY <3>1, <1>3 DEF Disk, ClonesOK
    <3>4. target[q].place = Own(q) => clones'[Own(q)] = clones[Own(q)]
      BY <3>3, <1>5
    <3>5. Made(q, s, e)'
      BY <3>1, <3>2, <3>4, MadeKept
    <3> QED
      BY <3>2, <3>5
  <2> QED
    BY <2>1, <2>2
<1> QED
  BY <1>3, <1>4, <1>5, <1>6, <1>7, <1>8, <1>9, <1>10 DEF Disk

-----------------------------------------------------------------------------
(* What a step leaves of the walk *)

\* The walk stays at its line, where every line behind it is as settled as before.
LEMMA Stays ==
  ASSUME IInv, Running, UNCHANGED <<manifest, lock>>,
         job'.at = job.at, job'.mem = job.mem, job'.clean = job.clean, job'.step # "done",
         \A i \in DOMAIN manifest.deps :
           Settled(manifest.deps[i], job.mem) => Settled(manifest.deps[i], job.mem)'
  PROVE  Progress' /\ Recording'
<1>1. Recording'
  BY DEF IInv, TypeOK, Job, Recording
<1>2. Progress'
  <2> SUFFICES ASSUME job'.clean, NEW i \in Behind'
               PROVE  Settled(manifest.deps[i], job.mem)'
    BY DEF Progress
  <2>1. i \in Behind /\ i \in DOMAIN manifest.deps /\ job.clean
    BY DEF Behind, IInv, TypeOK, Job
  <2> QED
    BY <2>1 DEF IInv, Progress
<1> QED
  BY <1>1, <1>2

\* The walk moves on, with the lines of other packages as settled as before and that
\* of this one settled, unless it skips.
LEMMA Advances ==
  ASSUME IInv, Running, job.at <= Len(manifest.deps), UNCHANGED <<manifest, lock>>,
         job'.step = "resolve", job'.at = job.at + 1, job'.index = job.index,
         job'.clean => job.clean,
         job' \in Job, Honest(job.mem)',
         job'.clean =>
           \A i \in DOMAIN manifest.deps :
             /\ i # job.at /\ manifest.deps[i].name # Dep.name /\ Settled(manifest.deps[i], job.mem)
                  => Settled(manifest.deps[i], job.mem)'
             /\ i = job.at /\ manifest.deps[i].kind \in GitKinds => Settled(manifest.deps[i], job.mem)'
  PROVE  Progress' /\ Walk' /\ Recording' /\ job' \in Job
<1>1. job \in Job /\ job.at \in DOMAIN manifest.deps
  BY LineIs DEF IInv, TypeOK
<1>2. Recording'
  BY DEF IInv, Recording
<1>3. Walk'
  BY <1>1 DEF IInv, Walk, Running, NeedsIndex, Job
<1>4. Progress'
  <2> SUFFICES ASSUME job'.clean, NEW i \in Behind'
               PROVE  Settled(manifest.deps[i], job.mem)'
    BY DEF Progress
  <2>1. /\ i \in DOMAIN manifest.deps /\ i < job.at + 1 /\ manifest.deps[i].kind \in GitKinds
        /\ \A k \in DOMAIN manifest.deps :
             k < job.at + 1 /\ manifest.deps[k].name = manifest.deps[i].name => k <= i
    BY DEF Behind
  <2>2. DOMAIN manifest.deps \subseteq Nat /\ job.at \in Nat
    BY <1>1, ManifestAssumption DEF IInv, TypeOK, IsManifest, Job
  <2>3. CASE i = job.at
    BY <2>1, <2>3
  <2>4. CASE i # job.at
    <3>1. manifest.deps[i].name # Dep.name
      BY <1>1, <2>1, <2>2, <2>4 DEF Dep
    <3>2. i \in Behind
      BY <2>1, <2>2, <2>4 DEF Behind
    <3>3. Settled(manifest.deps[i], job.mem)
      BY <3>2 DEF IInv, Progress
    <3> QED
      BY <3>1, <3>3, <2>1, <2>4
  <2> QED
    BY <2>3, <2>4
<1> QED
  BY <1>2, <1>3, <1>4

\* A line stays settled if its entry, its target and the head it leads to stay.
LEMMA SettledKept ==
  ASSUME NEW i, Settled(manifest.deps[i], job.mem),
         manifest' = manifest, job'.index = job.index,
         manifest.deps[i].name \in DOMAIN job'.mem,
         job'.mem[manifest.deps[i].name] = job.mem[manifest.deps[i].name],
         target'[manifest.deps[i].name] = target[manifest.deps[i].name],
         target[manifest.deps[i].name].place \in DOMAIN clones',
         clones'[target[manifest.deps[i].name].place].head = clones[target[manifest.deps[i].name].place].head
  PROVE  Settled(manifest.deps[i], job.mem)'
<1>1. \A d : ReposOf(d)' = ReposOf(d) /\ InSubdir(d)' = InSubdir(d)
  BY DEF ReposOf, RegistryRepos, InSubdir
<1> QED
  BY <1>1 DEF Settled

\* The entry of the line is its repository's, the others stay.
LEMMA RecordedIs ==
  ASSUME IInv, Running, job.at <= Len(manifest.deps), NEW rev \in Commit, TheRepo = rev.repo
  PROVE  /\ Recorded(rev) \in Lock
         /\ DOMAIN Recorded(rev) = DOMAIN job.mem \cup {Dep.name}
         /\ Recorded(rev)[Dep.name] = [repo |-> rev.repo, rev |-> rev]
         /\ \A p \in DOMAIN job.mem : p # Dep.name => Recorded(rev)[p] = job.mem[p]
         /\ Honest(Recorded(rev))
<1>1. job.mem \in Lock /\ Dep.name \in Package
  BY LineIs DEF IInv, TypeOK, Job, Dependency
<1>2. /\ Recorded(rev) = [z \in DOMAIN job.mem \cup {Dep.name} |->
                           IF z = Dep.name THEN [repo |-> rev.repo, rev |-> rev] ELSE job.mem[z]]
      /\ DOMAIN Recorded(rev) = DOMAIN job.mem \cup {Dep.name}
      /\ Recorded(rev)[Dep.name] = [repo |-> rev.repo, rev |-> rev]
      /\ \A p \in DOMAIN job.mem : p # Dep.name => Recorded(rev)[p] = job.mem[p]
  BY DEF Recorded, With
<1>3. [repo |-> rev.repo, rev |-> rev] \in [repo : Repo, rev : Commit]
  BY DEF Commit
<1>4. DOMAIN job.mem \subseteq Package /\ \A p \in DOMAIN job.mem : job.mem[p] \in [repo : Repo, rev : Commit]
  BY <1>1, LockIs
<1>5. Recorded(rev) \in Lock
  <2>1. \A p \in DOMAIN Recorded(rev) : Recorded(rev)[p] \in [repo : Repo, rev : Commit]
    BY <1>2, <1>3, <1>4
  <2>2. DOMAIN Recorded(rev) \subseteq Package
    BY <1>1, <1>2, <1>4
  <2>3. Recorded(rev) = [p \in DOMAIN Recorded(rev) |-> Recorded(rev)[p]]
    BY <1>2
  <2> QED
    BY <2>1, <2>2, <2>3, LockIs
<1>6. Honest(Recorded(rev))
  BY <1>2 DEF IInv, Recording, Honest
<1> QED
  BY <1>2, <1>5, <1>6

LEMMA JobMoved ==
  ASSUME NEW j \in Job, NEW mem \in Lock
  PROVE  [j EXCEPT !.step = "resolve", !.at = @ + 1, !.pin = NoCommit, !.mem = mem] \in Job
<1>1. [j EXCEPT !.step = "resolve"] \in Job
  BY DEF Job, Steps
<1>2. ASSUME NEW k \in Job
      PROVE  [k EXCEPT !.at = @ + 1] \in Job
  BY DEF Job
<1>3. ASSUME NEW k \in Job
      PROVE  [k EXCEPT !.pin = NoCommit] \in Job
  BY DEF Job
<1>4. ASSUME NEW k \in Job
      PROVE  [k EXCEPT !.mem = mem] \in Job
  BY DEF Job
<1>5. [[[[j EXCEPT !.step = "resolve"] EXCEPT !.at = @ + 1] EXCEPT !.pin = NoCommit] EXCEPT !.mem = mem] \in Job
  BY <1>1, <1>2, <1>3, <1>4
<1> QED
  BY <1>5

\* The step that takes the line of a package as it is there, at the commit resolved.
LEMMA LineDone ==
  ASSUME IInv, Running, job.step # "resolve",
         NextDep(Recorded(job.pin)), UNCHANGED <<manifest, lock, runs>>, UNCHANGED world,
         Disk',
         target'[Dep.name] = IF InSubdir(Dep) THEN [place |-> Cache(job.pin), subdir |-> TRUE]
                                              ELSE [place |-> Own(Dep.name), subdir |-> FALSE],
         target'[Dep.name].place \in DOMAIN clones',
         clones'[target'[Dep.name].place].head = job.pin,
         \A q \in Package \ {Dep.name} :
           /\ target'[q] = target[q]
           /\ target[q].place \in DOMAIN clones =>
                /\ target[q].place \in DOMAIN clones'
                /\ \/ clones'[target[q].place].head = clones[target[q].place].head
                   \/ target[q].place = Cache(job.pin) /\ clones'[target[q].place].head = job.pin
  PROVE  IInv'
<1>1. /\ job.at <= Len(manifest.deps) /\ Dep.kind \in GitKinds
      /\ job.pin \in Commit /\ ReposOf(Dep) = {job.pin.repo}
      /\ Dep.kind = "rev" => job.pin.n = Dep.n
  BY DEF IInv, Walk
<1>2. TheRepo = job.pin.repo
  BY RepoIs
<1>3. job \in Job /\ job.at \in DOMAIN manifest.deps /\ Dep.name \in Package
  BY <1>1, LineIs DEF IInv, TypeOK, Dependency
<1>4. /\ Recorded(job.pin) \in Lock
      /\ DOMAIN Recorded(job.pin) = DOMAIN job.mem \cup {Dep.name}
      /\ Recorded(job.pin)[Dep.name] = [repo |-> job.pin.repo, rev |-> job.pin]
      /\ \A p \in DOMAIN job.mem : p # Dep.name => Recorded(job.pin)[p] = job.mem[p]
      /\ Honest(Recorded(job.pin))
  BY <1>1, <1>2, RecordedIs
<1>5. /\ job' \in Job /\ job'.mem = Recorded(job.pin) /\ job'.step = "resolve"
      /\ job'.at = job.at + 1 /\ job'.index = job.index /\ job'.clean = job.clean
  <2>1. job' = [job EXCEPT !.step = "resolve", !.at = @ + 1, !.pin = NoCommit, !.mem = Recorded(job.pin)]
    BY DEF NextDep
  <2>2. /\ job'.mem = Recorded(job.pin) /\ job'.step = "resolve"
        /\ job'.at = job.at + 1 /\ job'.index = job.index /\ job'.clean = job.clean
    BY <1>3, <2>1 DEF Job
  <2>3. job' \in Job
    BY <1>3, <1>4, <2>1, JobMoved
  <2> QED
    BY <2>2, <2>3
<1>6. Honest(job.mem)'
  BY <1>4, <1>5 DEF Honest
<1>7. ASSUME NEW i \in DOMAIN manifest.deps, manifest.deps[i].name # Dep.name,
             Settled(manifest.deps[i], job.mem)
      PROVE  Settled(manifest.deps[i], job.mem)'
  <2> DEFINE q == manifest.deps[i].name
  <2>1. q \in Package
    <3>1. manifest.deps \in Seq(Dependency)
      BY ManifestAssumption DEF IInv, TypeOK, IsManifest
    <3>2. manifest.deps[i] \in Dependency
      BY <3>1
    <3> QED
      BY <3>2 DEF Dependency
  <2>2. q \in DOMAIN job.mem /\ target[q].place \in DOMAIN clones
        /\ clones[target[q].place].head = job.mem[q].rev
        /\ (target[q].place = Own(q) \/ target[q].place = Cache(job.mem[q].rev))
    BY <1>7 DEF Settled
  <2>3. clones'[target[q].place].head = clones[target[q].place].head
    BY <1>7, <2>1, <2>2, PlacesDiffer
  <2> QED
    BY <1>4, <1>5, <1>7, <2>1, <2>2, <2>3, SettledKept
<1>8. ASSUME NEW i \in DOMAIN manifest.deps, i = job.at
      PROVE  Settled(manifest.deps[i], job.mem)'
  <2>1. manifest.deps[i] = Dep
    BY <1>8 DEF Dep
  <2>2. PICK d : d = Dep
    OBVIOUS
  <2>3. \A e : ReposOf(e)' = ReposOf(e) /\ InSubdir(e)' = InSubdir(e)
    BY <1>5 DEF ReposOf, RegistryRepos, InSubdir
  <2>4. Settled(d, job.mem)'
    <3>1. d.name \in DOMAIN job'.mem /\ job'.mem[d.name] = [repo |-> job.pin.repo, rev |-> job.pin]
      BY <1>4, <1>5, <2>2
    <3>2. job'.mem[d.name].repo = job.pin.repo /\ job'.mem[d.name].rev = job.pin
      BY <3>1
    <3>3. job.pin.repo \in ReposOf(d)'
      BY <1>1, <2>2, <2>3
    <3> QED
      BY <3>1, <3>2, <3>3, <2>2, <2>3, <1>1 DEF Settled
  <2> QED
    BY <2>1, <2>2, <2>4
<1>9. Progress' /\ Walk' /\ Recording'
  BY <1>1, <1>5, <1>6, <1>7, <1>8, Advances
<1>10. TypeOK'
  BY <1>5 DEF IInv, TypeOK, Disk, world
<1> QED
  BY <1>9, <1>10 DEF IInv

-----------------------------------------------------------------------------
(* The steps of the walk *)

\* A command that ends before the lock file.
LEMMA Ends ==
  ASSUME IInv, job' = Idle, manifest' \in Manifests, lock' \in Lock, Honest(lock)', Disk',
         UNCHANGED runs, UNCHANGED world
  PROVE  IInv'
<1>1. <<>> \in Lock /\ Honest(<<>>)
  <2>1. DOMAIN <<>> = {}
    OBVIOUS
  <2>2. <<>> = [p \in DOMAIN <<>> |-> <<>>[p]]
    OBVIOUS
  <2> QED
    BY <2>1, <2>2, LockIs DEF Honest
<1>2. Idle \in Job
  BY <1>1 DEF Idle, Job, Steps
<1>3. TypeOK'
  BY <1>2 DEF IInv, TypeOK, Disk, world
<1>4. Recording'
  BY <1>1 DEF Recording, Idle, Honest
<1>5. ~ Running' /\ ~ Done'
  BY DEF Running, Done, Idle
<1> QED
  BY <1>3, <1>4, <1>5 DEF IInv, Walk, Progress

LEMMA Skipping ==
  ASSUME IInv, Running, job.at <= Len(manifest.deps), NEW trouble \in BOOLEAN, Skip(trouble),
         UNCHANGED <<manifest, lock, runs>>, UNCHANGED world, Disk'
  PROVE  IInv'
<1>1. job \in Job
  BY DEF IInv, TypeOK
<1>2. job' \in Job
  <2>1. ASSUME NEW j \in Job, NEW b \in BOOLEAN
        PROVE  [j EXCEPT !.clean = FALSE, !.trouble = b] \in Job
    BY DEF Job
  <2>2. [job EXCEPT !.step = "resolve", !.at = @ + 1, !.pin = NoCommit, !.mem = job.mem] \in Job
    BY <1>1, JobMoved DEF Job
  <2>3. job' = [[job EXCEPT !.step = "resolve", !.at = @ + 1, !.pin = NoCommit, !.mem = job.mem]
                  EXCEPT !.clean = FALSE, !.trouble = job.trouble \/ trouble]
    BY <1>1 DEF Skip, Job
  <2> QED
    BY <2>1, <2>2, <2>3, <1>1 DEF Job
<1>3. /\ job'.mem = job.mem /\ job'.step = "resolve"
      /\ job'.at = job.at + 1 /\ job'.index = job.index /\ job'.clean = FALSE
  BY <1>1 DEF Skip, Job
<1>4. Honest(job.mem)'
  BY <1>3 DEF IInv, Recording, Honest
<1>5. Progress' /\ Walk' /\ Recording'
  BY <1>2, <1>3, <1>4, Advances
<1>6. TypeOK'
  BY <1>2 DEF IInv, TypeOK, Disk, world
<1> QED
  BY <1>5, <1>6 DEF IInv

\* The walk goes past a line that is no Git dependency.
LEMMA Passes ==
  ASSUME IInv, Running, job.at <= Len(manifest.deps), Dep.kind \notin GitKinds,
         UNCHANGED <<manifest, lock, runs>>, UNCHANGED world,
         job' \in Job, job'.mem = job.mem, job'.step = "resolve",
         job'.at = job.at + 1, job'.index = job.index, job'.clean = job.clean,
         Disk', DOMAIN clones \ {Own(Dep.name)} \subseteq DOMAIN clones',
         \A q \in Package \ {Dep.name} : target'[q] = target[q],
         \A v \in DOMAIN clones' : clones'[v] = clones[v]
  PROVE  IInv'
<1>1. Honest(job.mem)'
  BY DEF IInv, Recording, Honest
<1>2. ASSUME NEW i \in DOMAIN manifest.deps, manifest.deps[i].name # Dep.name,
             Settled(manifest.deps[i], job.mem)
      PROVE  Settled(manifest.deps[i], job.mem)'
  <2> DEFINE q == manifest.deps[i].name
  <2>1. manifest.deps \in Seq(Dependency)
    BY ManifestAssumption DEF IInv, TypeOK, IsManifest
  <2>2. manifest.deps[i] \in Dependency
    BY <2>1
  <2>3. q \in Package /\ Dep.name \in Package
    BY <2>2, LineIs DEF Dependency
  <2>4. q \in DOMAIN job.mem /\ target[q].place \in DOMAIN clones
    BY <1>2 DEF Settled
  <2>5. target[q].place # Own(Dep.name)
    BY <1>2, <2>3, OnlyOwn DEF IInv
  <2> QED
    BY <1>2, <2>3, <2>4, <2>5, SettledKept
<1>3. Progress' /\ Walk' /\ Recording'
  <2>1. job.at \in DOMAIN manifest.deps /\ manifest.deps[job.at] = Dep
    BY LineIs DEF Dep
  <2> QED
    BY <1>1, <1>2, <2>1, Advances
<1>4. TypeOK'
  BY DEF IInv, TypeOK, Disk, world
<1> QED
  BY <1>3, <1>4 DEF IInv

LEMMA PathStep ==
  ASSUME IInv, InstallPath
  PROVE  IInv'
<1>1. Running /\ job.at <= Len(manifest.deps) /\ Dep.kind = "path"
  BY DEF InstallPath, Handling, Running, Steps
<1>2a. Dep.name \in Package /\ Dep \in Lines(Here) /\ Here \in Setting
  BY <1>1, LineIs, SettingIs DEF Dependency
<1>2. PICK p \in Package : p = Dep.name
  BY <1>2a
<1>3. target' = Targeted(p, Local(p), FALSE) /\ clones' = Removed(p)
  BY <1>2 DEF InstallPath
<1>4. Local(p) \in DOMAIN clones /\ \A q \in Package : Local(p) # Own(q)
  BY <1>2, PlacesDiffer DEF IInv, Disk, Cloned
<1>5. /\ target'[p] = [place |-> Local(p), subdir |-> FALSE]
      /\ \A q \in Package \ {p} : target'[q] = target[q]
  BY <1>2, <1>3 DEF Targeted, IInv, Disk
<1>6. \E s \in Setting : \E e \in Lines(s) : e.name = p /\ Made(p, s, e)'
  <2>1. PICK s \in Setting : s = Here
    BY <1>2a
  <2>2. PICK e \in Lines(s) : e = Dep
    BY <1>2a, <2>1
  <2>3. Made(p, s, e)'
    BY <1>1, <1>5, <2>2 DEF Made
  <2> QED
    BY <1>2, <2>2, <2>3
<1>7. Disk'
  BY <1>2, <1>3, <1>4, <1>6, TargetReplaced DEF IInv
<1>8. /\ DOMAIN clones' = DOMAIN clones \ {Own(p)}
      /\ \A v \in DOMAIN clones' : clones'[v] = clones[v]
  BY <1>3 DEF Removed, Restrict
<1>9. /\ job' \in Job /\ job'.mem = job.mem /\ job'.step = "resolve"
      /\ job'.at = job.at + 1 /\ job'.index = job.index /\ job'.clean = job.clean
  <2>1. job \in Job /\ job.mem \in Lock
    BY DEF IInv, TypeOK, Job
  <2>2. job' = [job EXCEPT !.step = "resolve", !.at = @ + 1, !.pin = NoCommit, !.mem = job.mem]
    BY DEF InstallPath, NextDep
  <2>3. job' \in Job
    BY <2>1, <2>2, JobMoved
  <2> QED
    BY <2>1, <2>2, <2>3 DEF Job
<1> QED
  BY <1>1, <1>2, <1>5, <1>7, <1>8, <1>9, Passes DEF InstallPath, GitKinds

LEMMA LeaveStep ==
  ASSUME IInv, LeavePath \/ Refuse
  PROVE  IInv'
<1>1. Running /\ job.at <= Len(manifest.deps) /\ Dep.kind \notin GitKinds
  BY DEF LeavePath, Refuse, Handling, Running, Steps, GitKinds
<1>2. job \in Job /\ job.mem \in Lock /\ job.step = "resolve"
  BY DEF IInv, TypeOK, Job, LeavePath, Refuse, Handling
<1>3. /\ job' \in Job /\ job'.mem = job.mem /\ job'.step = "resolve"
      /\ job'.at = job.at + 1 /\ job'.index = job.index /\ job'.clean = job.clean
  <2>1. CASE LeavePath
    <3>1. job' = [job EXCEPT !.step = "resolve", !.at = @ + 1, !.pin = NoCommit, !.mem = job.mem]
      BY <2>1 DEF LeavePath, NextDep
    <3>2. job' \in Job
      BY <1>2, <3>1, JobMoved
    <3> QED
      BY <1>2, <3>1, <3>2 DEF Job
  <2>2. CASE Refuse
    <3>1. job' = [job EXCEPT !.at = @ + 1, !.refused = TRUE]
      BY <2>2 DEF Refuse
    <3>2. ASSUME NEW j \in Job
          PROVE  [j EXCEPT !.at = @ + 1] \in Job
      BY DEF Job
    <3>3. ASSUME NEW j \in Job
          PROVE  [j EXCEPT !.refused = TRUE] \in Job
      BY DEF Job
    <3>4. job' = [[job EXCEPT !.at = @ + 1] EXCEPT !.refused = TRUE]
      BY <1>2, <3>1 DEF Job
    <3>5. job' \in Job
      BY <1>2, <3>2, <3>3, <3>4
    <3> QED
      BY <1>2, <3>1, <3>5 DEF Job
  <2> QED
    BY <2>1, <2>2
<1>4. UNCHANGED <<disk, world, runs>>
  BY DEF LeavePath, Refuse
<1>5. Disk'
  BY <1>4, DiskKept DEF IInv, disk
<1> QED
  BY <1>1, <1>3, <1>4, <1>5, Passes DEF disk

LEMMA ResolveStep ==
  ASSUME IInv, Resolve
  PROVE  IInv'
<1>1. /\ Running /\ job.at <= Len(manifest.deps) /\ Dep.kind \in GitKinds /\ job.step = "resolve"
      /\ Resolvable /\ UNCHANGED <<disk, world, runs>>
  BY DEF Resolve, Handling, Running, Steps
<1>2. PICK c \in Candidates(Dep) : job' = [job EXCEPT !.pin = c, !.step = "place"]
  BY DEF Resolve
<1>3. job \in Job /\ job.mem \in Lock /\ Dep \in Dependency /\ job.at \in Nat
  BY <1>1, LineIs DEF IInv, TypeOK, Job
<1>4. /\ c \in Commit /\ ReposOf(Dep) = {c.repo}
      /\ Dep.kind = "rev" => c.n = Dep.n
      /\ Dep.kind = "bare" =>
           /\ Dep.name \in DOMAIN job.mem
           /\ job.mem[Dep.name] = [repo |-> Dep.repo, rev |-> c]
           /\ job.cmd = "install"
  <2>1. CASE Dep.kind = "rev"
    BY <1>2, <1>3, <2>1 DEF Candidates, Dependency, Commit, ReposOf
  <2>2. CASE Dep.kind \in {"tag", "version"}
    <3>1. PICK r \in ReposOf(Dep) : c \in Tagged(r)
      BY <1>2, <2>2 DEF Candidates
    <3>2. ReposOf(Dep) = {r} /\ r \in Repo
      <4>1. CASE Dep.kind = "tag"
        BY <1>3, <3>1, <4>1 DEF ReposOf, Dependency
      <4>2. CASE Dep.kind = "version"
        <5>1. manifest \in Manifests /\ IsManifest(manifest)
          BY ManifestAssumption DEF IInv, TypeOK
        <5>2. \A q \in DOMAIN manifest.registries : manifest.registries[q] \in Repo
          BY <5>1 DEF IsManifest, Range
        <5>3. \A q \in DOMAIN Default : Default[q] \in Repo
          BY DefaultAssumption DEF Range
        <5> QED
          BY <1>3, <3>1, <4>2, <5>2, <5>3, IndexAssumption DEF ReposOf, RegistryRepos
      <4> QED
        BY <2>2, <4>1, <4>2
    <3>3. c.repo = r /\ c \in Commit
      BY <3>1, <3>2 DEF Tagged, Commit, IInv, TypeOK
    <3> QED
      BY <2>2, <3>2, <3>3
  <2>3. CASE Dep.kind = "bare"
    <3>1. job.cmd = "install" /\ c \in Locked(Dep)
      BY <1>2, <2>3 DEF Candidates
    <3>2. /\ Dep.name \in DOMAIN job.mem /\ job.mem[Dep.name].repo = Dep.repo
          /\ c = job.mem[Dep.name].rev
      BY <3>1 DEF Locked
    <3>3. job.mem[Dep.name] \in [repo : Repo, rev : Commit]
      BY <1>3, <3>2, LockIs
    <3>4. c.repo = Dep.repo
      BY <3>2 DEF IInv, Recording, Honest
    <3> QED
      BY <2>3, <3>1, <3>2, <3>3, <3>4 DEF ReposOf
  <2> QED
    BY <1>1, <2>1, <2>2, <2>3 DEF GitKinds
<1>5. /\ job' \in Job /\ job'.mem = job.mem /\ job'.at = job.at /\ job'.index = job.index
      /\ job'.clean = job.clean /\ job'.step = "place" /\ job'.pin = c /\ job'.cmd = job.cmd
  BY <1>2, <1>3, <1>4 DEF Job, Steps
<1>6. /\ \A d : ReposOf(d)' = ReposOf(d) /\ InSubdir(d)' = InSubdir(d)
      /\ Dep' = Dep /\ Resolvable' = Resolvable /\ NeedsIndex' = NeedsIndex
  BY <1>1, <1>5 DEF ReposOf, RegistryRepos, InSubdir, Dep, Resolvable, Installed, NeedsIndex, disk
<1>7. Walk'
  <2>1. (job.index => NeedsIndex) /\ job.at >= 1
    BY <1>1 DEF IInv, Walk
  <2> QED
    BY <1>1, <1>4, <1>5, <1>6, <2>1 DEF Walk, disk
<1>8. Progress' /\ Recording'
  <2>1. ASSUME NEW i \in DOMAIN manifest.deps, Settled(manifest.deps[i], job.mem)
        PROVE  Settled(manifest.deps[i], job.mem)'
    BY <1>1, <1>5, <2>1, SettledKept DEF Settled, disk
  <2> QED
    BY <1>1, <1>5, <2>1, Stays DEF disk
<1>9. Disk'
  BY <1>1, DiskKept DEF IInv, disk
<1>10. TypeOK'
  BY <1>1, <1>5, <1>9 DEF IInv, TypeOK, Disk, world, disk
<1> QED
  BY <1>7, <1>8, <1>9, <1>10 DEF IInv

LEMMA CloneStep ==
  ASSUME IInv, Clone \/ KilledClone
  PROVE  IInv'
<1>1. /\ Running /\ job.step = "place" /\ NeedsClone
      /\ target' = IF InSubdir(Dep) THEN target ELSE Targeted(Dep.name, CloneAt, FALSE)
      /\ UNCHANGED <<manifest, lock, runs>> /\ UNCHANGED world
  BY DEF Clone, KilledClone, Running, Steps
<1>2. /\ job.at <= Len(manifest.deps) /\ Dep.kind \in GitKinds /\ job.pin \in Commit
      /\ TheRepo = job.pin.repo /\ job.pin.repo \in Repo
  BY <1>1, RepoIs DEF IInv, Walk
<1>3. tip \in [Repo -> 0 .. MaxCommit]
  BY DEF IInv, TypeOK
<1>4. PICK x : /\ x \in [origin : Repo, head : Commit \cup {NoCommit}, cuts : SUBSET (0 .. MaxCommit)]
               /\ x.origin = job.pin.repo
               /\ x.head # NoCommit => x.head.repo = x.origin
               /\ clones' = With(clones, CloneAt, x)
  <2>1. FreshClone(TheRepo) \in [origin : Repo, head : Commit \cup {NoCommit}, cuts : SUBSET (0 .. MaxCommit)]
        /\ FreshClone(TheRepo).origin = job.pin.repo /\ FreshClone(TheRepo).head.repo = job.pin.repo
    BY <1>2, <1>3 DEF FreshClone, Commit
  <2>2. CASE Clone
    BY <2>1, <2>2 DEF Clone
  <2>3. CASE KilledClone
    <3> DEFINE x == [origin |-> TheRepo, head |-> NoCommit, cuts |-> {}]
    <3>1. /\ x \in [origin : Repo, head : Commit \cup {NoCommit}, cuts : SUBSET (0 .. MaxCommit)]
          /\ x.origin = job.pin.repo /\ x.head = NoCommit
      BY <1>2
    <3>2. clones' = With(clones, CloneAt, x)
      BY <2>3 DEF KilledClone
    <3> QED
      BY <3>1, <3>2
  <2> QED
    BY <2>2, <2>3
<1>5. /\ Disk'
      /\ CloneAt \notin DOMAIN clones /\ CloneAt \in DOMAIN clones'
      /\ InSubdir(Dep) => CloneAt = Cache(job.pin)
      /\ ~ InSubdir(Dep) => CloneAt = Own(Dep.name) /\ target'[Dep.name] = [place |-> CloneAt, subdir |-> FALSE]
      /\ \A v \in DOMAIN clones : v \in DOMAIN clones' /\ clones'[v] = clones[v]
      /\ \A q \in Package : q # Dep.name \/ InSubdir(Dep) => target'[q] = target[q]
  BY <1>1, <1>4, CloneMade
<1>6. CASE KilledClone
  BY <1>1, <1>5, <1>6, Ends DEF KilledClone, IInv, TypeOK, Recording, Honest
<1>7. CASE Clone
  <2>1. /\ job' \in Job /\ job'.mem = job.mem /\ job'.at = job.at /\ job'.index = job.index
        /\ job'.clean = job.clean /\ job'.step = "checkout" /\ job'.pin = job.pin /\ job'.cmd = job.cmd
    BY <1>7 DEF IInv, TypeOK, Clone, GoTo, Job, Steps
  <2>2. /\ \A d : ReposOf(d)' = ReposOf(d) /\ InSubdir(d)' = InSubdir(d)
        /\ Dep' = Dep /\ NeedsIndex' = NeedsIndex
    BY <1>1, <2>1 DEF ReposOf, RegistryRepos, InSubdir, Dep, NeedsIndex
  <2>3. Dep.name \in Package
    BY <1>1, <1>2, LineIs DEF Dependency
  <2>4. Workplace' \in DOMAIN clones'
    <3>1. CASE InSubdir(Dep)
      BY <3>1, <1>5, <2>1, <2>2 DEF Workplace
    <3>2. CASE ~ InSubdir(Dep)
      BY <3>2, <1>5, <2>1, <2>2 DEF Workplace
    <3> QED
      BY <3>1, <3>2
  <2>5. Resolvable'
    <3>1. CASE InSubdir(Dep)
      BY <3>1, <2>2 DEF Resolvable
    <3>2. CASE ~ InSubdir(Dep)
      BY <3>2, <1>1, <2>1 DEF Resolvable, NeedsClone
    <3> QED
      BY <3>1, <3>2
  <2>6. Walk'
    <3>1. /\ (job.index => NeedsIndex) /\ job.at >= 1
          /\ ReposOf(Dep) = {job.pin.repo}
          /\ Dep.kind = "rev" => job.pin.n = Dep.n
          /\ Dep.kind = "bare" =>
               /\ Dep.name \in DOMAIN job.mem
               /\ job.mem[Dep.name] = [repo |-> Dep.repo, rev |-> job.pin]
               /\ job.cmd = "install"
      BY <1>1 DEF IInv, Walk
    <3> QED
      BY <1>1, <1>2, <2>1, <2>2, <2>4, <2>5, <3>1 DEF Walk
  <2>7. ASSUME NEW i \in DOMAIN manifest.deps, Settled(manifest.deps[i], job.mem)
        PROVE  Settled(manifest.deps[i], job.mem)'
    <3> DEFINE q == manifest.deps[i].name
    <3>1. q \in DOMAIN job.mem /\ target[q].place \in DOMAIN clones
      BY <2>7 DEF Settled
    <3>2. q \in Package
      BY <3>1, LockIs DEF IInv, TypeOK, Job
    <3>3. q # Dep.name \/ InSubdir(Dep)
      <4>1. CASE ~ InSubdir(Dep)
        <5>1. target[Dep.name] = Absent
          BY <4>1, <1>1 DEF NeedsClone, Installed
        <5>2. Nowhere \notin DOMAIN clones
          BY PlacesDiffer DEF IInv, Disk, ClonesOK, Place
        <5> QED
          BY <3>1, <5>1, <5>2 DEF Absent
      <4> QED
        BY <4>1
    <3>4. target'[q] = target[q]
      BY <3>2, <3>3, <1>5
    <3> QED
      BY <1>1, <1>5, <2>1, <2>7, <3>1, <3>4, SettledKept
  <2>8. Progress' /\ Recording'
    BY <1>1, <2>1, <2>7, Stays
  <2>9. TypeOK'
    BY <1>1, <1>5, <2>1 DEF IInv, TypeOK, Disk, world
  <2> QED
    BY <1>5, <2>6, <2>8, <2>9 DEF IInv
<1> QED
  BY <1>6, <1>7

\* Where git works for a line that is no link: in the package's own clone, or in a clone
\* of another repository.
LEMMA WorkplaceIs ==
  ASSUME Steady, IInv, Running, job.step \in {"place", "checkout"}, ~ NeedsClone \/ job.step = "checkout"
  PROVE  /\ Workplace \in DOMAIN clones
         /\ InSubdir(Dep) => Workplace = Cache(job.pin)
         /\ ~ InSubdir(Dep) /\ clones[Workplace].origin = job.pin.repo =>
              /\ Workplace = Own(Dep.name)
              /\ target[Dep.name] = [place |-> Own(Dep.name), subdir |-> FALSE]
<1>1. /\ job.at <= Len(manifest.deps) /\ Dep.kind \in GitKinds /\ job.pin \in Commit
      /\ ReposOf(Dep) = {job.pin.repo} /\ Resolvable
  BY DEF IInv, Walk
<1>2. Dep.name \in Package
  BY <1>1, LineIs DEF Dependency
<1>3. CASE InSubdir(Dep)
  BY <1>3 DEF IInv, Walk, Workplace, NeedsClone
<1>4. CASE ~ InSubdir(Dep)
  <2>1. Installed(Dep.name)
    <3>1. CASE job.step = "checkout"
      <4>1. target[Dep.name].place \in DOMAIN clones
        BY <1>4, <3>1 DEF IInv, Walk, Workplace
      <4>2. Nowhere \notin DOMAIN clones
        BY PlacesDiffer DEF IInv, Disk, ClonesOK, Place
      <4> QED
        BY <4>1, <4>2 DEF Installed, Absent
    <3>2. CASE ~ NeedsClone
      BY <1>1, <1>4, <3>2 DEF NeedsClone, Resolvable, IInv, TypeOK, Job
    <3> QED
      BY <3>1, <3>2
  <2>2. target[Dep.name].place \in DOMAIN clones /\ Workplace = target[Dep.name].place
    BY <1>2, <1>4, <2>1 DEF Workplace, Installed, IInv, Disk, ClonesOK
  <2>3. CASE target[Dep.name] = [place |-> Own(Dep.name), subdir |-> FALSE]
    BY <1>4, <2>2, <2>3
  <2>4. CASE \E c \in Commit :
              /\ target[Dep.name] = [place |-> Cache(c), subdir |-> TRUE]
              /\ Cache(c) \in DOMAIN clones
              /\ clones[Cache(c)].origin \notin ReposOf(Dep)
    BY <1>1, <1>4, <2>2, <2>4
  <2> QED
    BY <1>1, <1>4, <2>1, <2>3, <2>4, InstalledIs
<1> QED
  BY <1>3, <1>4

\* The step that goes on with the same line and target.
LEMMA GoesOn ==
  ASSUME IInv, Running, job.step # "resolve", NEW step \in {"checkout", "link"}, GoTo(step),
         UNCHANGED <<manifest, lock, target, runs>>, UNCHANGED world,
         Disk', DOMAIN clones' = DOMAIN clones,
         \A v \in DOMAIN clones :
           \/ clones'[v].head = clones[v].head
           \/ v = Cache(job.pin) /\ clones'[v].head = job.pin,
         step = "checkout" => Workplace \in DOMAIN clones,
         step = "link" => /\ InSubdir(Dep) /\ Cache(job.pin) \in DOMAIN clones
                          /\ clones'[Cache(job.pin)].head = job.pin
  PROVE  IInv'
<1>1. /\ job.at <= Len(manifest.deps) /\ Dep.kind \in GitKinds /\ job.pin \in Commit
      /\ (job.index => NeedsIndex) /\ job.at >= 1
      /\ ReposOf(Dep) = {job.pin.repo}
      /\ Dep.kind = "rev" => job.pin.n = Dep.n
      /\ Dep.kind = "bare" =>
           /\ Dep.name \in DOMAIN job.mem
           /\ job.mem[Dep.name] = [repo |-> Dep.repo, rev |-> job.pin]
           /\ job.cmd = "install"
      /\ Resolvable
  BY DEF IInv, Walk
<1>2. /\ job' \in Job /\ job'.mem = job.mem /\ job'.at = job.at /\ job'.index = job.index
      /\ job'.clean = job.clean /\ job'.step = step /\ job'.pin = job.pin /\ job'.cmd = job.cmd
  BY DEF IInv, TypeOK, GoTo, Job, Steps
<1>3. /\ \A d : ReposOf(d)' = ReposOf(d) /\ InSubdir(d)' = InSubdir(d)
      /\ Dep' = Dep /\ NeedsIndex' = NeedsIndex
  BY <1>2 DEF ReposOf, RegistryRepos, InSubdir, Dep, NeedsIndex
<1>4. Resolvable' = Resolvable /\ Workplace' = Workplace
  BY <1>2, <1>3 DEF Resolvable, Installed, Workplace
<1>5. Walk'
  BY <1>1, <1>2, <1>3, <1>4 DEF Walk
<1>6. ASSUME NEW i \in DOMAIN manifest.deps, Settled(manifest.deps[i], job.mem)
      PROVE  Settled(manifest.deps[i], job.mem)'
  <2> DEFINE q == manifest.deps[i].name
  <2>1. q \in DOMAIN job.mem /\ target[q].place \in DOMAIN clones
        /\ clones[target[q].place].head = job.mem[q].rev
        /\ (target[q].place = Own(q) \/ target[q].place = Cache(job.mem[q].rev))
    BY <1>6 DEF Settled
  <2>2. clones'[target[q].place].head = clones[target[q].place].head
    BY <2>1, PlacesDiffer
  <2> QED
    BY <1>2, <1>6, <2>1, <2>2, SettledKept
<1>7. Progress' /\ Recording'
  BY <1>2, <1>6, Stays
<1>8. TypeOK'
  BY <1>2 DEF IInv, TypeOK, Disk, world
<1> QED
  BY <1>5, <1>7, <1>8 DEF IInv

LEMMA PresentStep ==
  ASSUME Steady, IInv, Present
  PROVE  IInv'
<1>1. /\ Running /\ job.step = "place" /\ ~ NeedsClone /\ UNCHANGED <<disk, world, runs>>
  BY DEF Present, Running, Steps
<1>2. Disk'
  BY <1>1, DiskKept DEF IInv, disk
<1>3. /\ Workplace \in DOMAIN clones
      /\ InSubdir(Dep) => Workplace = Cache(job.pin)
      /\ ~ InSubdir(Dep) /\ clones[Workplace].origin = job.pin.repo =>
           /\ Workplace = Own(Dep.name)
           /\ target[Dep.name] = [place |-> Own(Dep.name), subdir |-> FALSE]
  BY <1>1, WorkplaceIs
<1>4. CASE ~ Reused
  <2>1. GoTo("checkout")
    BY <1>4 DEF Present
  <2> QED
    BY <1>1, <1>2, <1>3, <2>1, GoesOn DEF disk
<1>5. CASE Reused /\ InSubdir(Dep)
  <2>1. GoTo("link") /\ clones[Cache(job.pin)].head = job.pin
    BY <1>3, <1>5 DEF Present, Reused, UpToDate
  <2> QED
    BY <1>1, <1>2, <1>3, <1>5, <2>1, GoesOn DEF disk
<1>6. CASE Reused /\ ~ InSubdir(Dep)
  <2>1. NextDep(Recorded(job.pin)) /\ clones[Workplace].head = job.pin /\ job.pin \in Commit
    BY <1>1, <1>6 DEF Present, Reused, UpToDate, IInv, Walk
  <2>2. clones[Workplace].origin = job.pin.repo
    BY <1>3, <2>1, NoCommitAssumption DEF IInv, Disk, Cloned
  <2>3. target[Dep.name].place = Workplace
    BY <1>6 DEF Workplace
  <2> QED
    BY <1>1, <1>2, <1>3, <1>6, <2>1, <2>2, <2>3, LineDone DEF disk
<1> QED
  BY <1>4, <1>5, <1>6

LEMMA CheckoutStep ==
  ASSUME Steady, IInv, Checkout
  PROVE  IInv'
<1>1. /\ Running /\ job.step = "checkout" /\ Fetchable /\ clones' = CheckedOut(Workplace)
      /\ UNCHANGED <<manifest, lock, target, runs>> /\ UNCHANGED world
  BY DEF Checkout, Running, Steps
<1>2. /\ Workplace \in DOMAIN clones
      /\ InSubdir(Dep) => Workplace = Cache(job.pin)
      /\ ~ InSubdir(Dep) =>
           /\ Workplace = Own(Dep.name)
           /\ target[Dep.name] = [place |-> Own(Dep.name), subdir |-> FALSE]
  BY <1>1, WorkplaceIs DEF Fetchable
<1>3. job.pin \in Commit /\ job.at <= Len(manifest.deps)
  BY <1>1 DEF IInv, Walk
<1>4. \A v \in DOMAIN clones :
        clones[v] \in [origin : Repo, head : Commit \cup {NoCommit}, cuts : SUBSET (0 .. MaxCommit)]
  BY DEF IInv, Disk, ClonesOK
<1>5. /\ DOMAIN clones' = DOMAIN clones
      /\ \A v \in DOMAIN clones : v # Workplace => clones'[v] = clones[v]
      /\ clones'[Workplace].head = job.pin
      /\ clones'[Workplace].origin = clones[Workplace].origin
      /\ clones'[Workplace].cuts = clones[Workplace].cuts \cup {job.pin.n}
      /\ clones'[Workplace] = [clones[Workplace] EXCEPT !.head = job.pin, !.cuts = @ \cup {job.pin.n}]
  BY <1>1, <1>2, <1>4 DEF CheckedOut
<1>6. clones'[Workplace] \in [origin : Repo, head : Commit \cup {NoCommit}, cuts : SUBSET (0 .. MaxCommit)]
  BY <1>2, <1>3, <1>4, <1>5 DEF Commit
<1>7. Disk'
  BY <1>1, <1>2, <1>4, <1>5, <1>6, HeadMoved DEF Fetchable, IInv
<1>8. CASE InSubdir(Dep)
  <2>1. GoTo("link")
    BY <1>8 DEF Checkout
  <2> QED
    BY <1>1, <1>2, <1>5, <1>7, <1>8, <2>1, GoesOn
<1>9. CASE ~ InSubdir(Dep)
  <2>1. NextDep(Recorded(job.pin)) /\ Dep.name \in Package
    BY <1>1, <1>3, <1>9, LineIs DEF Checkout, Dependency
  <2>2. target[Dep.name].place = Workplace
    BY <1>9 DEF Workplace
  <2>3. \A q \in Package \ {Dep.name} : target[q].place # Workplace
    BY <1>2, <1>9, <2>1, OnlyOwn DEF IInv
  <2> QED
    BY <1>1, <1>2, <1>5, <1>7, <1>9, <2>1, <2>2, <2>3, LineDone
<1> QED
  BY <1>8, <1>9

LEMMA LinkStep ==
  ASSUME IInv, Link
  PROVE  IInv'
<1>1. /\ Running /\ job.step = "link" /\ UNCHANGED <<manifest, lock, runs>> /\ UNCHANGED world
      /\ target' = Targeted(Dep.name, Cache(job.pin), TRUE) /\ clones' = Removed(Dep.name)
  BY DEF Link, Running, Steps
<1>2. /\ InSubdir(Dep) /\ Cache(job.pin) \in DOMAIN clones
      /\ clones[Cache(job.pin)].head = job.pin /\ job.pin \in Commit
      /\ job.at <= Len(manifest.deps) /\ Dep.kind \in GitKinds /\ ReposOf(Dep) = {job.pin.repo}
  BY <1>1 DEF IInv, Walk
<1>3. NextDep(Recorded(job.pin))
  BY <1>2 DEF Link
<1>4a. /\ Dep.name \in Package /\ Dep \in Lines(Here) /\ Here \in Setting
       /\ InSubdir(Dep) = Linked(Here, Dep) /\ ReposOf(Dep) = Repos(Here, Dep)
  BY <1>1, <1>2, LineIs, SettingIs DEF Dependency
<1>4. PICK p \in Package : p = Dep.name
  BY <1>4a
<1>5. /\ target'[p] = [place |-> Cache(job.pin), subdir |-> TRUE]
      /\ target'[p].place = Cache(job.pin)
      /\ \A q \in Package \ {p} : target'[q] = target[q]
  BY <1>1, <1>4 DEF Targeted, IInv, Disk
<1>6. /\ DOMAIN clones' = DOMAIN clones \ {Own(p)}
      /\ \A v \in DOMAIN clones' : clones'[v] = clones[v]
  BY <1>1, <1>4 DEF Removed, Restrict
<1>7. Cache(job.pin) \in DOMAIN clones'
  BY <1>2, <1>6, PlacesDiffer
<1>8. \E s \in Setting : \E e \in Lines(s) : e.name = p /\ Made(p, s, e)'
  <2>1. PICK s \in Setting : s = Here
    BY <1>4a
  <2>2. PICK e \in Lines(s) : e = Dep
    BY <1>4a, <2>1
  <2>3. PICK c \in Commit : c = job.pin
    BY <1>2
  <2>4. e.kind \in GitKinds /\ Linked(s, e) /\ c.repo \in Repos(s, e)
    BY <1>2, <1>4a, <2>1, <2>2, <2>3
  <2>5. target'[p] = [place |-> Cache(c), subdir |-> TRUE]
    BY <1>5, <2>3
  <2>6. Made(p, s, e)'
    BY <2>4, <2>5, Zenon DEF Made
  <2> QED
    BY <1>4, <2>2, <2>6
<1>9. Disk'
  <2>1. PICK w \in DOMAIN clones : w = Cache(job.pin)
    BY <1>2
  <2>2. \A q \in Package : w # Own(q)
    BY <2>1, PlacesDiffer
  <2>3. target' = Targeted(p, w, TRUE) /\ clones' = Removed(p)
    BY <1>1, <1>4, <2>1
  <2> QED
    BY <1>8, <2>2, <2>3, TargetReplaced DEF IInv
<1>10. ASSUME NEW q \in Package \ {Dep.name}, target[q].place \in DOMAIN clones
       PROVE  target[q].place \in DOMAIN clones' /\ clones'[target[q].place].head = clones[target[q].place].head
  <2>1. target[q].place # Own(p)
    BY <1>4, <1>10, OnlyOwn DEF IInv
  <2> QED
    BY <1>6, <1>10, <2>1
<1>11. clones'[Cache(job.pin)].head = job.pin
  BY <1>2, <1>6, <1>7
<1> QED
  BY <1>1, <1>2, <1>3, <1>4, <1>5, <1>7, <1>9, <1>10, <1>11, LineDone

\* Nothing is known in advance of a pull: it records the commit it finds.
LEMMA PullStep ==
  ASSUME Steady, IInv, Pull
  PROVE  IInv'
<1>1. /\ Running /\ job.step = "resolve" /\ job.at <= Len(manifest.deps) /\ Dep.kind = "bare"
      /\ ~ InSubdir(Dep) /\ Installed(Dep.name)
      /\ UNCHANGED <<manifest, lock, target, runs>> /\ UNCHANGED world
  BY DEF Pull, Handling, Running, Steps
<1> DEFINE w == target[Dep.name].place
<1> DEFINE new == [repo |-> clones[w].origin, n |-> tip[clones[w].origin]]
<1>2. /\ target[Dep.name] = [place |-> Own(Dep.name), subdir |-> FALSE]
      /\ Own(Dep.name) \in DOMAIN clones
      /\ clones[Own(Dep.name)].origin = Dep.repo
  BY <1>1, InstalledIs DEF GitKinds
<1>3. w = Own(Dep.name)
  BY <1>2
<1>4. Dep.name \in Package /\ Dep.repo \in Repo /\ job \in Job
      /\ job.at \in DOMAIN manifest.deps /\ manifest.deps[job.at] = Dep
  BY <1>1, LineIs DEF Dependency, IInv, TypeOK, Dep
<1>5. TheRepo = Dep.repo /\ ReposOf(Dep) = {Dep.repo}
  BY <1>1 DEF TheRepo, ReposOf
<1>6. new \in Commit /\ new.repo = Dep.repo
  BY <1>2, <1>3, <1>4 DEF IInv, TypeOK, Commit
<1>7. CASE clones' = [clones EXCEPT ![w].head = new] /\ NextDep(Recorded(new))
  <2>1. \A v \in DOMAIN clones :
          clones[v] \in [origin : Repo, head : Commit \cup {NoCommit}, cuts : SUBSET (0 .. MaxCommit)]
    BY DEF IInv, Disk, ClonesOK
  <2>2. /\ DOMAIN clones' = DOMAIN clones
        /\ \A v \in DOMAIN clones : v # w => clones'[v] = clones[v]
        /\ clones'[w] = [clones[w] EXCEPT !.head = new]
    BY <1>2, <1>3, <1>7
  <2>3. /\ clones'[w].head = new /\ clones'[w].origin = clones[w].origin
        /\ clones'[w] \in [origin : Repo, head : Commit \cup {NoCommit}, cuts : SUBSET (0 .. MaxCommit)]
    BY <1>2, <1>3, <1>6, <2>1, <2>2
  <2>4. Disk'
    BY <1>1, <1>2, <1>3, <1>6, <2>1, <2>2, <2>3, HeadMoved DEF IInv
  <2>5. /\ Recorded(new) \in Lock
        /\ DOMAIN Recorded(new) = DOMAIN job.mem \cup {Dep.name}
        /\ Recorded(new)[Dep.name] = [repo |-> new.repo, rev |-> new]
        /\ \A p \in DOMAIN job.mem : p # Dep.name => Recorded(new)[p] = job.mem[p]
        /\ Honest(Recorded(new))
    BY <1>1, <1>5, <1>6, RecordedIs
  <2>6. job' = [job EXCEPT !.step = "resolve", !.at = @ + 1, !.pin = NoCommit, !.mem = Recorded(new)]
    BY <1>7 DEF NextDep
  <2>7. /\ job'.mem = Recorded(new) /\ job'.step = "resolve"
        /\ job'.at = job.at + 1 /\ job'.index = job.index /\ job'.clean = job.clean
    BY <1>4, <2>6 DEF Job
  <2>8. job' \in Job
    BY <1>4, <2>5, <2>6, JobMoved
  <2>9. Honest(job.mem)'
    BY <2>5, <2>7 DEF Honest
  <2>10. ASSUME NEW i \in DOMAIN manifest.deps, manifest.deps[i].name # Dep.name,
                Settled(manifest.deps[i], job.mem)
         PROVE  Settled(manifest.deps[i], job.mem)'
    <3> DEFINE q == manifest.deps[i].name
    <3>1. q \in DOMAIN job.mem /\ target[q].place \in DOMAIN clones
      BY <2>10 DEF Settled
    <3>2. q \in Package
      BY <3>1, LockIs DEF IInv, TypeOK, Job
    <3>3. target[q].place # w
      BY <1>3, <1>4, <2>10, <3>2, OnlyOwn DEF IInv
    <3> QED
      BY <1>1, <2>2, <2>5, <2>7, <2>10, <3>1, <3>3, SettledKept
  <2>11. ASSUME NEW i \in DOMAIN manifest.deps, i = job.at
         PROVE  Settled(manifest.deps[i], job.mem)'
    <3>1. PICK d : d = Dep
      OBVIOUS
    <3>2. manifest.deps[i] = d
      BY <2>11, <1>4, <3>1
    <3>3. \A e : ReposOf(e)' = ReposOf(e) /\ InSubdir(e)' = InSubdir(e)
      BY <1>1, <2>7 DEF ReposOf, RegistryRepos, InSubdir
    <3>4. /\ d.name \in DOMAIN job'.mem
          /\ job'.mem[d.name].repo = Dep.repo /\ job'.mem[d.name].rev = new
      <4> HIDE DEF new
      <4>1. Dep.name \in DOMAIN job'.mem /\ job'.mem[Dep.name] = [repo |-> new.repo, rev |-> new]
        BY <2>5, <2>7
      <4> QED
        BY <1>6, <3>1, <4>1
    <3>5. target'[d.name] = [place |-> Own(d.name), subdir |-> FALSE] /\ target'[d.name].place = w
      BY <1>1, <1>2, <3>1
    <3>6. w \in DOMAIN clones' /\ clones'[w].head = new
      BY <1>2, <1>3, <2>2, <2>3
    <3>7. Settled(d, job.mem)'
      BY <1>1, <1>5, <1>6, <3>1, <3>3, <3>4, <3>5, <3>6 DEF Settled
    <3> QED
      BY <1>1, <3>2, <3>7
  <2>12. Progress' /\ Walk' /\ Recording'
    BY <1>1, <2>7, <2>8, <2>9, <2>10, <2>11, Advances
  <2>13. TypeOK'
    BY <1>1, <2>4, <2>8 DEF IInv, TypeOK, Disk, world
  <2> QED
    BY <2>4, <2>12, <2>13 DEF IInv
<1>8. CASE Skip(CanPull(clones[w])) /\ UNCHANGED clones
  <2>1. CanPull(clones[w]) \in BOOLEAN
    BY DEF CanPull
  <2>2. Disk'
    BY <1>1, <1>8, DiskKept DEF IInv
  <2> QED
    BY <1>1, <1>8, <2>1, <2>2, Skipping
<1> QED
  BY <1>7, <1>8 DEF Pull

\* Every way a line is given up.
LEMMA SkipStep ==
  ASSUME IInv, NotInstalled \/ Unresolved \/ CloneFails \/ CheckoutFails \/ LinkFails
  PROVE  IInv'
<1>1. Running /\ UNCHANGED <<manifest, lock, runs>> /\ UNCHANGED world
  BY DEF NotInstalled, Unresolved, CloneFails, CheckoutFails, LinkFails, Handling, Running, Steps, disk
<1>2. job.at <= Len(manifest.deps)
  BY <1>1 DEF NotInstalled, Unresolved, CloneFails, CheckoutFails, LinkFails, Handling, IInv, Walk
<1>3. \E trouble \in BOOLEAN : Skip(trouble)
  BY DEF NotInstalled, Unresolved, CloneFails, CheckoutFails, LinkFails
<1>4. Disk'
  <2>1. CASE UNCHANGED <<target, clones>>
    BY <2>1, DiskKept DEF IInv
  <2>2. CASE target' = Unlinked(Dep.name) /\ clones' = Removed(Dep.name)
    BY <1>1, <1>2, <2>2, LineIs, TargetRemoved DEF IInv, Dependency
  <2> QED
    BY <2>1, <2>2 DEF NotInstalled, Unresolved, CloneFails, CheckoutFails, LinkFails, disk
<1> QED
  BY <1>1, <1>2, <1>3, <1>4, Skipping

\* What the link would have replaced is gone.
LEMMA KilledLinkStep ==
  ASSUME IInv, KilledLink
  PROVE  IInv'
<1>1. /\ Running /\ job' = Idle /\ UNCHANGED <<manifest, lock, runs>> /\ UNCHANGED world
      /\ target' = Unlinked(Dep.name) /\ clones' = Removed(Dep.name)
  BY DEF KilledLink, Handling, Running, Steps
<1>2. job.at <= Len(manifest.deps)
  BY DEF KilledLink, Handling, Running, Steps, IInv, Walk
<1>3. Dep.name \in Package
  BY <1>1, <1>2, LineIs DEF Dependency
<1>4. Disk'
  BY <1>1, <1>3, TargetRemoved DEF IInv
<1> QED
  BY <1>1, <1>4, Ends DEF IInv, TypeOK, Recording, Honest

LEMMA EndStep ==
  ASSUME IInv, PathMissing \/ EndRefused \/ Killed \/ KilledWrite \/ Edit
  PROVE  IInv'
<1>1. /\ job' = Idle /\ UNCHANGED <<target, clones, runs>> /\ UNCHANGED world
      /\ manifest' \in Manifests
  BY DEF PathMissing, EndRefused, Killed, KilledWrite, Edit, disk, IInv, TypeOK
<1>2. Disk'
  BY <1>1, DiskKept DEF IInv
<1>3. lock' \in Lock /\ Honest(lock)'
  <2>1. CASE KilledWrite
    <3>1. PICK last \in Package : lock' = Restrict(job.mem, {p \in DOMAIN job.mem : p < last})
      BY <2>1 DEF KilledWrite
    <3>2. /\ DOMAIN lock' \subseteq DOMAIN job.mem
          /\ lock' = [p \in DOMAIN lock' |-> lock'[p]]
          /\ \A p \in DOMAIN lock' : lock'[p] = job.mem[p]
      BY <3>1 DEF Restrict
    <3>3. job.mem \in Lock /\ Honest(job.mem)
      BY DEF IInv, TypeOK, Job, Recording
    <3>4. lock' \in Lock
      BY <3>2, <3>3, LockIs
    <3> QED
      BY <3>2, <3>3, <3>4 DEF Honest
  <2>2. CASE PathMissing \/ EndRefused \/ Killed \/ Edit
    BY <2>2 DEF PathMissing, EndRefused, Killed, Edit, disk, IInv, TypeOK, Recording, Honest
  <2> QED
    BY <2>1, <2>2
<1> QED
  BY <1>1, <1>2, <1>3, Ends

LEMMA WriteStep ==
  ASSUME IInv, WriteLock
  PROVE  IInv'
<1>1. /\ Running /\ AtEnd /\ lock' = job.mem /\ job' = [job EXCEPT !.step = "done"]
      /\ UNCHANGED <<manifest, target, clones, runs>> /\ UNCHANGED world
  BY DEF WriteLock, AtEnd, Running, Steps, Written, GoTo
<1>2. /\ job' \in Job /\ job'.mem = job.mem /\ job'.at = job.at /\ job'.index = job.index
      /\ job'.clean = job.clean /\ job'.step = "done" /\ job.mem \in Lock
  BY <1>1 DEF IInv, TypeOK, Job, Steps
<1>3. Disk'
  BY <1>1, DiskKept DEF IInv
<1>4. TypeOK'
  BY <1>1, <1>2, <1>3 DEF IInv, TypeOK, Disk, world
<1>5. Recording' /\ ~ Running'
  BY <1>1, <1>2 DEF IInv, Recording, Honest, AtEnd, Running
<1>6. Progress'
  <2> SUFFICES ASSUME job'.clean, NEW i \in Behind'
               PROVE  Settled(manifest.deps[i], job.mem)'
    BY DEF Progress
  <2>1. i \in Behind /\ job.clean
    BY <1>1, <1>2 DEF Behind
  <2>2. Settled(manifest.deps[i], job.mem)
    BY <1>1, <2>1 DEF IInv, Progress
  <2> QED
    BY <1>1, <1>2, <2>2, SettledKept DEF Settled
<1> QED
  BY <1>3, <1>4, <1>5, <1>6 DEF IInv, Walk

LEMMA RunStep ==
  ASSUME IInv, NEW cmd \in {"install", "update"}, Run(cmd)
  PROVE  IInv'
<1>1. runs' = runs + 1 /\ runs < MaxRuns /\ UNCHANGED <<disk, world>>
  BY DEF Run
<1>2. PICK fetched \in BOOLEAN :
        /\ fetched => NeedsIndex
        /\ job' = [Idle EXCEPT !.cmd = cmd, !.step = "resolve", !.mem = lock, !.index = fetched,
                               !.clean = TRUE, !.trouble = NeedsIndex /\ ~ fetched]
  BY DEF Run
<1>3. job' = [cmd |-> cmd, step |-> "resolve", at |-> 1, pin |-> NoCommit, mem |-> lock,
              index |-> fetched, clean |-> TRUE, refused |-> FALSE,
              trouble |-> NeedsIndex /\ ~ fetched]
  BY <1>2 DEF Idle
<1>4. lock \in Lock /\ Honest(lock) /\ (NeedsIndex /\ ~ fetched) \in BOOLEAN
  BY DEF IInv, TypeOK, Recording, NeedsIndex
<1>5. job' \in Job
  BY <1>3, <1>4 DEF Job, Steps
<1>6. Disk'
  BY <1>1, DiskKept DEF IInv, disk
<1>7. TypeOK'
  BY <1>1, <1>5, <1>6, BoundAssumption DEF IInv, TypeOK, Disk, world, disk
<1>8. Recording'
  BY <1>1, <1>3, <1>4 DEF Recording, Honest, disk
<1>9. Walk'
  <2>1. job'.index = fetched /\ job'.step = "resolve" /\ job'.at = 1
    BY <1>3
  <2>2. NeedsIndex' = NeedsIndex
    BY <1>1 DEF NeedsIndex, disk
  <2> QED
    BY <1>2, <2>1, <2>2 DEF Walk
<1>10. Behind' = {}
  <2>1. manifest.deps \in Seq(Dependency)
    BY ManifestAssumption DEF IInv, TypeOK, IsManifest
  <2> QED
    BY <1>1, <1>3, <2>1 DEF Behind, disk
<1> QED
  BY <1>6, <1>7, <1>8, <1>9, <1>10 DEF IInv, Progress

\* The world goes on, and the program does nothing.
LEMMA StutterStep ==
  ASSUME IInv, UNCHANGED <<disk, job, runs>>,
         tip' \in [Repo -> 0 .. MaxCommit], tags' \in [Repo -> SUBSET (0 .. MaxCommit)]
  PROVE  IInv'
<1>1. UNCHANGED <<disk, job, runs>>
  OBVIOUS
<1>2. Disk'
  BY <1>1, DiskKept DEF IInv, disk
<1>4. TypeOK'
  BY <1>1, <1>2 DEF IInv, TypeOK, Disk, disk
<1>5. \A d : ReposOf(d)' = ReposOf(d) /\ InSubdir(d)' = InSubdir(d)
  BY <1>1 DEF ReposOf, RegistryRepos, InSubdir, disk
<1>6. Recording'
  BY <1>1 DEF IInv, Recording, Honest, disk
<1>7. Walk'
  BY <1>1, <1>5 DEF IInv, Walk, Running, NeedsIndex, Dep, Resolvable, Installed, Workplace, disk
<1>8. Progress'
  BY <1>1, <1>5 DEF IInv, Progress, Behind, Running, Done, Settled, disk
<1> QED
  BY <1>2, <1>4, <1>6, <1>7, <1>8 DEF IInv

LEMMA WorldStep ==
  ASSUME IInv, NEW r \in Repo, Push(r) \/ Tag(r)
  PROVE  IInv'
<1>1. UNCHANGED <<disk, job, runs>>
  BY DEF Push, Tag
<1>2. tip' \in [Repo -> 0 .. MaxCommit] /\ tags' \in [Repo -> SUBSET (0 .. MaxCommit)]
  BY BoundAssumption DEF Push, Tag, IInv, TypeOK
<1> QED
  BY <1>1, <1>2, StutterStep

-----------------------------------------------------------------------------
(* What the commands leave *)

LEMMA Starts ==
  ASSUME Init
  PROVE  IInv
<1>1. <<>> \in Lock /\ Honest(<<>>)
  <2>1. DOMAIN <<>> = {}
    OBVIOUS
  <2>2. <<>> = [p \in DOMAIN <<>> |-> <<>>[p]]
    OBVIOUS
  <2> QED
    BY <2>1, <2>2, LockIs DEF Honest
<1>2. Idle \in Job
  BY <1>1 DEF Idle, Job, Steps
<1>3. lock \in Lock /\ Honest(lock)
  BY LockAssumption DEF Init, Honest
<1>4. /\ DOMAIN clones = {Local(p) : p \in Package}
      /\ \A p \in Package : clones[Local(p)] =
           [origin |-> UserClone[p], head |-> [repo |-> UserClone[p], n |-> 0], cuts |-> {}]
  BY DEF Init, Local
<1>5. \A w \in DOMAIN clones :
        /\ clones[w] \in [origin : Repo, head : Commit \cup {NoCommit}, cuts : SUBSET (0 .. MaxCommit)]
        /\ clones[w].head.repo = clones[w].origin
  <2> SUFFICES ASSUME NEW p \in Package
               PROVE  /\ clones[Local(p)] \in [origin : Repo, head : Commit \cup {NoCommit}, cuts : SUBSET (0 .. MaxCommit)]
                      /\ clones[Local(p)].head.repo = clones[Local(p)].origin
    BY <1>4
  <2>1. UserClone[p] \in Repo /\ 0 \in 0 .. MaxCommit
    BY UserCloneAssumption, BoundAssumption
  <2>2. [repo |-> UserClone[p], n |-> 0] \in Commit
    BY <2>1 DEF Commit
  <2>3. PICK c \in Commit : c = [repo |-> UserClone[p], n |-> 0]
    BY <2>2
  <2>4. clones[Local(p)] = [origin |-> UserClone[p], head |-> c, cuts |-> {}] /\ c.repo = UserClone[p]
    BY <1>4, <2>3
  <2> QED
    BY <2>1, <2>4
<1>6. target = [p \in Package |-> Absent]
  BY DEF Init
<1>7. ClonesOK
  BY <1>4, <1>5, <1>6, PlacesDiffer DEF ClonesOK, Place, Absent
<1>8. Disk
  <2>1. target \in [Package -> [place : Place \cup {Nowhere}, subdir : BOOLEAN]]
    BY <1>6 DEF Absent
  <2>2. Cloned
    BY <1>4, <1>5, PlacesDiffer DEF Cloned
  <2>3. Targets
    BY <1>6 DEF Targets
  <2> QED
    BY <1>7, <2>1, <2>2, <2>3 DEF Disk
<1>9. TypeOK
  BY <1>2, <1>3, <1>8, BoundAssumption DEF Init, TypeOK, Disk
<1>10. Recording /\ ~ Running /\ ~ Done
  BY <1>1, <1>3 DEF Init, Idle, Recording, Running, Done
<1> QED
  BY <1>8, <1>9, <1>10 DEF IInv, Walk, Progress

LEMMA Inductive ==
  ASSUME Steady, IInv, [Next]_vars
  PROVE  IInv'
<1>1. CASE InstallPath
  BY <1>1, PathStep
<1>2. CASE LeavePath \/ Refuse
  BY <1>2, LeaveStep
<1>3. CASE NotInstalled \/ Unresolved \/ CloneFails \/ CheckoutFails \/ LinkFails
  BY <1>3, SkipStep
<1>4. CASE Resolve
  BY <1>4, ResolveStep
<1>5. CASE Pull
  BY <1>5, PullStep
<1>6. CASE Clone \/ KilledClone
  BY <1>6, CloneStep
<1>7. CASE Present
  BY <1>7, PresentStep
<1>8. CASE Checkout
  BY <1>8, CheckoutStep
<1>9. CASE Link
  BY <1>9, LinkStep
<1>9a. CASE KilledLink
  BY <1>9a, KilledLinkStep
<1>10. CASE PathMissing \/ EndRefused \/ Killed \/ KilledWrite \/ Edit
  BY <1>10, EndStep
<1>11. CASE WriteLock
  BY <1>11, WriteStep
<1>12. CASE \E cmd \in {"install", "update"} : Run(cmd)
  BY <1>12, RunStep
<1>13. CASE \E r \in Repo : Push(r) \/ Tag(r)
  BY <1>13, WorldStep
<1>14. CASE UNCHANGED vars
  <2>1. UNCHANGED <<disk, job, runs>> /\ UNCHANGED world
    BY <1>14 DEF vars, disk, world
  <2> QED
    BY <2>1, StutterStep DEF world, IInv, TypeOK
<1> QED
  BY <1>1, <1>2, <1>3, <1>4, <1>5, <1>6, <1>7, <1>8, <1>9, <1>9a, <1>10, <1>11, <1>12, <1>13, <1>14 DEF Next

\* The invariant: what the lock file in memory, the targets and the clones say of the
\* lines behind the walk agrees, whatever was killed before (install_deps, update_deps).
THEOREM Agreement == Steady => (Spec => []IInv)
<1> SUFFICES ASSUME Steady
             PROVE  Spec => []IInv
  OBVIOUS
<1>1. Init => IInv
  BY Starts
<1>2. IInv /\ [Next]_vars => IInv'
  BY Inductive
<1> QED
  BY <1>1, <1>2, PTL DEF Spec

LEMMA PinnedIs ==
  ASSUME IInv
  PROVE  Pinned
<1> SUFFICES ASSUME Done, job.clean, NEW d \in GitDeps
             PROVE  Settled(d, lock)
  BY DEF Pinned, Settled
<1>1. PICK i \in DOMAIN manifest.deps :
        /\ d = manifest.deps[i] /\ manifest.deps[i].kind \in GitKinds
        /\ \A k \in DOMAIN manifest.deps : manifest.deps[k].name = manifest.deps[i].name => k <= i
  BY DEF GitDeps
<1>2. manifest.deps \in Seq(Dependency) /\ job.at > Len(manifest.deps) /\ lock = job.mem /\ job.at \in Nat
  BY ManifestAssumption DEF IInv, TypeOK, IsManifest, Recording, Done, Job
<1>3. i \in Behind
  BY <1>1, <1>2 DEF Behind
<1> QED
  BY <1>1, <1>2, <1>3 DEF IInv, Progress

\* A command that skipped nothing leaves every package at the commit locked for it, in a
\* clone of its repository and at its place (install_deps, update_deps, write_lockfile).
THEOREM PinnedAlways == Steady => (Spec => []Pinned)
<1> SUFFICES ASSUME Steady
             PROVE  Spec => []Pinned
  OBVIOUS
<1>1. Spec => []IInv
  BY Agreement
<1>2. IInv => Pinned
  BY PinnedIs
<1> QED
  BY <1>1, <1>2, PTL

-----------------------------------------------------------------------------
(* What an install keeps and what it repairs *)

\* When no commit can be told, whatever the tags are.
LEMMA CandidatesAre ==
  ASSUME TypeOK, Topped, NEW d, d.kind \in GitKinds, d.kind # "version" => d.repo \in Repo
  PROVE  Candidates(d) = {} <=> Hopeless(d) \/ (d.kind = "bare" /\ job.cmd = "update")
<1>1. CASE d.kind = "rev"
  BY <1>1 DEF Candidates, Hopeless
<1>2. CASE d.kind \in {"tag", "version"}
  <2>1. ReposOf(d) \subseteq Repo
    <3>1. manifest \in Manifests /\ IsManifest(manifest)
      BY ManifestAssumption DEF TypeOK
    <3>2. \A q \in DOMAIN manifest.registries : manifest.registries[q] \in Repo
      BY <3>1 DEF IsManifest, Range
    <3>3. \A q \in DOMAIN Default : Default[q] \in Repo
      BY DefaultAssumption DEF Range
    <3> QED
      BY <3>2, <3>3, IndexAssumption DEF ReposOf, RegistryRepos
  <2>2. \A r \in Repo : Tagged(r) # {}
    BY DEF Topped, Tagged
  <2>3. Candidates(d) = UNION {Tagged(r) : r \in ReposOf(d)}
    BY <1>2 DEF Candidates
  <2>4. Candidates(d) = {} <=> ReposOf(d) = {}
    BY <2>1, <2>2, <2>3
  <2> QED
    BY <1>2, <2>4 DEF Hopeless
<1>3. CASE d.kind = "bare"
  BY <1>3 DEF Candidates, Hopeless, TypeOK, Job
<1> QED
  BY <1>1, <1>2, <1>3 DEF GitKinds

\* The steps of an install.
LEMMA Installs ==
  ASSUME IInv, Topped, [Next]_vars, Running', job'.cmd = "install"
  PROVE  \/ \E cmd \in {"install", "update"} : Run(cmd)
         \/ /\ Running /\ job.cmd = "install" /\ UNCHANGED <<manifest, lock>>
            /\ job'.index = job.index /\ job'.at >= job.at
            /\ \/ job'.mem = job.mem
               \/ job.step # "resolve" /\ job'.mem = Recorded(job.pin)
            /\ \/ job'.clean = job.clean /\ job'.trouble = job.trouble
               \/ job'.trouble
               \/ /\ job.step = "resolve" /\ job.at <= Len(manifest.deps) /\ job'.at = job.at + 1
                  /\ Dep.kind \in GitKinds /\ Hopeless(Dep)
                  /\ job'.trouble = job.trouble /\ job'.mem = job.mem
               \/ /\ job.step = "checkout" /\ clones[Workplace].origin # job.pin.repo
                  /\ job'.trouble = job.trouble /\ job'.mem = job.mem
<1>1. job \in Job /\ job.at \in Nat
  BY DEF IInv, TypeOK, Job
<1>2. ASSUME NEW mem, NextDep(mem)
      PROVE  /\ job'.mem = mem /\ job'.cmd = job.cmd /\ job'.index = job.index
             /\ job'.at >= job.at /\ job'.clean = job.clean /\ job'.trouble = job.trouble
  BY <1>1, <1>2 DEF NextDep, Job
<1>3. ASSUME NEW trouble \in BOOLEAN, Skip(trouble)
      PROVE  /\ job'.mem = job.mem /\ job'.cmd = job.cmd /\ job'.index = job.index
             /\ job'.at = job.at + 1
             /\ trouble => job'.trouble
             /\ ~ trouble => job'.trouble = job.trouble
  BY <1>1, <1>3 DEF Skip, Job
<1>4. ASSUME NEW step, GoTo(step)
      PROVE  /\ job'.mem = job.mem /\ job'.cmd = job.cmd /\ job'.index = job.index
             /\ job'.at = job.at /\ job'.clean = job.clean /\ job'.trouble = job.trouble
  BY <1>1, <1>4 DEF GoTo, Job
<1>5. ~ Idle.step \in Steps \ {"idle", "done"}
  BY DEF Idle
<1>6. CASE InstallPath \/ LeavePath
  BY <1>1, <1>2, <1>6 DEF InstallPath, LeavePath, Handling, Running, Steps
<1>7. CASE Refuse
  BY <1>1, <1>7 DEF Refuse, Handling, Running, Steps, Job, disk
<1>8. CASE NotInstalled
  BY <1>3, <1>8 DEF NotInstalled
<1>9. CASE Resolve
  <2>1. PICK c : job' = [job EXCEPT !.pin = c, !.step = "place"]
    BY <1>9 DEF Resolve
  <2> QED
    BY <1>1, <1>9, <2>1 DEF Resolve, Handling, Running, Steps, Job, disk
<1>10. CASE Unresolved
  <2>1. /\ Running /\ job.step = "resolve" /\ job.at <= Len(manifest.deps) /\ Dep.kind \in GitKinds
        /\ UNCHANGED <<manifest, lock>>
    BY <1>10 DEF Unresolved, Handling, Running, Steps, disk
  <2>2. CASE Skip(TRUE)
    <3>1. job'.mem = job.mem /\ job'.cmd = job.cmd /\ job'.index = job.index /\ job'.at = job.at + 1 /\ job'.trouble
      BY <1>3, <2>2
    <3> QED
      BY <1>1, <2>1, <3>1
  <2>3. CASE Candidates(Dep) = {} /\ Skip(FALSE)
    <3>1. job.cmd = "install" /\ job'.trouble = job.trouble /\ job'.mem = job.mem
          /\ job'.at = job.at + 1 /\ job'.index = job.index
      BY <1>1, <1>3, <2>3 DEF Job
    <3>2. Hopeless(Dep)
      BY <2>1, <2>3, <3>1, CandidatesAre, LineIs DEF IInv, Dependency
    <3> QED
      BY <1>1, <2>1, <3>1, <3>2
  <2> QED
    BY <1>10, <2>2, <2>3 DEF Unresolved
<1>11. CASE Pull
  <2>1. job.cmd = "update"
    BY <1>11 DEF Pull
  <2>2. job'.cmd = job.cmd
    <3>1. CASE \E mem : NextDep(mem)
      BY <1>2, <3>1
    <3>2. CASE \E trouble \in BOOLEAN : Skip(trouble)
      BY <1>3, <3>2
    <3> QED
      BY <1>11, <3>1, <3>2 DEF Pull, CanPull
  <2> QED
    BY <2>1, <2>2
<1>12. CASE Clone
  BY <1>1, <1>4, <1>12 DEF Clone, Running, Steps
<1>13. CASE CloneFails \/ LinkFails
  <2>1. Skip(TRUE)
    BY <1>13 DEF CloneFails, LinkFails
  <2>2. job'.mem = job.mem /\ job'.cmd = job.cmd /\ job'.index = job.index /\ job'.at = job.at + 1 /\ job'.trouble
    BY <1>3, <2>1
  <2>3. Running /\ UNCHANGED <<manifest, lock>>
    BY <1>13 DEF CloneFails, LinkFails, Running, Steps, disk
  <2> QED
    BY <1>1, <2>2, <2>3
<1>14. CASE Present
  BY <1>1, <1>2, <1>4, <1>14 DEF Present, Running, Steps, disk
<1>15. CASE Checkout
  BY <1>1, <1>2, <1>4, <1>15 DEF Checkout, Running, Steps
<1>16. CASE CheckoutFails
  <2>1. PICK trouble \in BOOLEAN : trouble = (clones[Workplace].origin = job.pin.repo)
    OBVIOUS
  <2>2. Skip(trouble)
    BY <1>16, <2>1 DEF CheckoutFails
  <2>3. /\ job'.mem = job.mem /\ job'.cmd = job.cmd /\ job'.index = job.index /\ job'.at = job.at + 1
        /\ trouble => job'.trouble
        /\ ~ trouble => job'.trouble = job.trouble
    BY <1>3, <2>2
  <2>4. Running /\ job.step = "checkout" /\ UNCHANGED <<manifest, lock>>
    BY <1>16 DEF CheckoutFails, Running, Steps, disk
  <2>5. CASE trouble
    <3>1. job'.trouble
      BY <2>3, <2>5
    <3> QED
      BY <1>1, <2>3, <2>4, <3>1
  <2>6. CASE ~ trouble
    <3>1. job'.trouble = job.trouble /\ clones[Workplace].origin # job.pin.repo
      BY <2>1, <2>3, <2>6
    <3> QED
      BY <1>1, <2>3, <2>4, <3>1
  <2> QED
    BY <2>5, <2>6
<1>17. CASE Link
  <2>1. clones[Cache(job.pin)].head = job.pin /\ job.step = "link" /\ Running
    BY <1>17 DEF Link, Running, Steps, IInv, Walk
  <2> QED
    BY <1>1, <1>2, <1>17, <2>1 DEF Link
<1>18. CASE PathMissing \/ EndRefused \/ Killed \/ KilledWrite \/ KilledClone \/ KilledLink \/ Edit
  BY <1>5, <1>18 DEF PathMissing, EndRefused, Killed, KilledWrite, KilledClone, KilledLink, Edit, Running
<1>19. CASE WriteLock
  BY <1>1, <1>19 DEF WriteLock, GoTo, Running, Job
<1>20. CASE \E r \in Repo : Push(r) \/ Tag(r)
  BY <1>1, <1>20 DEF Push, Tag, Running, disk
<1>21. CASE UNCHANGED vars
  BY <1>1, <1>21 DEF vars, Running
<1> QED
  BY <1>6, <1>7, <1>8, <1>9, <1>10, <1>11, <1>12, <1>13, <1>14, <1>15, <1>16, <1>17, <1>18, <1>19, <1>20, <1>21 DEF Next

LEMMA ToppedKept ==
  ASSUME IInv, Topped, [Next]_vars
  PROVE  Topped'
<1>1. CASE UNCHANGED tags
  BY <1>1 DEF Topped
<1>2. CASE \E r \in Repo : Tag(r)
  <2>1. PICK r \in Repo : Tag(r)
    BY <1>2
  <2>2. /\ tags'[r] = tags[r] \cup {tip[r]} /\ tip[r] \in Nat /\ tags[r] \subseteq Nat
        /\ \A q \in Repo : q # r => tags'[q] = tags[q]
    BY <2>1, BoundAssumption DEF Tag, IInv, TypeOK
  <2>3. PICK m \in tags[r] : \A k \in tags[r] : k <= m
    BY DEF Topped
  <2>4. \E n \in tags'[r] : \A k \in tags'[r] : k <= n
    <3>1. CASE tip[r] <= m
      BY <2>2, <2>3, <3>1
    <3>2. CASE m < tip[r]
      BY <2>2, <2>3, <3>2
    <3> QED
      BY <2>2, <2>3, <3>1, <3>2
  <2> QED
    BY <2>2, <2>4 DEF Topped
<1>3. UNCHANGED tags \/ \E r \in Repo : Tag(r)
  BY DEF Next, vars, world, InstallPath, PathMissing, LeavePath, Refuse, NotInstalled, Resolve,
         Unresolved, Pull, Clone, KilledClone, CloneFails, Present, Checkout, CheckoutFails, Link,
         LinkFails, KilledLink, EndRefused, WriteLock, KilledWrite, Killed, Edit, Run, Push
<1> QED
  BY <1>1, <1>2, <1>3

\* Only the end of the walk is the end of the command.
LEMMA Finishes ==
  ASSUME IInv, [Next]_vars, Done'
  PROVE  \/ Running /\ UNCHANGED <<manifest, target, clones>> /\ UNCHANGED world
            /\ lock' = job.mem /\ job' = [job EXCEPT !.step = "done"]
         \/ Done /\ UNCHANGED <<disk, job, runs>>
<1>1. job \in Job
  BY DEF IInv, TypeOK
<1>2. \A mem : NextDep(mem) => job'.step = "resolve"
  BY <1>1 DEF NextDep, Job
<1>3. \A trouble : Skip(trouble) => job'.step = "resolve"
  BY <1>1 DEF Skip, Job
<1>4. \A step : GoTo(step) => job'.step = step
  BY <1>1 DEF GoTo, Job
<1>5. Idle.step = "idle"
  BY DEF Idle
<1>6. CASE InstallPath \/ LeavePath \/ NotInstalled \/ Unresolved \/ Clone \/ CloneFails \/ Present
             \/ Checkout \/ CheckoutFails \/ Link \/ LinkFails \/ Pull
  BY <1>2, <1>3, <1>4, <1>6 DEF Done, InstallPath, LeavePath, NotInstalled, Unresolved, Clone,
     CloneFails, Present, Checkout, CheckoutFails, Link, LinkFails, Pull
<1>7. CASE Refuse \/ Resolve
  BY <1>1, <1>7 DEF Done, Refuse, Resolve, Handling, Job
<1>8. CASE PathMissing \/ EndRefused \/ Killed \/ KilledWrite \/ KilledClone \/ KilledLink \/ Edit
  BY <1>5, <1>8 DEF PathMissing, EndRefused, Killed, KilledWrite, KilledClone, KilledLink, Edit, Done
<1>9. CASE \E cmd \in {"install", "update"} : Run(cmd)
  BY <1>9 DEF Run, Idle, Done
<1>10. CASE WriteLock
  BY <1>10 DEF WriteLock, AtEnd, Running, Steps, Written, GoTo
<1>11. CASE UNCHANGED vars \/ \E r \in Repo : Push(r) \/ Tag(r)
  BY <1>11 DEF vars, Push, Tag, Done, disk
<1> QED
  BY <1>6, <1>7, <1>8, <1>9, <1>10, <1>11 DEF Next

LEMMA KeepingKept ==
  ASSUME NamedOnce, IInv, Topped, Keeping, [Next]_vars
  PROVE  Keeping'
<1> SUFFICES ASSUME Running', job'.cmd = "install", NEW i \in DOMAIN manifest'.deps,
                    manifest'.deps[i].kind = "bare", manifest'.deps[i].name \in DOMAIN lock',
                    lock'[manifest'.deps[i].name].repo = manifest'.deps[i].repo
             PROVE  /\ manifest'.deps[i].name \in DOMAIN job'.mem
                    /\ job'.mem[manifest'.deps[i].name] = lock'[manifest'.deps[i].name]
  BY DEF Keeping
<1>1. CASE \E cmd \in {"install", "update"} : Run(cmd)
  BY <1>1 DEF Run, Idle, disk
<1>2. CASE /\ Running /\ job.cmd = "install" /\ UNCHANGED <<manifest, lock>>
           /\ job'.mem = job.mem
  BY <1>2 DEF Keeping
<1>3. CASE /\ Running /\ job.cmd = "install" /\ UNCHANGED <<manifest, lock>>
           /\ job.step # "resolve" /\ job'.mem = Recorded(job.pin)
  <2> DEFINE d == manifest.deps[i]
  <2>1. d.name \in DOMAIN job.mem /\ job.mem[d.name] = lock[d.name]
    BY <1>3 DEF Keeping
  <2>2. /\ job.pin \in Commit /\ TheRepo = job.pin.repo /\ job.at <= Len(manifest.deps)
        /\ ReposOf(Dep) = {job.pin.repo}
        /\ Dep.kind = "bare" => job.mem[Dep.name] = [repo |-> Dep.repo, rev |-> job.pin]
    BY <1>3, RepoIs DEF IInv, Walk
  <2>3. /\ DOMAIN job'.mem = DOMAIN job.mem \cup {Dep.name}
        /\ job'.mem[Dep.name] = [repo |-> job.pin.repo, rev |-> job.pin]
        /\ \A p \in DOMAIN job.mem : p # Dep.name => job'.mem[p] = job.mem[p]
    BY <1>3, <2>2, RecordedIs
  <2>4. CASE d.name # Dep.name
    BY <1>3, <2>1, <2>3, <2>4
  <2>5. CASE d.name = Dep.name
    <3>1. i = job.at
      BY <1>3, <2>2, <2>5, LineIs DEF NamedOnce, IInv, TypeOK, Dep
    <3>2. d = Dep /\ Dep.kind = "bare"
      BY <1>3, <3>1 DEF Dep
    <3>3. job.pin.repo = Dep.repo
      BY <2>2, <3>2 DEF ReposOf
    <3> QED
      BY <1>3, <2>1, <2>2, <2>3, <2>5, <3>2, <3>3
  <2> QED
    BY <2>4, <2>5
<1> QED
  BY <1>1, <1>2, <1>3, Installs

LEMMA KeepsIs ==
  ASSUME IInv, Keeping, [Next]_vars, ~ Done, Done', job.cmd = "install",
         NEW d \in GitDeps, NEW p \in {d.name} \cap DOMAIN lock, d.kind = "bare", lock[p].repo = d.repo
  PROVE  p \in DOMAIN lock' /\ lock'[p] = lock[p]
<1>1. Running /\ lock' = job.mem
  BY Finishes
<1>2. PICK i \in DOMAIN manifest.deps : d = manifest.deps[i]
  BY DEF GitDeps
<1> QED
  BY <1>1, <1>2 DEF Keeping

\* Where no name is given twice, an install keeps the entries of the lock file for the
\* packages nothing else pins (install_deps, write_lockfile).
THEOREM KeepsLockedAlways == Steady /\ NamedOnce => (Spec => KeepsLocked)
<1> SUFFICES ASSUME Steady, NamedOnce
             PROVE  Spec => KeepsLocked
  OBVIOUS
<1> DEFINE Kept ==
      ~ Done /\ Done' /\ job.cmd = "install" =>
         \A d \in GitDeps : \A p \in {d.name} \cap DOMAIN lock :
           d.kind = "bare" /\ lock[p].repo = d.repo => p \in DOMAIN lock' /\ lock'[p] = lock[p]
<1>1. Spec => []IInv
  BY Agreement
<1>2. Init => Keeping /\ Topped
  BY BoundAssumption DEF Init, Idle, Keeping, Topped, Running
<1>3. IInv /\ Topped /\ Keeping /\ [Next]_vars => Keeping' /\ Topped'
  BY KeepingKept, ToppedKept
<1>4. IInv /\ Keeping /\ [Next]_vars => [Kept]_vars
  BY KeepsIs
<1> QED
  BY <1>1, <1>2, <1>3, <1>4, PTL DEF Spec, KeepsLocked

\* Where the index was fetched, git works in a clone of the line's repository.
LEMMA RightClone ==
  ASSUME Steady, Settling, IInv, Running, job.step = "checkout", job.index = NeedsIndex
  PROVE  clones[Workplace].origin = job.pin.repo
<1>1. /\ job.at <= Len(manifest.deps) /\ Dep.kind \in GitKinds /\ job.pin \in Commit
      /\ ReposOf(Dep) = {job.pin.repo} /\ Workplace \in DOMAIN clones
  BY DEF IInv, Walk
<1>2. CASE InSubdir(Dep)
  BY <1>1, <1>2 DEF Workplace, IInv, Disk, Cloned
<1>3. CASE ~ InSubdir(Dep)
  <2>1. /\ Dep.name \in Package /\ Here \in Setting /\ Dep \in GitLines(Here)
        /\ ~ Linked(Here, Dep) /\ Repos(Here, Dep) = {job.pin.repo}
    BY <1>1, <1>3, LineIs, SettingIs DEF GitLines, Dependency
  <2>2. Here.index = Needs(Here.mf)
    BY DEF Here, Needs, NeedsIndex
  <2>3. Workplace = target[Dep.name].place
    BY <1>3 DEF Workplace
  <2>4. target[Dep.name] # Absent
    BY <1>1, <2>3, PlacesDiffer DEF Absent, IInv, Disk, ClonesOK, Place
  <2>5. PICK s \in Setting : \E e \in Lines(s) : e.name = Dep.name /\ Made(Dep.name, s, e)
    BY <2>1, <2>4 DEF IInv, Disk, Targets
  <2>6. PICK e \in Lines(s) : e.name = Dep.name /\ Made(Dep.name, s, e)
    BY <2>5
  <2>7. e.kind # "path"
    BY <2>1, <2>6 DEF Steady
  <2>8. e.kind \in GitKinds
    BY <2>6, <2>7 DEF Made
  <2>9. e \in GitLines(s)
    BY <2>6, <2>8 DEF GitLines
  <2>10. ~ Linked(s, e) /\ \A q \in Repos(s, e) : q = job.pin.repo
    BY <2>1, <2>2, <2>6, <2>9 DEF Settling
  <2>11. target[Dep.name] = [place |-> Own(Dep.name), subdir |-> FALSE] /\ clones[Own(Dep.name)].origin \in Repos(s, e)
    BY <2>6, <2>7, <2>10, Zenon DEF Made
  <2>12. Workplace = Own(Dep.name)
    BY <2>3, <2>11
  <2> QED
    BY <2>10, <2>11, <2>12
<1> QED
  BY <1>2, <1>3

LEMMA ExcusedKept ==
  ASSUME Steady, NamedOnce, Settling, IInv, Topped, Excused, [Next]_vars
  PROVE  Excused'
<1>1. CASE Running'
  <2> SUFFICES ASSUME job'.cmd = "install", ~ job'.trouble
               PROVE  /\ job'.index = NeedsIndex'
                      /\ job'.clean \/ \E i \in DOMAIN manifest'.deps :
                           /\ i < job'.at /\ manifest'.deps[i].kind \in GitKinds
                           /\ Hopeless(manifest.deps[i])'
    BY DEF Excused
  <2>1. CASE \E cmd \in {"install", "update"} : Run(cmd)
    <3>1. PICK fetched \in BOOLEAN :
            /\ fetched => NeedsIndex
            /\ job'.index = fetched /\ job'.clean /\ job'.trouble = (NeedsIndex /\ ~ fetched)
            /\ manifest' = manifest
      BY <2>1 DEF Run, Idle, disk
    <3>2. NeedsIndex' = NeedsIndex /\ NeedsIndex \in BOOLEAN
      BY <3>1 DEF NeedsIndex
    <3>3. fetched = NeedsIndex
      BY <3>1, <3>2
    <3> QED
      BY <3>1, <3>2, <3>3
  <2>2. CASE /\ Running /\ job.cmd = "install" /\ UNCHANGED <<manifest, lock>>
             /\ job'.index = job.index /\ job'.at >= job.at
             /\ \/ job'.mem = job.mem
                \/ job.step # "resolve" /\ job'.mem = Recorded(job.pin)
             /\ \/ job'.clean = job.clean /\ job'.trouble = job.trouble
                \/ /\ job.step = "resolve" /\ job.at <= Len(manifest.deps) /\ job'.at = job.at + 1
                   /\ Dep.kind \in GitKinds /\ Hopeless(Dep)
                   /\ job'.trouble = job.trouble /\ job'.mem = job.mem
                \/ /\ job.step = "checkout" /\ clones[Workplace].origin # job.pin.repo
                   /\ job'.trouble = job.trouble /\ job'.mem = job.mem
    <3>1. job.trouble = job'.trouble /\ NeedsIndex' = NeedsIndex
      BY <2>2 DEF NeedsIndex
    <3>2. /\ job.index = NeedsIndex
          /\ job.clean \/ \E i \in DOMAIN manifest.deps :
               /\ i < job.at /\ manifest.deps[i].kind \in GitKinds /\ Hopeless(manifest.deps[i])
      BY <2>2, <3>1 DEF Excused
    <3>3. \A d : ReposOf(d)' = ReposOf(d)
      BY <2>2 DEF ReposOf, RegistryRepos
    <3>4. ASSUME NEW i \in DOMAIN manifest.deps, Hopeless(manifest.deps[i]), i < job.at \/ job'.mem = job.mem
          PROVE  Hopeless(manifest.deps[i])'
      <4>1. CASE job'.mem = job.mem
        BY <2>2, <3>3, <3>4, <4>1 DEF Hopeless, Locked
      <4>2. CASE job.step # "resolve" /\ job'.mem = Recorded(job.pin) /\ i < job.at
        <5>1. /\ job.pin \in Commit /\ TheRepo = job.pin.repo /\ job.at <= Len(manifest.deps)
          BY <2>2, <4>2, RepoIs DEF IInv, Walk
        <5>2. /\ DOMAIN job'.mem = DOMAIN job.mem \cup {Dep.name}
              /\ \A p \in DOMAIN job.mem : p # Dep.name => job'.mem[p] = job.mem[p]
          <6>1. Running /\ job'.mem = Recorded(job.pin)
            BY <2>2, <4>2
          <6>2. PICK rev \in Commit : rev = job.pin
            BY <5>1
          <6>3. /\ DOMAIN Recorded(rev) = DOMAIN job.mem \cup {Dep.name}
                /\ \A p \in DOMAIN job.mem : p # Dep.name => Recorded(rev)[p] = job.mem[p]
            BY <5>1, <6>1, <6>2, RecordedIs
          <6> QED
            BY <6>1, <6>2, <6>3
        <5>3. manifest.deps[i].name # Dep.name
          <6>1. job.at \in DOMAIN manifest.deps /\ i # job.at
            BY <2>2, <4>2, <5>1, LineIs DEF IInv, TypeOK, Job
          <6> QED
            BY <6>1 DEF NamedOnce, IInv, TypeOK, Dep
        <5>4. Locked(manifest.deps[i])' = Locked(manifest.deps[i])
          BY <2>2, <5>2, <5>3 DEF Locked
        <5> QED
          BY <2>2, <3>3, <3>4, <5>4 DEF Hopeless
      <4> QED
        BY <2>2, <3>4, <4>1, <4>2
    <3>5. CASE job'.clean = job.clean
      <4>1. CASE job.clean
        BY <2>2, <3>1, <3>2, <3>5, <4>1
      <4>2. CASE ~ job.clean
        <5>1. PICK i \in DOMAIN manifest.deps :
                i < job.at /\ manifest.deps[i].kind \in GitKinds /\ Hopeless(manifest.deps[i])
          BY <3>2, <4>2
        <5>2. Hopeless(manifest.deps[i])' /\ i < job'.at
          <6>1. job.at \in Nat /\ job'.at >= job.at /\ DOMAIN manifest.deps \subseteq Nat
            BY <2>2, ManifestAssumption DEF IInv, TypeOK, Job, IsManifest
          <6>2. job'.at \in Nat
            BY Inductive DEF IInv, TypeOK, Job
          <6> QED
            BY <3>4, <5>1, <6>1, <6>2
        <5> QED
          BY <2>2, <3>1, <3>2, <5>1, <5>2
      <4> QED
        BY <4>1, <4>2
    <3>6. CASE /\ job.at <= Len(manifest.deps) /\ job'.at = job.at + 1
               /\ Dep.kind \in GitKinds /\ Hopeless(Dep) /\ job'.mem = job.mem
      <4>1. PICK i \in DOMAIN manifest.deps : i = job.at
        BY <2>2, <3>6, LineIs
      <4>2. manifest.deps[i] = Dep /\ i < job'.at
        BY <3>6, <4>1 DEF Dep, IInv, TypeOK, Job
      <4>3. Hopeless(manifest.deps[i])'
        BY <3>4, <3>6, <4>2
      <4> QED
        BY <2>2, <3>1, <3>2, <3>6, <4>2, <4>3
    <3>7. CASE job.step = "checkout" /\ clones[Workplace].origin # job.pin.repo
      BY <2>2, <3>2, <3>7, RightClone
    <3> QED
      BY <2>2, <3>5, <3>6, <3>7
  <2> QED
    BY <1>1, <2>1, <2>2, Installs
<1>2. CASE Done'
  <2>1. CASE Running /\ UNCHANGED manifest /\ job' = [job EXCEPT !.step = "done"]
    <3>1. /\ job'.cmd = job.cmd /\ job'.trouble = job.trouble /\ job'.index = job.index
          /\ job'.clean = job.clean /\ job'.at = job.at /\ job'.mem = job.mem
      BY <2>1 DEF IInv, TypeOK, Job
    <3>2. \A d : Hopeless(d)' = Hopeless(d)
      BY <2>1, <3>1 DEF Hopeless, ReposOf, RegistryRepos, Locked
    <3>3. NeedsIndex' = NeedsIndex
      BY <2>1 DEF NeedsIndex
    <3> QED
      BY <2>1, <3>1, <3>2, <3>3 DEF Excused
  <2>2. CASE Done /\ UNCHANGED <<disk, job, runs>>
    <3>1. manifest' = manifest /\ job' = job
      BY <2>2 DEF disk
    <3>2. \A d : Hopeless(d)' = Hopeless(d)
      BY <3>1 DEF Hopeless, ReposOf, RegistryRepos, Locked
    <3>3. NeedsIndex' = NeedsIndex
      BY <3>1 DEF NeedsIndex
    <3> QED
      BY <2>2, <3>1, <3>2, <3>3 DEF Excused
  <2> QED
    BY <1>2, <2>1, <2>2, Finishes
<1> QED
  BY <1>1, <1>2 DEF Excused

LEMMA HealsIs ==
  ASSUME NamedOnce, IInv, Topped, Excused
  PROVE  Heals
<1> SUFFICES ASSUME Done, job.cmd = "install", ~ job.trouble, \A d \in GitDeps : Candidates(d) # {}
             PROVE  job.clean
  BY DEF Heals
<1>1. job.clean \/ \E i \in DOMAIN manifest.deps :
                      /\ i < job.at /\ manifest.deps[i].kind \in GitKinds
                      /\ Hopeless(manifest.deps[i])
  BY DEF Excused
<1>2. manifest \in Manifests /\ manifest.deps \in Seq(Dependency)
  BY ManifestAssumption DEF IInv, TypeOK, IsManifest
<1>3. ASSUME NEW i \in DOMAIN manifest.deps, manifest.deps[i].kind \in GitKinds
      PROVE  ~ Hopeless(manifest.deps[i])
  <2>1. manifest.deps[i] \in GitDeps
    <3>1. \A k \in DOMAIN manifest.deps : manifest.deps[k].name = manifest.deps[i].name => k <= i
      BY <1>2 DEF NamedOnce
    <3> QED
      BY <1>3, <3>1 DEF GitDeps
  <2>2. manifest.deps[i].repo \in Repo
    <3>1. manifest.deps[i] \in Dependency
      BY <1>2
    <3> QED
      BY <3>1 DEF Dependency
  <2> QED
    BY <1>3, <2>1, <2>2, CandidatesAre DEF IInv
<1> QED
  BY <1>1, <1>3

\* Where packages keep their kind and repository, an install that nothing outside the
\* program disturbs puts every package in its place, whatever was killed or edited
\* before (install_deps).
THEOREM HealsAlways == Steady /\ NamedOnce /\ Settling => (Spec => []Heals)
<1> SUFFICES ASSUME Steady, NamedOnce, Settling
             PROVE  Spec => []Heals
  OBVIOUS
<1>1. Spec => []IInv
  BY Agreement
<1>2. Init => Excused /\ Topped
  BY BoundAssumption DEF Init, Idle, Excused, Topped, Running, Done
<1>3. IInv /\ Topped /\ Excused /\ [Next]_vars => Excused' /\ Topped'
  BY ExcusedKept, ToppedKept
<1>4. IInv /\ Topped /\ Excused => Heals
  BY HealsIs
<1> QED
  BY <1>1, <1>2, <1>3, <1>4, PTL DEF Spec

=============================================================================
