----------------------------- MODULE TasksProofs -----------------------------
(***************************************************************************)
(* That spawned threads never touch memory that is gone, and that awaited  *)
(* ones leave none behind, for any number of spawn expressions of the      *)
(* forms a correct program uses.                                           *)
(*                                                                         *)
(* The invariant gives the exact count of every block: what it is at each  *)
(* place of the spawning thread and of the spawned one.                    *)
(***************************************************************************)
EXTENDS Tasks, TLAPS

-----------------------------------------------------------------------------
(* The invariant *)

Todos == {<<>>, <<"update">>, <<"get", "set">>, <<"set">>}

Typed ==
  /\ arena \in {"none", "open", "ended"}
  /\ main \in [at : {"idle", "copy", "create", "cleanup", "join", "returned"},
               task : Task \cup {NULL}]
  /\ exited \in BOOLEAN
  /\ count \in [Object -> Int]
  /\ \A o \in Object : count[o] >= ARENA
  /\ site \in [Task -> Sites \cup {NULL}]
  /\ pc \in [Task -> Place]
  /\ todo \in [Task -> Todos]
  /\ seen \in [Task -> Int]
  /\ answer \in [Task -> Answer]
  /\ result \in [Task -> Answer]
  /\ got \in [Task -> Answer]
  /\ dropped \in SUBSET Task
  /\ cell \in Int
  /\ holder \in Task \cup {NULL}

\* What a thread has still to do with the cell fits its place.
Working ==
  \A t \in Task :
    /\ pc[t] \in {"lock", "read", "put", "unlock"} => todo[t] # <<>>
    /\ pc[t] = "read" => todo[t] # <<"set">>

\* The task is packed, and its thread not yet created.
InMaking(t) == main.task = t /\ main.at \in {"copy", "create"}

\* The struct of arguments and a temporary string are still the spawner's.
InHand(t) == main.task = t /\ main.at \in {"copy", "create", "cleanup"}

Answered(t) == pc[t] \in {"release", "store", "free", "done"}
Stored(t) == pc[t] \in {"free", "done"}

\* Where the spawner is fits where the task is.
Where ==
  /\ main.at \in {"copy", "create", "cleanup", "join"} => main.task \in Task
  /\ main.at \in {"idle", "returned"} => main.task = NULL
  /\ main.at \in {"cleanup", "join"} => pc[main.task] # "none"
  /\ main.at = "join" => got[main.task] = NULL
  /\ main.at = "returned" <=> arena = "ended"
  /\ \A t \in Task :
       /\ InMaking(t) => pc[t] = "none"
       /\ site[t] # NULL <=> (pc[t] # "none" \/ InMaking(t))
       /\ got[t] # NULL => pc[t] = "done"
       /\ t \in dropped => HasVariable(t) /\ (site[t].kind = "array" => got[t] # NULL)
       /\ arena = "ended" /\ site[t] # NULL /\ site[t].kind \in {"array", "channel"}
            => got[t] # NULL

\* What a call answers, and where the answer is.
Outcomes ==
  \A t \in Task :
    /\ Answered(t) =>
         /\ site[t].answers = "param" => answer[t] = Param(t)
         /\ site[t].answers = "fresh" => answer[t] = <<"res", t>>
         /\ site[t].answers = "number" => answer[t] \in {"number"} \X Int
    /\ Stored(t) => result[t] = answer[t]
    /\ got[t] # NULL => got[t] = result[t]

-----------------------------------------------------------------------------
(* The counts *)

One(b) == IF b THEN 1 ELSE 0

\* What the spawner allocates lies in the arena of its request, if there is one.
Spawners(n) == IF arena = "none" THEN n ELSE IF arena = "open" THEN ARENA ELSE GONE

Copied(t) == pc[t] # "none" \/ (main.task = t /\ main.at = "create")

\* The spawner's own reference to the argument.
Keeps(t) == IF site[t].kind = "str" /\ site[t].temp THEN InHand(t) ELSE t \notin dropped

\* The copied string's reference that the callee or the thunk releases.
Lends(t) == IF site[t].mut THEN ~ Answered(t) ELSE pc[t] \notin {"store", "free", "done"}

Returns(t) == Answered(t) /\ site[t].answers = "param"

CtxCount(t) == One(Copied(t) /\ got[t] = NULL)
CopyCount(t) == One(Copied(t) /\ pc[t] # "done")
ArgsCount(t) == IF site[t] = NULL THEN GONE ELSE Spawners(One(InHand(t)))
SrcCount(t) ==
  IF site[t] = NULL \/ site[t].kind = "number" THEN GONE
  ELSE Spawners(One(Keeps(t)) + One(site[t].kind = "array" /\ Returns(t)))
ArgCount(t) ==
  IF Copied(t) /\ site[t].kind = "str" THEN One(Lends(t)) + One(Returns(t)) ELSE GONE
ResCount(t) == One(Answered(t) /\ site[t].answers = "fresh")

CountsOf(t) ==
  /\ count[<<"ctx", t>>] = CtxCount(t)
  /\ count[<<"handle", t>>] = CtxCount(t)
  /\ count[<<"copy", t>>] = CopyCount(t)
  /\ count[<<"args", t>>] = ArgsCount(t)
  /\ count[<<"src", t>>] = SrcCount(t)
  /\ count[<<"arg", t>>] = ArgCount(t)
  /\ count[<<"res", t>>] = ResCount(t)

\* A process that has exited keeps its memory as it was.
IInv ==
  /\ Typed
  /\ ~ exited => Working /\ Where /\ Outcomes /\ \A t \in Task : CountsOf(t)
  /\ exited => NothingLeft

-----------------------------------------------------------------------------
(* Facts about the program's spawn expressions *)

LEMMA SiteShapes ==
  ASSUME Forms = {}, NEW s \in Sites
  PROVE  /\ s.kind \in {"str", "array", "channel", "number"}
         /\ s.mut \in BOOLEAN
         /\ s.temp \in BOOLEAN
         /\ s.answers \in {"param", "fresh", "number"}
         /\ s.kind # "str" => ~ s.mut /\ ~ s.temp /\ s.answers # "fresh"
         /\ s.kind \in {"channel", "number"} => s.answers = "number"
         /\ s.work \in {<<>>, <<"update">>, <<"get", "set">>}
         /\ s # NULL
BY NullAssumption DEF Sites

LEMMA ObjectShapes ==
  /\ \A r \in Role, t \in Task : <<r, t>> \in Object
  /\ \A o \in Object : \E r \in Role, t \in Task : o = <<r, t>>
BY DEF Object

\* A task that is packed is one of the program's spawn expressions.
LEMMA Packed ==
  ASSUME Forms = {}, Typed, NEW t \in Task, site[t] # NULL
  PROVE  /\ site[t].kind \in {"str", "array", "channel", "number"}
         /\ site[t].mut \in BOOLEAN
         /\ site[t].temp \in BOOLEAN
         /\ site[t].answers \in {"param", "fresh", "number"}
         /\ site[t].kind # "str" => ~ site[t].mut /\ ~ site[t].temp /\ site[t].answers # "fresh"
         /\ site[t].kind \in {"channel", "number"} => site[t].answers = "number"
         /\ site[t].work \in {<<>>, <<"update">>, <<"get", "set">>}
<1>1. site[t] \in Sites
  BY DEF Typed
<1> QED
  BY <1>1, SiteShapes

\* The exact counts exclude that anything that is used is gone.
LEMMA CountsSuffice ==
  ASSUME Forms = {}, IInv
  PROVE  NoDangling
<1> SUFFICES ASSUME ~ exited
             PROVE  \A o \in MainUses \cup UNION {ThreadUses(t) : t \in Task} : count[o] # GONE
  BY DEF NoDangling
<1> USE DEF GONE, ARENA
<1>1. Typed /\ Where /\ Outcomes /\ \A t \in Task : CountsOf(t)
  BY DEF IInv
<1>2. ASSUME NEW t \in Task, got[t] = NULL, site[t] # NULL, IsPointer(site[t]), Copied(t),
             site[t].kind = "str" => Lends(t)
      PROVE  count[Param(t)] # GONE
  <2>1. CASE site[t].kind = "str"
    <3>1. count[<<"arg", t>>] = One(Lends(t)) + One(Returns(t))
      BY <1>1, <1>2, <2>1 DEF CountsOf, ArgCount
    <3> QED
      BY <1>2, <2>1, <3>1 DEF Param, One
  <2>2. CASE site[t].kind # "str"
    <3>1. site[t].kind \in {"array", "channel"}
      BY <1>1, <1>2, <2>2, Packed DEF IsPointer
    <3>2. arena # "ended"
      BY <1>1, <1>2, <3>1 DEF Where
    <3>3. t \notin dropped
      BY <1>1, <1>2, <3>1 DEF Where, HasVariable, IsRc
    <3>4. count[<<"src", t>>] = Spawners(One(Keeps(t)) + One(site[t].kind = "array" /\ Returns(t)))
      BY <1>1, <1>2, <3>1 DEF CountsOf, SrcCount
    <3>5. Keeps(t)
      BY <2>2, <3>3 DEF Keeps
    <3>6. One(Keeps(t)) = 1 /\ One(site[t].kind = "array" /\ Returns(t)) \in {0, 1}
      BY <3>5 DEF One
    <3> QED
      BY <1>1, <2>2, <3>2, <3>4, <3>6 DEF Param, Spawners, Typed
  <2> QED
    BY <2>1, <2>2
<1>3. ASSUME NEW t \in Task, Answered(t), Owned(answer[t]),
             site[t].kind = "array" => arena # "ended"
      PROVE  count[answer[t]] # GONE
  <2>1. site[t] # NULL /\ Copied(t)
    BY <1>1, <1>3 DEF Where, Answered, Copied
  <2>2. \A v \in {"number"} \X Int : v \notin Object
    BY DEF Object, Role
  <2>3. \/ site[t].answers = "param" /\ answer[t] = Param(t)
        \/ site[t].answers = "fresh" /\ answer[t] = <<"res", t>>
    BY <1>1, <1>3, <2>1, <2>2, Packed DEF Outcomes, Owned
  <2>4. CASE site[t].answers = "fresh"
    <3>1. count[<<"res", t>>] = ResCount(t) /\ ResCount(t) = 1
      BY <1>1, <1>3, <2>4 DEF CountsOf, ResCount, One
    <3> QED
      BY <2>3, <2>4, <3>1
  <2>5. CASE site[t].answers = "param" /\ site[t].kind = "str"
    <3>1. count[<<"arg", t>>] = One(Lends(t)) + One(Returns(t))
      BY <1>1, <2>1, <2>5 DEF CountsOf, ArgCount
    <3>2. One(Returns(t)) = 1 /\ One(Lends(t)) \in {0, 1}
      BY <1>3, <2>5 DEF One, Returns
    <3> QED
      BY <2>3, <2>5, <3>1, <3>2 DEF Param
  <2>6. CASE site[t].answers = "param" /\ site[t].kind # "str"
    <3>1. site[t].kind = "array"
      BY <1>1, <2>1, <2>6, Packed
    <3>2. count[<<"src", t>>] = Spawners(One(Keeps(t)) + One(site[t].kind = "array" /\ Returns(t)))
      BY <1>1, <2>1, <3>1 DEF CountsOf, SrcCount
    <3>3. One(site[t].kind = "array" /\ Returns(t)) = 1 /\ One(Keeps(t)) \in {0, 1}
      BY <1>3, <2>6, <3>1 DEF One, Returns
    <3> QED
      BY <1>1, <1>3, <2>3, <2>6, <3>1, <3>2, <3>3 DEF Param, Spawners, Typed
  <2> QED
    BY <2>3, <2>4, <2>5, <2>6
<1>4. ASSUME NEW o \in MainUses PROVE count[o] # GONE
  <2>1. CASE main.at = "cleanup" /\ o = <<"args", main.task>>
    <3>1. main.task \in Task /\ arena # "ended" /\ site[main.task] # NULL
      BY <1>1, <2>1 DEF Where
    <3>2. count[o] = Spawners(One(InHand(main.task)))
      BY <1>1, <2>1, <3>1 DEF CountsOf, ArgsCount
    <3> QED
      BY <1>1, <2>1, <3>1, <3>2 DEF Spawners, One, InHand, Typed
  <2>2. CASE main.at = "join" /\ o \in {<<"handle", main.task>>, <<"ctx", main.task>>}
    <3>1. main.task \in Task /\ pc[main.task] # "none" /\ got[main.task] = NULL
      BY <1>1, <2>2 DEF Where
    <3>2. CtxCount(main.task) = 1
      BY <3>1 DEF CtxCount, Copied, One
    <3>3. count[<<"ctx", main.task>>] = 1 /\ count[<<"handle", main.task>>] = 1
      BY <1>1, <3>1, <3>2 DEF CountsOf
    <3> QED
      BY <2>2, <3>3
  <2>3. ASSUME NEW t \in Task, HasVariable(t), t \notin dropped, o = <<"src", t>>,
               main.at # "returned"
        PROVE  count[o] # GONE
    <3>1. site[t] # NULL /\ site[t].kind # "number" /\ Keeps(t) /\ arena # "ended"
      BY <1>1, <2>3 DEF HasVariable, Spawned, IsRc, Keeps, Where
    <3>2. count[o] = Spawners(One(Keeps(t)) + One(site[t].kind = "array" /\ Returns(t)))
      BY <1>1, <2>3, <3>1 DEF CountsOf, SrcCount
    <3>3. One(Keeps(t)) = 1 /\ One(site[t].kind = "array" /\ Returns(t)) \in {0, 1}
      BY <3>1 DEF One
    <3>4. arena \in {"none", "open"}
      BY <1>1, <3>1 DEF Typed
    <3> QED
      BY <3>2, <3>3, <3>4 DEF Spawners
  <2>4. ASSUME NEW t \in Task, Owned(got[t]), o = got[t], main.at # "returned"
        PROVE  count[o] # GONE
    <3>1. got[t] # NULL
      BY <2>4, NullAssumption DEF Owned
    <3>2. pc[t] = "done" /\ arena # "ended"
      BY <1>1, <2>4, <3>1 DEF Where
    <3>3. got[t] = answer[t] /\ Answered(t)
      BY <1>1, <3>1, <3>2 DEF Outcomes, Stored, Answered
    <3> QED
      BY <1>3, <2>4, <3>2, <3>3
  <2> QED
    BY <1>4, <2>1, <2>2, <2>3, <2>4 DEF MainUses
<1>5. ASSUME NEW t \in Task, NEW o \in ThreadUses(t) PROVE count[o] # GONE
  <2>1. pc[t] \in {"start", "body", "release", "store", "free"}
    BY <1>1, <1>5 DEF ThreadUses, Typed, Place
  <2>2. got[t] = NULL /\ site[t] # NULL /\ Copied(t)
    BY <1>1, <2>1 DEF Where, Copied
  <2>3. count[<<"ctx", t>>] = 1 /\ count[<<"copy", t>>] = 1
    BY <1>1, <2>1, <2>2 DEF CountsOf, CtxCount, CopyCount, One
  <2>4. CASE pc[t] \in {"start", "free"}
    BY <1>5, <2>3, <2>4 DEF ThreadUses
  <2>5. CASE pc[t] = "body"
    <3>1. Lends(t)
      BY <2>5 DEF Lends, Answered
    <3> QED
      BY <1>2, <1>5, <2>2, <2>5, <3>1 DEF ThreadUses
  <2>6. CASE pc[t] \in {"release", "store"}
    <3>1. Answered(t)
      BY <2>6 DEF Answered
    <3>2. CASE o \in Object /\ o = answer[t]
      <4>1. site[t].kind = "array" => arena # "ended"
        BY <1>1, <2>2 DEF Where
      <4> QED
        BY <1>3, <3>1, <3>2, <4>1 DEF Owned
    <3>3. CASE pc[t] = "release" /\ site[t].kind = "str" /\ ~ site[t].mut /\ o = Param(t)
      <4>1. Lends(t)
        BY <3>3 DEF Lends
      <4> QED
        BY <1>2, <2>2, <3>3, <4>1 DEF IsPointer
    <3> QED
      BY <1>5, <2>3, <2>6, <3>2, <3>3 DEF ThreadUses, Owned
  <2> QED
    BY <2>1, <2>4, <2>5, <2>6
<1> QED
  BY <1>4, <1>5

\* And that anything is left of a task but its answer.
LEMMA CountsLeaveNothing ==
  ASSUME Forms = {}, IInv
  PROVE  NothingLeft
<1> USE DEF GONE, ARENA
<1> SUFFICES ASSUME ~ exited,
                    NEW t \in Task, got[t] # NULL, main.task # t,
                    HasVariable(t) => t \in dropped,
                    NEW r \in Role
             PROVE  count[<<r, t>>] <=
                      IF got[t] = <<r, t>> \/ (r = "src" /\ site[t].kind = "channel") THEN 1 ELSE 0
  BY DEF IInv, NothingLeft
<1>1. Typed /\ Where /\ Outcomes /\ CountsOf(t)
  BY DEF IInv
<1>2. pc[t] = "done" /\ site[t] # NULL /\ Copied(t) /\ Answered(t) /\ ~ InHand(t)
  BY <1>1 DEF Where, Copied, Answered, InHand
<1>3. got[t] = answer[t]
  BY <1>1, <1>2 DEF Outcomes, Stored
<1>4. Spawners(0) \in {0, -1} /\ Spawners(1) \in {0, 1, -1}
  BY DEF Spawners
<1>5. CASE r \in {"ctx", "handle", "copy"}
  <2>1. CtxCount(t) = 0 /\ CopyCount(t) = 0
    BY <1>2 DEF CtxCount, CopyCount, One
  <2> QED
    BY <1>1, <1>5, <2>1 DEF CountsOf
<1>6. CASE r = "args"
  <2>1. count[<<"args", t>>] = Spawners(0)
    BY <1>1, <1>2 DEF CountsOf, ArgsCount, One
  <2> QED
    BY <1>4, <1>6, <2>1
<1>7. CASE r = "src"
  <2>1. count[<<"src", t>>] = SrcCount(t)
    BY <1>1 DEF CountsOf
  <2>2. CASE site[t].kind = "number"
    BY <1>7, <2>1, <2>2 DEF SrcCount
  <2>3. CASE site[t].kind = "str"
    <3>1. ~ Keeps(t)
      BY <1>2, <2>3 DEF Keeps, HasVariable, Spawned, IsRc
    <3>2. SrcCount(t) = Spawners(0)
      BY <1>2, <2>3, <3>1 DEF SrcCount, One
    <3> QED
      BY <1>4, <1>7, <2>1, <3>2
  <2>4. CASE site[t].kind = "channel"
    <3>1. SrcCount(t) = Spawners(0) \/ SrcCount(t) = Spawners(1)
      BY <1>2, <2>4 DEF SrcCount, One
    <3> QED
      BY <1>4, <1>7, <2>1, <2>4, <3>1
  <2>5. CASE site[t].kind = "array"
    <3>1. ~ Keeps(t)
      BY <1>1, <1>2, <2>5, Packed DEF Keeps, HasVariable, Spawned, IsRc
    <3>2. CASE Returns(t)
      <4>1. got[t] = <<"src", t>>
        BY <1>1, <1>2, <1>3, <2>5, <3>2 DEF Outcomes, Returns, Param
      <4>2. SrcCount(t) = Spawners(1)
        BY <1>2, <2>5, <3>1, <3>2 DEF SrcCount, One
      <4> QED
        BY <1>4, <1>7, <2>1, <4>1, <4>2
    <3>3. CASE ~ Returns(t)
      <4>1. SrcCount(t) = Spawners(0)
        BY <1>2, <2>5, <3>1, <3>3 DEF SrcCount, One
      <4> QED
        BY <1>4, <1>7, <2>1, <4>1
    <3> QED
      BY <3>2, <3>3
  <2> QED
    BY <1>1, <1>2, <2>2, <2>3, <2>4, <2>5, Packed
<1>8. CASE r = "arg"
  <2>1. count[<<"arg", t>>] = ArgCount(t)
    BY <1>1 DEF CountsOf
  <2>2. ~ Lends(t)
    BY <1>2 DEF Lends, Answered
  <2>3. CASE site[t].kind = "str" /\ Returns(t)
    <3>1. got[t] = <<"arg", t>>
      BY <1>1, <1>2, <1>3, <2>3 DEF Outcomes, Returns, Param
    <3>2. ArgCount(t) = 1
      BY <1>2, <2>2, <2>3 DEF ArgCount, One
    <3> QED
      BY <1>8, <2>1, <3>1, <3>2
  <2>4. CASE ~ (site[t].kind = "str" /\ Returns(t))
    <3>1. ArgCount(t) = 0
      BY <2>2, <2>4 DEF ArgCount, One
    <3> QED
      BY <1>8, <2>1, <3>1
  <2> QED
    BY <2>3, <2>4
<1>9. CASE r = "res"
  <2>1. count[<<"res", t>>] = ResCount(t)
    BY <1>1 DEF CountsOf
  <2>2. CASE site[t].answers = "fresh"
    <3>1. got[t] = <<"res", t>> /\ ResCount(t) = 1
      BY <1>1, <1>2, <1>3, <2>2 DEF Outcomes, ResCount, One
    <3> QED
      BY <1>9, <2>1, <3>1
  <2>3. CASE site[t].answers # "fresh"
    <3>1. ResCount(t) = 0
      BY <2>3 DEF ResCount, One
    <3> QED
      BY <1>9, <2>1, <3>1
  <2> QED
    BY <2>2, <2>3
<1> QED
  BY <1>5, <1>6, <1>7, <1>8, <1>9 DEF Role

-----------------------------------------------------------------------------
(* Types *)

\* What a thread does next with the cell.
LEMMA TodoShapes ==
  ASSUME NEW w \in Todos, w # <<>>
  PROVE  /\ Head(w) \in {"update", "get", "set"}
         /\ Head(w) = "set" <=> w = <<"set">>
         /\ Tail(w) \in Todos
         /\ Len(w) \in {1, 2}
         /\ Len(w) = 1 <=> Tail(w) = <<>>
<1>1. w \in {<<"update">>, <<"get", "set">>, <<"set">>}
  BY DEF Todos
<1>2. CASE w = <<"update">>
  BY <1>2 DEF Todos
<1>3. CASE w = <<"get", "set">>
  <2>1. Tail(w) = <<"set">>
    BY <1>3
  <2> QED
    BY <1>3, <2>1 DEF Todos
<1>4. CASE w = <<"set">>
  BY <1>4 DEF Todos
<1> QED
  BY <1>1, <1>2, <1>3, <1>4

\* Where the argument, the answer and the blocks of a task are.
LEMMA Objects ==
  ASSUME NEW t \in Task
  PROVE  /\ \A r \in Role : <<r, t>> \in Object
         /\ Param(t) \in Object
BY DEF Object, Role, Param

\* Counting leaves counts counts.
LEMMA Counting ==
  ASSUME NEW c \in [Object -> Int], \A o \in Object : c[o] >= ARENA, NEW p \in Object
  PROVE  /\ Retain(c, p) \in [Object -> Int] /\ \A o \in Object : Retain(c, p)[o] >= ARENA
         /\ Release(c, p) \in [Object -> Int] /\ \A o \in Object : Release(c, p)[o] >= ARENA
         /\ Free(c, p) \in [Object -> Int] /\ \A o \in Object : Free(c, p)[o] >= ARENA
BY DEF Retain, Release, Free, ARENA, GONE

LEMMA TypeStep ==
  ASSUME Forms = {}, Typed, ~ exited => Working /\ Where, Next
  PROVE  Typed'
<1> USE DEF Typed, ARENA, GONE
<1>1. CASE EndRequest
  <2>1. /\ arena' = "ended"
        /\ main' = [at |-> "returned", task |-> NULL]
        /\ count' = [o \in Object |-> IF count[o] = ARENA THEN GONE ELSE count[o]]
        /\ UNCHANGED <<exited, site, got, dropped, pc, todo, seen, answer, result, cell, holder>>
    BY <1>1 DEF EndRequest, Goto, taskVars, cellVars
  <2>2. count' \in [Object -> Int] /\ \A o \in Object : count'[o] >= ARENA
    BY <2>1
  <2> QED
    BY <2>1, <2>2
<1>2. ASSUME NEW t \in Task, Spawner(t)
      PROVE  Typed'
  <2> USE DEF Spawner, Goto, MainAt, Idle, taskVars, cellVars
  <2>0. /\ \A r \in Role : <<r, t>> \in Object
        /\ {"src", "args", "ctx", "copy", "arg", "handle", "res"} = Role
    BY Objects DEF Role
  <2>1. CASE Pack(t)
    BY <2>0, <2>1 DEF Pack, Fresh
  <2>2. CASE CopyArguments(t)
    <3>1. \E n \in {0, 1} :
            count' = [count EXCEPT ![<<"ctx", t>>] = 1, ![<<"copy", t>>] = 1, ![<<"handle", t>>] = 1,
                                   ![<<"arg", t>>] = n]
      BY <2>2 DEF CopyArguments
    <3>2. count' \in [Object -> Int] /\ \A o \in Object : count'[o] >= ARENA
      BY <2>0, <3>1
    <3> QED
      BY <2>2, <3>2 DEF CopyArguments
  <2>3. CASE CreateThread(t)
    <3>1. ~ exited /\ InMaking(t)
      BY <1>2, <2>3 DEF CreateThread, InMaking
    <3>2. site[t] # NULL
      BY <3>1 DEF Where
    <3>3. site[t].work \in Todos
      BY <3>2, Packed DEF Todos
    <3> QED
      BY <2>3, <3>3 DEF CreateThread, Place
  <2>4. CASE CreateFails(t)
    BY <2>0, <2>4, Counting DEF CreateFails
  <2>5. CASE ReleaseTemporaries(t)
    BY <2>0, <2>5, Counting DEF ReleaseTemporaries
  <2>6. CASE DropVariable(t)
    BY <2>0, <2>6, Counting DEF DropVariable
  <2>7. CASE BeginAwait(t)
    BY <2>7 DEF BeginAwait
  <2>8. CASE Join(t)
    BY <2>0, <2>8, Counting DEF Join
  <2> QED
    BY <1>2, <2>1, <2>2, <2>3, <2>4, <2>5, <2>6, <2>7, <2>8
<1>3. ASSUME NEW t \in Task, Thread(t)
      PROVE  Typed'
  <2> USE DEF Thread, At, Move, mainVars, cellVars, Place
  <2>0. /\ \A r \in Role : <<r, t>> \in Object
        /\ {"src", "args", "ctx", "copy", "arg", "handle", "res"} = Role
        /\ Param(t) \in Object
    BY Objects DEF Role
  <2>1. CASE Start(t)
    BY <2>1 DEF Start
  <2>2. CASE Lock(t)
    BY <2>2 DEF Lock
  <2>3. CASE ReadCell(t)
    <3>1. todo[t] \in Todos /\ todo[t] # <<>> /\ todo[t] # <<"set">>
      BY <2>3 DEF ReadCell, Working
    <3>2. Head(todo[t]) \in {"get", "update"}
      BY <3>1, TodoShapes
    <3>3. CASE Head(todo[t]) = "get"
      BY <2>3, <3>3 DEF ReadCell
    <3>4. CASE Head(todo[t]) = "update"
      <4>1. /\ seen' = [seen EXCEPT ![t] = cell + 1]
            /\ pc' = [pc EXCEPT ![t] = "put"]
            /\ UNCHANGED <<mainVars, todo, answer, result, cellVars, count>>
        BY <2>3, <3>4 DEF ReadCell
      <4>2. cell + 1 \in Int /\ "put" \in Place
        OBVIOUS
      <4> QED
        BY <4>1, <4>2
    <3> QED
      BY <3>2, <3>3, <3>4
  <2>4. CASE WriteCell(t)
    BY <2>4 DEF WriteCell
  <2>5. CASE Unlock(t)
    BY <2>5, TodoShapes DEF Unlock, Working
  <2>6. CASE Body(t)
    <3> DEFINE kept == IF site[t].answers = "param" THEN Retain(count, Param(t)) ELSE count
               made == IF site[t].answers = "fresh" THEN [kept EXCEPT ![<<"res", t>>] = 1] ELSE kept
    <3>1. kept \in [Object -> Int] /\ \A o \in Object : kept[o] >= ARENA
      BY <2>0, Counting
    <3>2. made \in [Object -> Int] /\ \A o \in Object : made[o] >= ARENA
      <4> HIDE DEF kept
      <4> QED
        BY <2>0, <3>1
    <3>3. count' = IF site[t].mut THEN Release(made, Param(t)) ELSE made
      BY <2>6 DEF Body
    <3>4. count' \in [Object -> Int] /\ \A o \in Object : count'[o] >= ARENA
      <4> HIDE DEF made
      <4> QED
        BY <2>0, <3>2, <3>3, Counting
    <3>5. answer' \in [Task -> Answer]
      <4>1. \E v \in Answer : answer' = [answer EXCEPT ![t] = v]
        BY <2>0, <2>6 DEF Body, Answer
      <4> QED
        BY <4>1
    <3> QED
      BY <2>6, <3>4, <3>5 DEF Body
  <2>7. CASE ThunkRelease(t)
    BY <2>0, <2>7, Counting DEF ThunkRelease
  <2>8. CASE StoreResult(t)
    BY <2>8 DEF StoreResult
  <2>9. CASE FreeCopy(t)
    BY <2>0, <2>9, Counting DEF FreeCopy
  <2> QED
    BY <1>3, <2>1, <2>2, <2>3, <2>4, <2>5, <2>6, <2>7, <2>8, <2>9
<1> QED
  BY <1>1, <1>2, <1>3 DEF Next

-----------------------------------------------------------------------------
(* The steps of a spawned thread *)

\* What counting does to the count it is about, and to no other.
LEMMA CountingAt ==
  ASSUME NEW c \in [Object -> Int], NEW p \in Object
  PROVE  /\ Retain(c, p)[p] = IF c[p] > 0 THEN c[p] + 1 ELSE c[p]
         /\ Release(c, p)[p] = IF c[p] > 0 THEN c[p] - 1 ELSE c[p]
         /\ Free(c, p)[p] = GONE
         /\ \A o \in Object : o # p => /\ Retain(c, p)[o] = c[o]
                                       /\ Release(c, p)[o] = c[o]
                                       /\ Free(c, p)[o] = c[o]
BY DEF Retain, Release, Free

\* A task nothing happens to keeps its counts.
LEMMA CountsKept ==
  ASSUME NEW u \in Task, CountsOf(u),
         site'[u] = site[u], pc'[u] = pc[u], got'[u] = got[u], arena' = arena,
         u \in dropped' <=> u \in dropped,
         InHand(u)' <=> InHand(u), Copied(u)' <=> Copied(u),
         \A r \in Role : count'[<<r, u>>] = count[<<r, u>>]
  PROVE  CountsOf(u)'
<1>1. Answered(u)' <=> Answered(u)
  BY DEF Answered
<1>2. /\ Keeps(u)' <=> Keeps(u)
      /\ Lends(u)' <=> Lends(u)
      /\ Returns(u)' <=> Returns(u)
  BY <1>1 DEF Keeps, Lends, Returns
<1>3. /\ CtxCount(u)' = CtxCount(u)
      /\ CopyCount(u)' = CopyCount(u)
      /\ ResCount(u)' = ResCount(u)
      /\ ArgCount(u)' = ArgCount(u)
  BY <1>1, <1>2 DEF CtxCount, CopyCount, ResCount, ArgCount, One
<1>4. ArgsCount(u)' = ArgsCount(u)
  BY DEF ArgsCount, Spawners, One
<1>5. SrcCount(u)' = SrcCount(u)
  BY <1>2 DEF SrcCount, Spawners, One
<1> QED
  BY <1>3, <1>4, <1>5 DEF CountsOf, Role

\* A thread moves on: where the spawner is stays fitting.
LEMMA WhereKept ==
  ASSUME Typed, Where, NEW t \in Task, NEW place \in Place \ {"none"},
         pc[t] \notin {"none", "done"}, Move(t, place), UNCHANGED mainVars
  PROVE  /\ Where'
         /\ got[t] = NULL /\ site[t] # NULL /\ Copied(t)
         /\ pc'[t] = place
         /\ Copied(t)' /\ \A u \in Task : InHand(u)' <=> InHand(u)
         /\ \A u \in Task \ {t} : pc'[u] = pc[u] /\ (Copied(u)' <=> Copied(u))
<1>1. pc'[t] = place /\ \A u \in Task \ {t} : pc'[u] = pc[u]
  BY DEF Move, Typed
<1>2. arena' = arena /\ main' = main /\ site' = site /\ got' = got /\ dropped' = dropped
  BY DEF mainVars
<1>3. \A u \in Task : (pc'[u] # "none" <=> pc[u] # "none") /\ (pc[u] = "done" => pc'[u] = "done")
  BY <1>1
<1>4. got[t] = NULL /\ site[t] # NULL /\ Copied(t)
  BY DEF Where, Copied
<1>5. \A u \in Task : (InMaking(u)' <=> InMaking(u)) /\ (HasVariable(u)' <=> HasVariable(u))
  BY <1>2, <1>3 DEF InMaking, HasVariable, Spawned
<1>6. Where'
  BY <1>2, <1>3, <1>5 DEF Where
<1> QED
  BY <1>1, <1>2, <1>4, <1>6 DEF Copied, InHand

Early == {"start", "lock", "read", "put", "unlock", "body"}

\* Until the call answers, a thread leaves the memory as it is.
LEMMA EarlyStep ==
  ASSUME Typed, Where, Outcomes, \A u \in Task : CountsOf(u),
         NEW t \in Task, NEW place \in Early,
         pc[t] \in Early, Move(t, place), UNCHANGED <<mainVars, answer, result, count>>
  PROVE  Where' /\ Outcomes' /\ \A u \in Task : CountsOf(u)'
<1>0. place \in Place \ {"none"} /\ pc[t] \notin {"none", "done"}
  BY DEF Early, Place
<1>1. /\ Where'
      /\ pc'[t] = place
      /\ Copied(t)' <=> Copied(t)
      /\ \A u \in Task : InHand(u)' <=> InHand(u)
      /\ \A u \in Task \ {t} : pc'[u] = pc[u] /\ (Copied(u)' <=> Copied(u))
  BY <1>0, WhereKept
<1>2. site' = site /\ got' = got /\ dropped' = dropped /\ arena' = arena
  BY DEF mainVars
<1>3. ASSUME NEW u \in Task
      PROVE  (Answered(u)' <=> Answered(u)) /\ (Stored(u)' <=> Stored(u)) /\ Param(u)' = Param(u)
  BY <1>1, <1>2 DEF Answered, Stored, Early, Param
<1>4. Outcomes'
  BY <1>2, <1>3 DEF Outcomes
<1>5. CountsOf(t)'
  <2>1. (Keeps(t)' <=> Keeps(t)) /\ (Lends(t)' <=> Lends(t)) /\ (Returns(t)' <=> Returns(t))
    BY <1>1, <1>2, <1>3 DEF Keeps, Lends, Returns, Early
  <2>2. /\ CtxCount(t)' = CtxCount(t)
        /\ CopyCount(t)' = CopyCount(t)
        /\ ResCount(t)' = ResCount(t)
        /\ ArgCount(t)' = ArgCount(t)
    BY <1>1, <1>2, <1>3, <2>1 DEF CtxCount, CopyCount, ResCount, ArgCount, One, Early
  <2>3. ArgsCount(t)' = ArgsCount(t)
    BY <1>1, <1>2 DEF ArgsCount, Spawners, One
  <2>4. SrcCount(t)' = SrcCount(t)
    BY <1>2, <2>1 DEF SrcCount, Spawners, One
  <2> QED
    BY <2>2, <2>3, <2>4 DEF CountsOf
<1>6. ASSUME NEW u \in Task, u # t PROVE CountsOf(u)'
  BY <1>1, <1>2, <1>6, CountsKept
<1> QED
  BY <1>1, <1>4, <1>5, <1>6

\* The steps after that change the counts of one task at most.
LEMMA OthersKept ==
  ASSUME Typed, Where, Outcomes, \A u \in Task : CountsOf(u),
         NEW t \in Task, NEW place \in Place \ {"none"},
         pc[t] \notin {"none", "done"}, Move(t, place), UNCHANGED mainVars,
         \A u \in Task \ {t} : \A r \in Role : count'[<<r, u>>] = count[<<r, u>>],
         \A u \in Task \ {t} : answer'[u] = answer[u] /\ result'[u] = result[u],
         CountsOf(t)',
         /\ Answered(t)' =>
              /\ site[t].answers = "param" => answer'[t] = Param(t)
              /\ site[t].answers = "fresh" => answer'[t] = <<"res", t>>
              /\ site[t].answers = "number" => answer'[t] \in {"number"} \X Int
         /\ Stored(t)' => result'[t] = answer'[t]
  PROVE  Where' /\ Outcomes' /\ \A u \in Task : CountsOf(u)'
<1>1. /\ Where'
      /\ got[t] = NULL
      /\ \A u \in Task : InHand(u)' <=> InHand(u)
      /\ \A u \in Task \ {t} : pc'[u] = pc[u] /\ (Copied(u)' <=> Copied(u))
  BY WhereKept
<1>2. site' = site /\ got' = got /\ dropped' = dropped /\ arena' = arena
  BY DEF mainVars
<1>3. \A u \in Task : Param(u)' = Param(u)
  BY <1>2 DEF Param
<1>4. ASSUME NEW u \in Task
      PROVE  /\ Answered(u)' =>
                  /\ site'[u].answers = "param" => answer'[u] = Param(u)'
                  /\ site'[u].answers = "fresh" => answer'[u] = <<"res", u>>
                  /\ site'[u].answers = "number" => answer'[u] \in {"number"} \X Int
             /\ Stored(u)' => result'[u] = answer'[u]
             /\ got'[u] # NULL => got'[u] = result'[u]
  <2>1. CASE u = t
    BY <1>1, <1>2, <1>3, <2>1
  <2>2. CASE u # t
    <3>1. (Answered(u)' <=> Answered(u)) /\ (Stored(u)' <=> Stored(u))
      BY <1>1, <2>2 DEF Answered, Stored
    <3> QED
      BY <1>2, <1>3, <2>2, <3>1 DEF Outcomes
  <2> QED
    BY <2>1, <2>2
<1>5. Outcomes'
  BY <1>4 DEF Outcomes
<1>6. ASSUME NEW u \in Task, u # t PROVE CountsOf(u)'
  BY <1>1, <1>2, <1>6, CountsKept
<1> QED
  BY <1>1, <1>5, <1>6

LEMMA BodyStep ==
  ASSUME Forms = {}, Typed, Where, Outcomes, \A u \in Task : CountsOf(u),
         NEW t \in Task, Body(t)
  PROVE  Where' /\ Outcomes' /\ \A u \in Task : CountsOf(u)'
<1> USE DEF GONE, ARENA
<1> DEFINE s == site[t]
           kept == IF s.answers = "param" THEN Retain(count, Param(t)) ELSE count
           made == IF s.answers = "fresh" THEN [kept EXCEPT ![<<"res", t>>] = 1] ELSE kept
           last == IF s.mut THEN Release(made, Param(t)) ELSE made
<1>1. /\ pc[t] = "body"
      /\ "release" \in Place \ {"none"}
      /\ Move(t, "release")
      /\ UNCHANGED mainVars
      /\ result' = result
  BY DEF Body, At, Place
<1>2. count' = last
  BY DEF Body
<1>3. /\ got[t] = NULL /\ site[t] # NULL /\ Copied(t)
      /\ pc'[t] = "release" /\ Copied(t)'
      /\ InHand(t)' <=> InHand(t)
  BY <1>1, WhereKept
<1>4. /\ s.kind \in {"str", "array", "channel", "number"}
      /\ s.mut \in BOOLEAN
      /\ s.answers \in {"param", "fresh", "number"}
      /\ s.kind # "str" => ~ s.mut /\ s.answers # "fresh"
      /\ s.kind \in {"channel", "number"} => s.answers = "number"
  BY <1>3, Packed
<1>5. \E v : /\ answer' = [answer EXCEPT ![t] = v]
             /\ s.answers = "param" => v = Param(t)
             /\ s.answers = "fresh" => v = <<"res", t>>
             /\ s.answers = "number" => v = <<"number", seen[t]>>
  <2> DEFINE v == CASE s.answers = "param" -> Param(t)
                    [] s.answers = "fresh" -> <<"res", t>>
                    [] OTHER -> <<"number", seen[t]>>
  <2>1. answer' = [answer EXCEPT ![t] = v]
    BY DEF Body
  <2>2. /\ s.answers = "param" => v = Param(t)
        /\ s.answers = "fresh" => v = <<"res", t>>
        /\ s.answers = "number" => v = <<"number", seen[t]>>
    OBVIOUS
  <2> HIDE DEF v, s
  <2> QED
    BY <2>1, <2>2
<1>6. /\ s.answers = "param" => answer'[t] = Param(t)
      /\ s.answers = "fresh" => answer'[t] = <<"res", t>>
      /\ s.answers = "number" => answer'[t] \in {"number"} \X Int
      /\ \A u \in Task \ {t} : answer'[u] = answer[u]
  BY <1>5 DEF Typed
<1>7. /\ \A u \in Task, r \in Role : <<r, u>> \in Object
      /\ Param(t) \in Object
      /\ count \in [Object -> Int]
  BY Objects DEF Typed
<1>8. /\ kept \in [Object -> Int]
      /\ kept[Param(t)] = IF s.answers = "param" /\ count[Param(t)] > 0
                            THEN count[Param(t)] + 1 ELSE count[Param(t)]
      /\ \A o \in Object : o # Param(t) => kept[o] = count[o]
  BY <1>7, CountingAt DEF Retain
<1> HIDE DEF kept
<1>9. /\ made \in [Object -> Int]
      /\ made[<<"res", t>>] = IF s.answers = "fresh" THEN 1 ELSE kept[<<"res", t>>]
      /\ \A o \in Object : o # <<"res", t>> => made[o] = kept[o]
  <2>1. <<"res", t>> \in Object
    BY <1>7 DEF Role
  <2>2. CASE s.answers = "fresh"
    <3>1. made = [kept EXCEPT ![<<"res", t>>] = 1]
      BY <2>2
    <3> HIDE DEF made, s
    <3> QED
      BY <1>8, <2>1, <2>2, <3>1
  <2>3. CASE s.answers # "fresh"
    BY <1>8, <2>3
  <2> QED
    BY <2>2, <2>3
<1> HIDE DEF made
<1>10. /\ count'[Param(t)] = IF s.mut /\ made[Param(t)] > 0
                               THEN made[Param(t)] - 1 ELSE made[Param(t)]
       /\ \A o \in Object : o # Param(t) => count'[o] = made[o]
  BY <1>2, <1>7, <1>9, CountingAt
<1>11. Param(t) = IF s.kind = "str" THEN <<"arg", t>> ELSE <<"src", t>>
  BY DEF Param
<1>12. \A o \in Object : o # Param(t) /\ o # <<"res", t>> => count'[o] = count[o]
  BY <1>8, <1>9, <1>10
<1>13. CountsOf(t)
  OBVIOUS
<1>14. Answered(t)' /\ ~ Answered(t) /\ Lends(t) /\ ~ Returns(t)
       /\ (Lends(t)' <=> ~ s.mut) /\ (Returns(t)' <=> s.answers = "param")
  BY <1>1, <1>3, <1>4 DEF Answered, Lends, Returns, mainVars
<1>15. Param(t) # <<"res", t>> /\ {"ctx", "copy", "args", "handle", "src", "arg", "res"} \subseteq Role
  BY <1>11 DEF Role
<1>16. count'[<<"res", t>>] = ResCount(t)'
  <2>1. count[<<"res", t>>] = 0
    BY <1>13, <1>14 DEF CountsOf, ResCount, One
  <2>2. count'[<<"res", t>>] = IF s.answers = "fresh" THEN 1 ELSE 0
    BY <1>7, <1>8, <1>9, <1>10, <1>15, <2>1
  <2> QED
    BY <1>1, <1>14, <2>2 DEF ResCount, One, mainVars
<1>17. count'[<<"arg", t>>] = ArgCount(t)'
  <2>1. CASE s.kind = "str"
    <3>1. Param(t) = <<"arg", t>> /\ count[Param(t)] = 1
      BY <1>3, <1>11, <1>13, <1>14, <2>1 DEF CountsOf, ArgCount, One
    <3>2. made[Param(t)] = IF s.answers = "param" THEN 2 ELSE 1
      BY <1>7, <1>8, <1>9, <1>15, <3>1
    <3>3. count'[<<"arg", t>>] = (IF s.mut THEN 0 ELSE 1) + (IF s.answers = "param" THEN 1 ELSE 0)
      BY <1>10, <3>1, <3>2
    <3>4. ArgCount(t)' = (IF s.mut THEN 0 ELSE 1) + (IF s.answers = "param" THEN 1 ELSE 0)
      BY <1>1, <1>3, <1>14, <2>1 DEF ArgCount, One, mainVars
    <3> QED
      BY <3>3, <3>4
  <2>2. CASE s.kind # "str"
    <3>1. count[<<"arg", t>>] = 0
      BY <1>13, <2>2 DEF CountsOf, ArgCount
    <3>2. count'[<<"arg", t>>] = 0
      BY <1>7, <1>11, <1>12, <1>15, <2>2, <3>1
    <3> QED
      BY <1>1, <2>2, <3>2 DEF ArgCount, mainVars
  <2> QED
    BY <2>1, <2>2
<1>18. count'[<<"src", t>>] = SrcCount(t)'
  <2>1. Keeps(t)' <=> Keeps(t)
    BY <1>1, <1>3 DEF Keeps, mainVars
  <2>2. CASE s.kind # "array" \/ s.answers # "param"
    <3>1. count'[<<"src", t>>] = count[<<"src", t>>]
      <4>1. CASE s.kind = "str"
        BY <1>7, <1>11, <1>12, <1>15, <4>1
      <4>2. CASE s.kind # "str"
        <5>1. s.answers = "number" /\ ~ s.mut /\ Param(t) = <<"src", t>>
          BY <1>4, <1>11, <2>2, <4>2
        <5> QED
          BY <1>7, <1>8, <1>9, <1>10, <1>15, <5>1
      <4> QED
        BY <4>1, <4>2
    <3>2. SrcCount(t)' = SrcCount(t)
      BY <1>1, <1>14, <2>1, <2>2 DEF SrcCount, Spawners, One, mainVars
    <3> QED
      BY <1>13, <3>1, <3>2 DEF CountsOf
  <2>3. CASE s.kind = "array" /\ s.answers = "param"
    <3>1. Keeps(t)
      BY <1>3, <2>3 DEF Where, Keeps
    <3>2. arena \in {"none", "open"}
      BY <1>3, <2>3 DEF Where, Typed
    <3>3. count[<<"src", t>>] = Spawners(1)
      BY <1>3, <1>13, <1>14, <2>3, <3>1 DEF CountsOf, SrcCount, One
    <3>4. count'[<<"src", t>>] = Spawners(2)
      <4>1. Param(t) = <<"src", t>> /\ ~ s.mut
        BY <1>4, <1>11, <2>3
      <4>2. count'[<<"src", t>>] = kept[<<"src", t>>]
        BY <1>7, <1>9, <1>10, <1>15, <4>1
      <4>3. kept[<<"src", t>>] = IF count[<<"src", t>>] > 0 THEN count[<<"src", t>>] + 1
                                                          ELSE count[<<"src", t>>]
        BY <1>8, <2>3, <4>1
      <4> QED
        BY <3>2, <3>3, <4>2, <4>3 DEF Spawners
    <3>5. SrcCount(t)' = Spawners(2)
      BY <1>1, <1>3, <1>14, <2>1, <2>3, <3>1 DEF SrcCount, Spawners, One, mainVars
    <3> QED
      BY <3>4, <3>5
  <2> QED
    BY <1>4, <2>2, <2>3
<1>19. /\ CtxCount(t)' = CtxCount(t)
       /\ CopyCount(t)' = CopyCount(t)
       /\ ArgsCount(t)' = ArgsCount(t)
  BY <1>1, <1>3 DEF CtxCount, CopyCount, ArgsCount, Spawners, One, mainVars
<1>20. \A r \in {"ctx", "copy", "args", "handle"} : count'[<<r, t>>] = count[<<r, t>>]
  BY <1>7, <1>11, <1>12, <1>15
<1>21. CountsOf(t)'
  BY <1>13, <1>16, <1>17, <1>18, <1>19, <1>20 DEF CountsOf
<1>22. \A u \in Task \ {t} : \A r \in Role : count'[<<r, u>>] = count[<<r, u>>]
  <2>1. ASSUME NEW u \in Task \ {t}, NEW r \in Role
        PROVE  /\ <<r, u>> \in Object
               /\ <<r, u>> # <<"arg", t>> /\ <<r, u>> # <<"src", t>> /\ <<r, u>> # <<"res", t>>
    BY <1>7
  <2> QED
    BY <1>11, <1>12, <2>1
<1>23. ~ Stored(t)'
  BY <1>3 DEF Stored
<1> HIDE DEF s
<1> QED
  BY <1>1, <1>6, <1>21, <1>22, <1>23, OthersKept DEF s

LEMMA ThunkReleaseStep ==
  ASSUME Forms = {}, Typed, Where, Outcomes, \A u \in Task : CountsOf(u),
         NEW t \in Task, ThunkRelease(t)
  PROVE  Where' /\ Outcomes' /\ \A u \in Task : CountsOf(u)'
<1> USE DEF GONE, ARENA
<1> DEFINE lent == site[t].kind = "str" /\ ~ site[t].mut
<1>1. /\ pc[t] = "release"
      /\ "store" \in Place \ {"none"}
      /\ Move(t, "store")
      /\ UNCHANGED <<mainVars, answer, result>>
      /\ count' = IF lent THEN Release(count, <<"arg", t>>) ELSE count
  BY DEF ThunkRelease, At, Place
<1>2. /\ got[t] = NULL /\ site[t] # NULL /\ Copied(t)
      /\ pc'[t] = "store" /\ Copied(t)'
      /\ InHand(t)' <=> InHand(t)
  BY <1>1, WhereKept
<1>3. /\ \A u \in Task, r \in Role : <<r, u>> \in Object
      /\ {"ctx", "copy", "args", "handle", "src", "arg", "res"} \subseteq Role
      /\ count \in [Object -> Int]
  BY Objects DEF Typed, Role
<1>4. Answered(t) /\ Answered(t)' /\ ~ Stored(t)'
  BY <1>1, <1>2 DEF Answered, Stored
<1>5. /\ count'[<<"arg", t>>] = IF lent /\ count[<<"arg", t>>] > 0
                                  THEN count[<<"arg", t>>] - 1 ELSE count[<<"arg", t>>]
      /\ \A o \in Object : o # <<"arg", t>> => count'[o] = count[o]
  BY <1>1, <1>3, CountingAt
<1>6. (Keeps(t)' <=> Keeps(t)) /\ (Returns(t)' <=> Returns(t))
  BY <1>1, <1>2, <1>4 DEF Keeps, Returns, mainVars
<1>7. /\ CtxCount(t)' = CtxCount(t)
      /\ CopyCount(t)' = CopyCount(t)
      /\ ArgsCount(t)' = ArgsCount(t)
      /\ SrcCount(t)' = SrcCount(t)
      /\ ResCount(t)' = ResCount(t)
  BY <1>1, <1>2, <1>4, <1>6 DEF CtxCount, CopyCount, ArgsCount, SrcCount, ResCount, Spawners, One, mainVars
<1>8. count'[<<"arg", t>>] = ArgCount(t)'
  <2>1. count[<<"arg", t>>] = ArgCount(t)
    BY DEF CountsOf
  <2>2. CASE lent
    <3>1. Lends(t) /\ ~ Lends(t)'
      BY <1>1, <1>2, <2>2 DEF Lends, mainVars
    <3>2. ArgCount(t) = 1 + One(Returns(t)) /\ One(Returns(t)) \in {0, 1}
      BY <1>2, <2>2, <3>1 DEF ArgCount, One
    <3>3. ArgCount(t)' = One(Returns(t))
      BY <1>1, <1>2, <1>6, <2>2, <3>1 DEF ArgCount, One, mainVars
    <3> QED
      BY <1>5, <2>1, <2>2, <3>2, <3>3
  <2>3. CASE ~ lent
    <3>1. site[t].kind = "str" => (Lends(t)' <=> Lends(t))
      BY <1>1, <1>2, <1>4, <2>3 DEF Lends, mainVars
    <3>2. ArgCount(t)' = ArgCount(t)
      BY <1>1, <1>2, <1>6, <3>1 DEF ArgCount, One, mainVars
    <3> QED
      BY <1>5, <2>1, <2>3, <3>2
  <2> QED
    BY <2>2, <2>3
<1>9. CountsOf(t)'
  <2>1. \A r \in {"ctx", "copy", "args", "handle", "src", "res"} : count'[<<r, t>>] = count[<<r, t>>]
    BY <1>3, <1>5
  <2> QED
    BY <1>7, <1>8, <2>1 DEF CountsOf
<1>10. \A u \in Task \ {t} : \A r \in Role : count'[<<r, u>>] = count[<<r, u>>]
  <2>1. ASSUME NEW u \in Task \ {t}, NEW r \in Role
        PROVE  <<r, u>> \in Object /\ <<r, u>> # <<"arg", t>>
    BY <1>3
  <2> QED
    BY <1>5, <2>1
<1> QED
  BY <1>1, <1>4, <1>9, <1>10, OthersKept DEF Outcomes

LEMMA StoreResultStep ==
  ASSUME Forms = {}, Typed, Where, Outcomes, \A u \in Task : CountsOf(u),
         NEW t \in Task, StoreResult(t)
  PROVE  Where' /\ Outcomes' /\ \A u \in Task : CountsOf(u)'
<1>1. /\ pc[t] = "store"
      /\ "free" \in Place \ {"none"}
      /\ Move(t, "free")
      /\ UNCHANGED <<mainVars, answer, count>>
      /\ result' = [result EXCEPT ![t] = answer[t]]
  BY DEF StoreResult, At, Place
<1>2. /\ got[t] = NULL /\ site[t] # NULL /\ Copied(t)
      /\ pc'[t] = "free" /\ Copied(t)'
      /\ InHand(t)' <=> InHand(t)
  BY <1>1, WhereKept
<1>3. Answered(t) /\ Answered(t)'
  BY <1>1, <1>2 DEF Answered
<1>4. (Keeps(t)' <=> Keeps(t)) /\ (Returns(t)' <=> Returns(t)) /\ (Lends(t)' <=> Lends(t))
  BY <1>1, <1>2, <1>3 DEF Keeps, Returns, Lends, mainVars
<1>5. /\ CtxCount(t)' = CtxCount(t)
      /\ CopyCount(t)' = CopyCount(t)
      /\ ArgsCount(t)' = ArgsCount(t)
      /\ SrcCount(t)' = SrcCount(t)
      /\ ResCount(t)' = ResCount(t)
      /\ ArgCount(t)' = ArgCount(t)
  BY <1>1, <1>2, <1>3, <1>4
     DEF CtxCount, CopyCount, ArgsCount, SrcCount, ResCount, ArgCount, Spawners, One, mainVars
<1>6. CountsOf(t)'
  BY <1>1, <1>5 DEF CountsOf
<1>7. result'[t] = answer[t] /\ \A u \in Task \ {t} : result'[u] = result[u]
  BY <1>1 DEF Typed
<1> QED
  BY <1>1, <1>3, <1>6, <1>7, OthersKept DEF Outcomes

LEMMA FreeCopyStep ==
  ASSUME Forms = {}, Typed, Where, Outcomes, \A u \in Task : CountsOf(u),
         NEW t \in Task, FreeCopy(t)
  PROVE  Where' /\ Outcomes' /\ \A u \in Task : CountsOf(u)'
<1> USE DEF GONE
<1>1. /\ pc[t] = "free"
      /\ "done" \in Place \ {"none"}
      /\ Move(t, "done")
      /\ UNCHANGED <<mainVars, answer, result>>
      /\ count' = Free(count, <<"copy", t>>)
  BY DEF FreeCopy, At, Place
<1>2. /\ got[t] = NULL /\ site[t] # NULL /\ Copied(t)
      /\ pc'[t] = "done" /\ Copied(t)'
      /\ InHand(t)' <=> InHand(t)
  BY <1>1, WhereKept
<1>3. Answered(t) /\ Answered(t)' /\ Stored(t)
  BY <1>1, <1>2 DEF Answered, Stored
<1>4. /\ \A u \in Task, r \in Role : <<r, u>> \in Object
      /\ {"ctx", "copy", "args", "handle", "src", "arg", "res"} \subseteq Role
      /\ count \in [Object -> Int]
  BY Objects DEF Typed, Role
<1>5. /\ count'[<<"copy", t>>] = 0
      /\ \A o \in Object : o # <<"copy", t>> => count'[o] = count[o]
  BY <1>1, <1>4, CountingAt
<1>6. (Keeps(t)' <=> Keeps(t)) /\ (Returns(t)' <=> Returns(t)) /\ (Lends(t)' <=> Lends(t))
  BY <1>1, <1>2, <1>3 DEF Keeps, Returns, Lends, mainVars
<1>7. /\ CtxCount(t)' = CtxCount(t)
      /\ CopyCount(t)' = 0
      /\ ArgsCount(t)' = ArgsCount(t)
      /\ SrcCount(t)' = SrcCount(t)
      /\ ResCount(t)' = ResCount(t)
      /\ ArgCount(t)' = ArgCount(t)
  BY <1>1, <1>2, <1>3, <1>6
     DEF CtxCount, CopyCount, ArgsCount, SrcCount, ResCount, ArgCount, Spawners, One, mainVars
<1>8. CountsOf(t)'
  <2>1. \A r \in {"ctx", "arg", "args", "handle", "src", "res"} : count'[<<r, t>>] = count[<<r, t>>]
    BY <1>4, <1>5
  <2> QED
    BY <1>5, <1>7, <2>1 DEF CountsOf
<1>9. \A u \in Task \ {t} : \A r \in Role : count'[<<r, u>>] = count[<<r, u>>]
  <2>1. ASSUME NEW u \in Task \ {t}, NEW r \in Role
        PROVE  <<r, u>> \in Object /\ <<r, u>> # <<"copy", t>>
    BY <1>4
  <2> QED
    BY <1>5, <2>1
<1> QED
  BY <1>1, <1>3, <1>8, <1>9, OthersKept DEF Outcomes

\* Working, where a thread goes on with the cell.
LEMMA WorkingKept ==
  ASSUME Typed, Working, NEW t \in Task, NEW place \in Place, NEW w,
         Move(t, place), todo' = [todo EXCEPT ![t] = w],
         place \in {"lock", "read", "put", "unlock"} => w # <<>>,
         place = "read" => w # <<"set">>
  PROVE  Working'
BY DEF Typed, Working, Move

LEMMA ThreadStep ==
  ASSUME Forms = {}, Typed, Working, Where, Outcomes, \A u \in Task : CountsOf(u),
         NEW t \in Task, Thread(t)
  PROVE  Working' /\ Where' /\ Outcomes' /\ \A u \in Task : CountsOf(u)'
<1>0. /\ Early \subseteq Place
      /\ todo[t] \in Todos
      /\ todo = [todo EXCEPT ![t] = todo[t]]
  BY DEF Early, Place, Typed
<1>1. CASE Start(t)
  <2>1. PICK place \in Early :
          /\ Move(t, place)
          /\ place \in {"lock", "read", "put", "unlock"} => todo[t] # <<>>
          /\ place # "read"
    BY <1>1 DEF Start, Early
  <2>2. pc[t] \in Early /\ todo' = todo /\ UNCHANGED <<mainVars, answer, result, count>>
    BY <1>1 DEF Start, At, Early
  <2> QED
    BY <1>0, <2>1, <2>2, EarlyStep, WorkingKept
<1>2. CASE Lock(t)
  <2>1. todo[t] # <<>>
    BY <1>2 DEF Lock, At, Working
  <2>2. PICK place \in Early : Move(t, place) /\ (place = "read" => Head(todo[t]) # "set")
    BY <1>2 DEF Lock, Early
  <2>3. pc[t] \in Early /\ todo' = todo /\ UNCHANGED <<mainVars, answer, result, count>>
    BY <1>2 DEF Lock, At, Early
  <2>4. place = "read" => todo[t] # <<"set">>
    BY <1>0, <2>1, <2>2, TodoShapes
  <2> QED
    BY <1>0, <2>1, <2>2, <2>3, <2>4, EarlyStep, WorkingKept
<1>3. CASE ReadCell(t)
  <2>1. todo[t] # <<>> /\ todo[t] # <<"set">>
    BY <1>3 DEF ReadCell, At, Working
  <2>2. Head(todo[t]) \in {"get", "update"}
    BY <1>0, <2>1, TodoShapes
  <2>3. PICK place \in Early : Move(t, place)
    BY <1>3, <2>2 DEF ReadCell, Early
  <2>4. pc[t] \in Early /\ todo' = todo /\ UNCHANGED <<mainVars, answer, result, count>>
    BY <1>3 DEF ReadCell, At, Early
  <2> QED
    BY <1>0, <2>1, <2>3, <2>4, EarlyStep, WorkingKept
<1>4. CASE WriteCell(t)
  <2>1. todo[t] # <<>>
    BY <1>4 DEF WriteCell, At, Working
  <2>2. /\ "unlock" \in Early /\ Move(t, "unlock") /\ pc[t] \in Early
        /\ todo' = todo /\ UNCHANGED <<mainVars, answer, result, count>>
    BY <1>4 DEF WriteCell, At, Early
  <2> QED
    BY <1>0, <2>1, <2>2, EarlyStep, WorkingKept
<1>5. CASE Unlock(t)
  <2>1. todo[t] # <<>>
    BY <1>5 DEF Unlock, At, Working
  <2>2. PICK place \in Early : Move(t, place) /\ place # "read" /\ (Len(todo[t]) # 1 \/ place = "body")
    BY <1>5 DEF Unlock, Early
  <2>3. /\ pc[t] \in Early /\ todo' = [todo EXCEPT ![t] = Tail(todo[t])]
        /\ UNCHANGED <<mainVars, answer, result, count>>
    BY <1>5 DEF Unlock, At, Early
  <2>4. place \in {"lock", "read", "put", "unlock"} => Tail(todo[t]) # <<>>
    BY <1>0, <2>1, <2>2, TodoShapes
  <2> QED
    BY <1>0, <2>2, <2>3, <2>4, EarlyStep, WorkingKept
<1>6. ASSUME NEW place \in {"release", "store", "free", "done"}, Move(t, place), todo' = todo
      PROVE  Working'
  BY <1>0, <1>6, WorkingKept DEF Place
<1>7. CASE Body(t)
  BY <1>6, <1>7, BodyStep DEF Body
<1>8. CASE ThunkRelease(t)
  BY <1>6, <1>8, ThunkReleaseStep DEF ThunkRelease
<1>9. CASE StoreResult(t)
  BY <1>6, <1>9, StoreResultStep DEF StoreResult
<1>10. CASE FreeCopy(t)
  BY <1>6, <1>10, FreeCopyStep DEF FreeCopy
<1> QED
  BY <1>1, <1>2, <1>3, <1>4, <1>5, <1>7, <1>8, <1>9, <1>10 DEF Thread

-----------------------------------------------------------------------------
(* The steps of the spawning thread *)

\* What the spawner does about one task is nothing to the others.
LEMMA OthersUntouched ==
  ASSUME Typed, \A u \in Task : CountsOf(u), NEW t \in Task,
         main.task \in {t, NULL}, main'.task \in {t, NULL}, arena' = arena,
         \A u \in Task \ {t} :
           /\ site'[u] = site[u] /\ pc'[u] = pc[u] /\ got'[u] = got[u]
           /\ u \in dropped' <=> u \in dropped
           /\ \A r \in Role : count'[<<r, u>>] = count[<<r, u>>],
         CountsOf(t)'
  PROVE  \A u \in Task : CountsOf(u)'
<1>1. ASSUME NEW u \in Task \ {t} PROVE CountsOf(u)'
  <2>1. main.task # u /\ main'.task # u
    BY NullAssumption
  <2>2. (InHand(u)' <=> InHand(u)) /\ (Copied(u)' <=> Copied(u))
    BY <2>1 DEF InHand, Copied
  <2> QED
    BY <2>2, CountsKept
<1> QED
  BY <1>1

LEMMA PackStep ==
  ASSUME Forms = {}, Typed, Working, Where, Outcomes, \A u \in Task : CountsOf(u),
         NEW t \in Task, Pack(t)
  PROVE  Working' /\ Where' /\ Outcomes' /\ \A u \in Task : CountsOf(u)'
<1> USE DEF GONE, ARENA
<1> PICK s \in Sites :
      /\ site' = [site EXCEPT ![t] = s]
      /\ count' = [count EXCEPT ![<<"args", t>>] = Fresh,
                                ![<<"src", t>>] = IF IsPointer(s) THEN Fresh ELSE GONE]
  BY DEF Pack
<1>1. /\ main = Idle /\ main' = [at |-> "copy", task |-> t]
      /\ site[t] = NULL
      /\ UNCHANGED <<arena, exited, got, dropped, taskVars, cellVars>>
  BY DEF Pack, Goto
<1>2. /\ main.at = "idle" /\ main.task = NULL /\ main'.at = "copy" /\ main'.task = t
      /\ arena' = arena /\ got' = got /\ dropped' = dropped /\ pc' = pc /\ todo' = todo
      /\ answer' = answer /\ result' = result
  BY <1>1 DEF Idle, taskVars
<1>3. /\ s # NULL
      /\ s.kind \in {"str", "array", "channel", "number"}
  BY SiteShapes
<1>4. /\ pc[t] = "none" /\ got[t] = NULL /\ t \notin dropped /\ arena \in {"none", "open"}
  BY <1>1, <1>2 DEF Where, Typed, HasVariable, Spawned, Place
<1>5. site'[t] = s /\ \A u \in Task \ {t} : site'[u] = site[u]
  BY DEF Typed
<1>6. /\ \A u \in Task, r \in Role : <<r, u>> \in Object
      /\ {"ctx", "copy", "args", "handle", "src", "arg", "res"} \subseteq Role
      /\ count \in [Object -> Int]
  BY Objects DEF Typed, Role
<1>7. /\ count'[<<"args", t>>] = Fresh
      /\ count'[<<"src", t>>] = IF IsPointer(s) THEN Fresh ELSE GONE
      /\ \A o \in Object : o # <<"args", t>> /\ o # <<"src", t>> => count'[o] = count[o]
  <2>1. <<"args", t>> \in Object /\ <<"src", t>> \in Object
    BY <1>6
  <2> QED
    BY <1>6, <2>1
<1>8. Working'
  BY <1>2 DEF Working
<1>9. Where'
  <2>1. ASSUME NEW u \in Task
        PROVE  /\ InMaking(u)' <=> u = t
               /\ u # t => (HasVariable(u)' <=> HasVariable(u))
    BY <1>2, <1>5, NullAssumption DEF InMaking, HasVariable, Spawned
  <2>2. \A u \in Task : ~ InMaking(u)
    BY <1>2 DEF InMaking
  <2> QED
    BY <1>2, <1>3, <1>4, <1>5, <2>1, <2>2 DEF Where
<1>10. Outcomes'
  <2>1. ASSUME NEW u \in Task
        PROVE  /\ u = t => ~ Answered(u)' /\ ~ Stored(u)'
               /\ Answered(u)' <=> Answered(u)
               /\ Stored(u)' <=> Stored(u)
               /\ u # t => Param(u)' = Param(u)
    BY <1>2, <1>4, <1>5 DEF Answered, Stored, Param
  <2> QED
    BY <1>2, <1>5, <2>1 DEF Outcomes
<1>11. CountsOf(t)'
  <2>1. Fresh = Spawners(1)' /\ Spawners(1)' = Spawners(1)
    BY <1>2, <1>4 DEF Fresh, Spawners
  <2>2. ~ Copied(t) /\ ~ Copied(t)' /\ InHand(t)' /\ ~ Answered(t) /\ ~ Answered(t)'
    BY <1>2, <1>4 DEF Copied, InHand, Answered
  <2>3. Keeps(t)' /\ ~ Returns(t)'
    BY <1>2, <1>4, <2>2 DEF Keeps, Returns
  <2>4. ArgsCount(t)' = Fresh
    BY <1>3, <1>5, <2>1, <2>2 DEF ArgsCount, One, Spawners
  <2>5. SrcCount(t)' = IF IsPointer(s) THEN Fresh ELSE GONE
    BY <1>3, <1>5, <2>1, <2>3 DEF SrcCount, One, Spawners, IsPointer
  <2>6. /\ CtxCount(t)' = 0 /\ CtxCount(t) = 0 /\ CopyCount(t)' = 0 /\ CopyCount(t) = 0
        /\ ArgCount(t)' = 0 /\ ArgCount(t) = 0 /\ ResCount(t)' = 0 /\ ResCount(t) = 0
    BY <2>2 DEF CtxCount, CopyCount, ArgCount, ResCount, One
  <2>7. \A r \in {"ctx", "copy", "handle", "arg", "res"} : count'[<<r, t>>] = count[<<r, t>>]
    BY <1>6, <1>7
  <2> QED
    BY <1>7, <2>4, <2>5, <2>6, <2>7 DEF CountsOf
<1>12. \A u \in Task \ {t} : \A r \in Role : count'[<<r, u>>] = count[<<r, u>>]
  <2>1. ASSUME NEW u \in Task \ {t}, NEW r \in Role
        PROVE  <<r, u>> \in Object /\ <<r, u>> # <<"args", t>> /\ <<r, u>> # <<"src", t>>
    BY <1>6
  <2> QED
    BY <1>7, <2>1
<1> QED
  BY <1>2, <1>5, <1>8, <1>9, <1>10, <1>11, <1>12, OthersUntouched

LEMMA CopyArgumentsStep ==
  ASSUME Forms = {}, Typed, Working, Where, Outcomes, \A u \in Task : CountsOf(u),
         NEW t \in Task, CopyArguments(t)
  PROVE  Working' /\ Where' /\ Outcomes' /\ \A u \in Task : CountsOf(u)'
<1> USE DEF GONE, ARENA
<1> DEFINE n == IF site[t].kind = "str" THEN 1 ELSE GONE
<1>1. /\ main = [at |-> "copy", task |-> t] /\ main' = [at |-> "create", task |-> t]
      /\ count' = [count EXCEPT ![<<"ctx", t>>] = 1, ![<<"copy", t>>] = 1,
                                ![<<"handle", t>>] = 1, ![<<"arg", t>>] = n]
      /\ UNCHANGED <<arena, exited, site, got, dropped, taskVars, cellVars>>
  BY DEF CopyArguments, Goto, MainAt
<1>2. /\ main.at = "copy" /\ main.task = t /\ main'.at = "create" /\ main'.task = t
      /\ arena' = arena /\ got' = got /\ dropped' = dropped /\ pc' = pc /\ todo' = todo
      /\ answer' = answer /\ result' = result /\ site' = site
  BY <1>1 DEF taskVars
<1>3. pc[t] = "none" /\ got[t] = NULL /\ site[t] # NULL
  BY <1>2 DEF Where, InMaking
<1>4. /\ \A u \in Task, r \in Role : <<r, u>> \in Object
      /\ {"ctx", "copy", "args", "handle", "src", "arg", "res"} \subseteq Role
      /\ count \in [Object -> Int]
  BY Objects DEF Typed, Role
<1>5. /\ count'[<<"ctx", t>>] = 1 /\ count'[<<"copy", t>>] = 1 /\ count'[<<"handle", t>>] = 1
      /\ count'[<<"arg", t>>] = n
      /\ \A o \in Object : o \notin {<<"ctx", t>>, <<"copy", t>>, <<"handle", t>>, <<"arg", t>>}
                             => count'[o] = count[o]
  <2>1. /\ <<"ctx", t>> \in Object /\ <<"copy", t>> \in Object /\ <<"handle", t>> \in Object
        /\ <<"arg", t>> \in Object
    BY <1>4
  <2> HIDE DEF n
  <2> QED
    BY <1>1, <1>4, <2>1
<1>6. Working'
  BY <1>2 DEF Working
<1>7. Where'
  BY <1>2 DEF Where, InMaking, HasVariable, Spawned
<1>8. Outcomes'
  BY <1>2 DEF Outcomes, Answered, Stored, Param
<1>9. CountsOf(t)'
  <2>1. Copied(t)' /\ InHand(t)' /\ InHand(t) /\ ~ Answered(t) /\ ~ Answered(t)' /\ pc'[t] = "none"
    BY <1>2, <1>3 DEF Copied, InHand, Answered
  <2>2. (Keeps(t)' <=> Keeps(t)) /\ ~ Returns(t) /\ ~ Returns(t)' /\ Lends(t)'
    BY <1>2, <2>1 DEF Keeps, Returns, Lends
  <2>3. ArgsCount(t)' = ArgsCount(t) /\ SrcCount(t)' = SrcCount(t)
    BY <1>2, <2>1, <2>2 DEF ArgsCount, SrcCount, Spawners, One
  <2>4. ResCount(t)' = 0 /\ ResCount(t) = 0 /\ CtxCount(t)' = 1 /\ CopyCount(t)' = 1
    BY <1>2, <1>3, <2>1 DEF ResCount, CtxCount, CopyCount, One
  <2>5. ArgCount(t)' = n
    BY <1>2, <2>1, <2>2 DEF ArgCount, One
  <2>6. \A r \in {"args", "src", "res"} : count'[<<r, t>>] = count[<<r, t>>]
    BY <1>4, <1>5
  <2> HIDE DEF n
  <2> QED
    BY <1>5, <2>3, <2>4, <2>5, <2>6 DEF CountsOf
<1>10. \A u \in Task \ {t} : \A r \in Role : count'[<<r, u>>] = count[<<r, u>>]
  <2>1. ASSUME NEW u \in Task \ {t}, NEW r \in Role
        PROVE  /\ <<r, u>> \in Object
               /\ <<r, u>> \notin {<<"ctx", t>>, <<"copy", t>>, <<"handle", t>>, <<"arg", t>>}
    BY <1>4
  <2> QED
    BY <1>5, <2>1
<1> QED
  BY <1>2, <1>6, <1>7, <1>8, <1>9, <1>10, OthersUntouched

LEMMA CreateThreadStep ==
  ASSUME Forms = {}, Typed, Working, Where, Outcomes, \A u \in Task : CountsOf(u),
         NEW t \in Task, CreateThread(t)
  PROVE  Working' /\ Where' /\ Outcomes' /\ \A u \in Task : CountsOf(u)'
<1>1. /\ main = [at |-> "create", task |-> t] /\ main' = [at |-> "cleanup", task |-> t]
      /\ pc' = [pc EXCEPT ![t] = "start"]
      /\ todo' = [todo EXCEPT ![t] = site[t].work]
      /\ UNCHANGED <<arena, exited, site, got, dropped, seen, answer, result, cellVars, count>>
  BY DEF CreateThread, Goto, MainAt
<1>2. /\ main.at = "create" /\ main.task = t /\ main'.at = "cleanup" /\ main'.task = t
      /\ arena' = arena /\ got' = got /\ dropped' = dropped
      /\ answer' = answer /\ result' = result /\ site' = site /\ count' = count
  BY <1>1
<1>3. /\ pc'[t] = "start" /\ \A u \in Task \ {t} : pc'[u] = pc[u] /\ todo'[u] = todo[u]
  BY <1>1 DEF Typed
<1>4. pc[t] = "none" /\ got[t] = NULL /\ site[t] # NULL
  BY <1>2 DEF Where, InMaking
<1>5. Working'
  BY <1>3 DEF Working
<1>6. Where'
  <2>1. ASSUME NEW u \in Task
        PROVE  /\ ~ InMaking(u)'
               /\ InMaking(u) <=> u = t
               /\ u \in dropped => u # t
               /\ u # t => (HasVariable(u)' <=> HasVariable(u))
    BY <1>2, <1>3, <1>4, NullAssumption DEF InMaking, HasVariable, Spawned, Where
  <2> QED
    BY <1>2, <1>3, <1>4, <2>1 DEF Where
<1>7. Outcomes'
  <2>1. ASSUME NEW u \in Task
        PROVE  /\ Answered(u)' <=> Answered(u)
               /\ Stored(u)' <=> Stored(u)
               /\ Param(u)' = Param(u)
    BY <1>2, <1>3, <1>4 DEF Answered, Stored, Param
  <2> QED
    BY <1>2, <2>1 DEF Outcomes
<1>8. CountsOf(t)'
  <2>1. /\ Copied(t)' /\ Copied(t) /\ InHand(t)' /\ InHand(t)
        /\ ~ Answered(t) /\ ~ Answered(t)'
    BY <1>2, <1>3, <1>4 DEF Copied, InHand, Answered
  <2>2. (Keeps(t)' <=> Keeps(t)) /\ ~ Returns(t) /\ ~ Returns(t)' /\ (Lends(t)' <=> Lends(t))
    BY <1>2, <1>3, <1>4, <2>1 DEF Keeps, Returns, Lends
  <2>3. /\ CtxCount(t)' = CtxCount(t) /\ CopyCount(t)' = CopyCount(t)
        /\ ArgsCount(t)' = ArgsCount(t) /\ SrcCount(t)' = SrcCount(t)
        /\ ArgCount(t)' = ArgCount(t) /\ ResCount(t)' = ResCount(t)
    BY <1>2, <1>3, <1>4, <2>1, <2>2
       DEF CtxCount, CopyCount, ArgsCount, SrcCount, ArgCount, ResCount, Spawners, One
  <2> QED
    BY <1>2, <2>3 DEF CountsOf
<1> QED
  BY <1>2, <1>3, <1>5, <1>6, <1>7, <1>8, OthersUntouched

LEMMA ReleaseTemporariesStep ==
  ASSUME Forms = {}, Typed, Working, Where, Outcomes, \A u \in Task : CountsOf(u),
         NEW t \in Task, ReleaseTemporaries(t)
  PROVE  Working' /\ Where' /\ Outcomes' /\ \A u \in Task : CountsOf(u)'
<1> USE DEF GONE, ARENA
<1> DEFINE temp == site[t].temp /\ site[t].kind = "str"
           c == IF temp THEN Release(count, <<"src", t>>) ELSE count
<1>1. /\ main = [at |-> "cleanup", task |-> t] /\ main' = Idle
      /\ count' = Release(c, <<"args", t>>)
      /\ UNCHANGED <<arena, exited, site, got, dropped, taskVars, cellVars>>
  BY DEF ReleaseTemporaries, MainAt
<1>2. /\ main.at = "cleanup" /\ main.task = t /\ main'.at = "idle" /\ main'.task = NULL
      /\ arena' = arena /\ got' = got /\ dropped' = dropped /\ pc' = pc /\ todo' = todo
      /\ answer' = answer /\ result' = result /\ site' = site
  BY <1>1 DEF taskVars, Idle
<1>3. /\ pc[t] # "none" /\ site[t] # NULL /\ arena \in {"none", "open"} /\ t # NULL
  BY <1>2, NullAssumption DEF Where, Typed
<1>4. /\ \A u \in Task, r \in Role : <<r, u>> \in Object
      /\ {"ctx", "copy", "args", "handle", "src", "arg", "res"} \subseteq Role
      /\ count \in [Object -> Int]
  BY Objects DEF Typed, Role
<1>5. /\ <<"args", t>> \in Object /\ <<"src", t>> \in Object
  BY <1>4
<1>6. /\ c \in [Object -> Int]
      /\ c[<<"src", t>>] = IF temp /\ count[<<"src", t>>] > 0
                             THEN count[<<"src", t>>] - 1 ELSE count[<<"src", t>>]
      /\ \A o \in Object : o # <<"src", t>> => c[o] = count[o]
  BY <1>4, <1>5, CountingAt DEF Release
<1> HIDE DEF c
<1>7. /\ count'[<<"args", t>>] = IF c[<<"args", t>>] > 0
                                   THEN c[<<"args", t>>] - 1 ELSE c[<<"args", t>>]
      /\ \A o \in Object : o # <<"args", t>> => count'[o] = c[o]
  BY <1>1, <1>5, <1>6, CountingAt
<1>8. Working' /\ Outcomes'
  BY <1>2 DEF Working, Outcomes, Answered, Stored, Param
<1>9. Where'
  <2>1. \A u \in Task : ~ InMaking(u) /\ ~ InMaking(u)' /\ (HasVariable(u)' <=> HasVariable(u))
    BY <1>2 DEF InMaking, HasVariable, Spawned
  <2> QED
    BY <1>2, <1>3, <2>1 DEF Where
<1>10. CountsOf(t)'
  <2>1. /\ Copied(t)' /\ Copied(t) /\ InHand(t) /\ ~ InHand(t)'
        /\ Answered(t)' <=> Answered(t)
    BY <1>2, <1>3 DEF Copied, InHand, Answered
  <2>2. (Returns(t)' <=> Returns(t)) /\ (Lends(t)' <=> Lends(t))
    BY <1>2, <2>1 DEF Returns, Lends
  <2>3. /\ CtxCount(t)' = CtxCount(t) /\ CopyCount(t)' = CopyCount(t)
        /\ ArgCount(t)' = ArgCount(t) /\ ResCount(t)' = ResCount(t)
    BY <1>2, <2>1, <2>2 DEF CtxCount, CopyCount, ArgCount, ResCount, One
  <2>4. count'[<<"args", t>>] = ArgsCount(t)'
    <3>1. count[<<"args", t>>] = Spawners(1)
      BY <1>3, <2>1 DEF CountsOf, ArgsCount, One
    <3>2. count'[<<"args", t>>] = Spawners(0)
      BY <1>3, <1>5, <1>6, <1>7, <3>1 DEF Spawners
    <3> QED
      BY <1>2, <1>3, <2>1, <3>2 DEF ArgsCount, One, Spawners
  <2>5. count'[<<"src", t>>] = SrcCount(t)'
    <3>1. count'[<<"src", t>>] = c[<<"src", t>>]
      BY <1>5, <1>7
    <3>2. count[<<"src", t>>] = SrcCount(t)
      BY DEF CountsOf
    <3>3. CASE temp
      <4>1. Keeps(t) /\ ~ Keeps(t)'
        BY <1>2, <2>1, <3>3 DEF Keeps
      <4>2. SrcCount(t) = Spawners(1) /\ SrcCount(t)' = Spawners(0)
        BY <1>2, <1>3, <3>3, <4>1 DEF SrcCount, One, Spawners
      <4> QED
        BY <1>3, <1>6, <3>1, <3>2, <3>3, <4>2 DEF Spawners
    <3>4. CASE ~ temp
      <4>1. Keeps(t)' <=> Keeps(t)
        BY <1>2, <3>4 DEF Keeps
      <4>2. SrcCount(t)' = SrcCount(t)
        BY <1>2, <2>2, <4>1 DEF SrcCount, One, Spawners
      <4> QED
        BY <1>6, <3>1, <3>2, <3>4, <4>2
    <3> QED
      BY <3>3, <3>4
  <2>6. \A r \in {"ctx", "copy", "handle", "arg", "res"} : count'[<<r, t>>] = count[<<r, t>>]
    BY <1>4, <1>6, <1>7
  <2> QED
    BY <2>3, <2>4, <2>5, <2>6 DEF CountsOf
<1>11. \A u \in Task \ {t} : \A r \in Role : count'[<<r, u>>] = count[<<r, u>>]
  <2>1. ASSUME NEW u \in Task \ {t}, NEW r \in Role
        PROVE  <<r, u>> \in Object /\ <<r, u>> # <<"args", t>> /\ <<r, u>> # <<"src", t>>
    BY <1>4
  <2> QED
    BY <1>6, <1>7, <2>1
<1> QED
  BY <1>2, <1>8, <1>9, <1>10, <1>11, OthersUntouched

LEMMA DropVariableStep ==
  ASSUME Forms = {}, Typed, Working, Where, Outcomes, \A u \in Task : CountsOf(u),
         NEW t \in Task, DropVariable(t)
  PROVE  Working' /\ Where' /\ Outcomes' /\ \A u \in Task : CountsOf(u)'
<1> USE DEF GONE, ARENA
<1>1. /\ main = Idle /\ HasVariable(t) /\ t \notin dropped
      /\ site[t].kind = "array" => got[t] # NULL
      /\ count' = Release(count, <<"src", t>>)
      /\ dropped' = dropped \cup {t}
      /\ UNCHANGED <<arena, main, exited, site, got, taskVars, cellVars>>
  BY DEF DropVariable
<1>2. /\ main.at = "idle" /\ main.task = NULL /\ main' = main
      /\ arena' = arena /\ got' = got /\ pc' = pc /\ todo' = todo
      /\ answer' = answer /\ result' = result /\ site' = site
  BY <1>1 DEF taskVars, Idle
<1>3. /\ site[t] # NULL /\ pc[t] # "none" /\ site[t].kind \in {"str", "array"} /\ ~ site[t].temp
      /\ arena \in {"none", "open"}
  BY <1>1, <1>2 DEF HasVariable, Spawned, IsRc, Where, Typed
<1>4. /\ \A u \in Task, r \in Role : <<r, u>> \in Object
      /\ {"ctx", "copy", "args", "handle", "src", "arg", "res"} \subseteq Role
      /\ count \in [Object -> Int]
  BY Objects DEF Typed, Role
<1>5. /\ count'[<<"src", t>>] = IF count[<<"src", t>>] > 0
                                  THEN count[<<"src", t>>] - 1 ELSE count[<<"src", t>>]
      /\ \A o \in Object : o # <<"src", t>> => count'[o] = count[o]
  BY <1>1, <1>4, CountingAt
<1>6. Working' /\ Outcomes'
  BY <1>2 DEF Working, Outcomes, Answered, Stored, Param
<1>7. Where'
  <2>1. \A u \in Task : (InMaking(u)' <=> InMaking(u)) /\ (HasVariable(u)' <=> HasVariable(u))
    BY <1>2 DEF InMaking, HasVariable, Spawned
  <2> QED
    BY <1>1, <1>2, <2>1 DEF Where
<1>8. CountsOf(t)'
  <2>2. /\ Answered(t)' <=> Answered(t)
        /\ Returns(t)' <=> Returns(t)
        /\ Lends(t)' <=> Lends(t)
    BY <1>2 DEF Answered, Returns, Lends
  <2>3. /\ Copied(t)' <=> Copied(t)
        /\ InHand(t)' <=> InHand(t)
    BY <1>2 DEF Copied, InHand
  <2>4. /\ CtxCount(t)' = CtxCount(t) /\ CopyCount(t)' = CopyCount(t)
        /\ ArgCount(t)' = ArgCount(t) /\ ResCount(t)' = ResCount(t)
        /\ ArgsCount(t)' = ArgsCount(t)
    BY <1>2, <2>2, <2>3 DEF CtxCount, CopyCount, ArgCount, ResCount, ArgsCount, Spawners, One
  <2>5. count'[<<"src", t>>] = SrcCount(t)'
    <3> DEFINE k == One(site[t].kind = "array" /\ Returns(t))
    <3>1. k \in {0, 1}
      BY DEF One
    <3>2. Keeps(t) /\ ~ Keeps(t)'
      BY <1>1, <1>2, <1>3 DEF Keeps
    <3>3. SrcCount(t) = Spawners(1 + k) /\ SrcCount(t)' = Spawners(0 + k)
      BY <1>2, <1>3, <2>2, <3>2 DEF SrcCount, One, Spawners
    <3>4. count[<<"src", t>>] = SrcCount(t)
      BY DEF CountsOf
    <3> HIDE DEF k
    <3> QED
      BY <1>3, <1>5, <3>1, <3>3, <3>4 DEF Spawners
  <2>6. \A r \in {"ctx", "copy", "handle", "arg", "res", "args"} : count'[<<r, t>>] = count[<<r, t>>]
    BY <1>4, <1>5
  <2> QED
    BY <2>4, <2>5, <2>6 DEF CountsOf
<1>9. \A u \in Task \ {t} : \A r \in Role : count'[<<r, u>>] = count[<<r, u>>]
  <2>1. ASSUME NEW u \in Task \ {t}, NEW r \in Role
        PROVE  <<r, u>> \in Object /\ <<r, u>> # <<"src", t>>
    BY <1>4
  <2> QED
    BY <1>5, <2>1
<1> QED
  BY <1>1, <1>2, <1>6, <1>7, <1>8, <1>9, OthersUntouched

LEMMA BeginAwaitStep ==
  ASSUME Forms = {}, Typed, Working, Where, Outcomes, \A u \in Task : CountsOf(u),
         NEW t \in Task, BeginAwait(t)
  PROVE  Working' /\ Where' /\ Outcomes' /\ \A u \in Task : CountsOf(u)'
<1>1. /\ main = Idle /\ main' = [at |-> "join", task |-> t]
      /\ pc[t] # "none" /\ got[t] = NULL
      /\ UNCHANGED <<arena, exited, site, got, dropped, taskVars, cellVars, count>>
  BY DEF BeginAwait, Goto, Spawned
<1>2. /\ main.at = "idle" /\ main.task = NULL /\ main'.at = "join" /\ main'.task = t
      /\ arena' = arena /\ got' = got /\ pc' = pc /\ todo' = todo /\ dropped' = dropped
      /\ answer' = answer /\ result' = result /\ site' = site /\ count' = count
  BY <1>1 DEF taskVars, Idle
<1>3. Working' /\ Outcomes'
  BY <1>2 DEF Working, Outcomes, Answered, Stored, Param
<1>4. Where'
  <2>1. \A u \in Task : (InMaking(u)' <=> InMaking(u)) /\ (HasVariable(u)' <=> HasVariable(u))
    BY <1>2 DEF InMaking, HasVariable, Spawned
  <2> QED
    BY <1>1, <1>2, <2>1 DEF Where
<1>5. ASSUME NEW u \in Task PROVE CountsOf(u)'
  <2>1. /\ InHand(u)' <=> InHand(u)
        /\ Copied(u)' <=> Copied(u)
    BY <1>2 DEF InHand, Copied
  <2> QED
    BY <1>2, <2>1, CountsKept
<1> QED
  BY <1>3, <1>4, <1>5

LEMMA JoinStep ==
  ASSUME Forms = {}, Typed, Working, Where, Outcomes, \A u \in Task : CountsOf(u),
         NEW t \in Task, Join(t)
  PROVE  Working' /\ Where' /\ Outcomes' /\ \A u \in Task : CountsOf(u)'
<1> USE DEF GONE
<1>1. /\ main = [at |-> "join", task |-> t] /\ main' = Idle
      /\ pc[t] = "done"
      /\ got' = [got EXCEPT ![t] = result[t]]
      /\ count' = Free(Free(count, <<"ctx", t>>), <<"handle", t>>)
      /\ UNCHANGED <<arena, exited, site, dropped, taskVars, cellVars>>
  BY DEF Join, MainAt
<1>2. /\ main.at = "join" /\ main.task = t /\ main'.at = "idle" /\ main'.task = NULL
      /\ arena' = arena /\ pc' = pc /\ todo' = todo /\ dropped' = dropped
      /\ answer' = answer /\ result' = result /\ site' = site
  BY <1>1 DEF taskVars, Idle
<1>3. got'[t] = result[t] /\ \A u \in Task \ {t} : got'[u] = got[u]
  BY <1>1 DEF Typed
<1>4. site[t] # NULL /\ Answered(t) /\ Stored(t) /\ arena # "ended"
  BY <1>1, <1>2 DEF Where, Answered, Stored
<1>5. result[t] # NULL
  <2>1. result[t] \in Object \cup ({"number"} \X Int)
    <3>1. result[t] = answer[t]
      BY <1>4 DEF Outcomes
    <3>2. answer[t] \in {Param(t), <<"res", t>>} \cup ({"number"} \X Int)
      BY <1>4, Packed DEF Outcomes
    <3>3. Param(t) \in Object /\ <<"res", t>> \in Object
      BY Objects DEF Role
    <3> QED
      BY <3>1, <3>2, <3>3
  <2> QED
    BY <2>1, NullAssumption
<1>6. /\ \A u \in Task, r \in Role : <<r, u>> \in Object
      /\ {"ctx", "copy", "args", "handle", "src", "arg", "res"} \subseteq Role
      /\ count \in [Object -> Int]
  BY Objects DEF Typed, Role
<1>7. /\ count'[<<"ctx", t>>] = 0 /\ count'[<<"handle", t>>] = 0
      /\ \A o \in Object : o # <<"ctx", t>> /\ o # <<"handle", t>> => count'[o] = count[o]
  <2>1. <<"ctx", t>> \in Object /\ <<"handle", t>> \in Object
    BY <1>6
  <2> QED
    BY <1>1, <1>6, <2>1 DEF Free
<1>8. Working'
  BY <1>2 DEF Working
<1>9. Outcomes'
  <2>1. ASSUME NEW u \in Task PROVE got'[u] # NULL => got'[u] = result'[u]
    BY <1>2, <1>3 DEF Outcomes
  <2> QED
    BY <1>2, <2>1 DEF Outcomes, Answered, Stored, Param
<1>10. Where'
  <2>1. \A u \in Task : ~ InMaking(u) /\ ~ InMaking(u)' /\ (HasVariable(u)' <=> HasVariable(u))
    BY <1>2 DEF InMaking, HasVariable, Spawned
  <2> QED
    BY <1>1, <1>2, <1>3, <1>4, <1>5, <2>1 DEF Where
<1>11. CountsOf(t)'
  <2>1. /\ InHand(t)' <=> InHand(t)
        /\ Copied(t)' <=> Copied(t)
        /\ Answered(t)' <=> Answered(t)
    BY <1>2, NullAssumption DEF InHand, Copied, Answered
  <2>2. /\ Returns(t)' <=> Returns(t)
        /\ Lends(t)' <=> Lends(t)
        /\ Keeps(t)' <=> Keeps(t)
    BY <1>2, <2>1 DEF Returns, Lends, Keeps
  <2>3. /\ CopyCount(t)' = CopyCount(t) /\ ArgsCount(t)' = ArgsCount(t)
        /\ ArgCount(t)' = ArgCount(t) /\ ResCount(t)' = ResCount(t) /\ SrcCount(t)' = SrcCount(t)
    BY <1>2, <2>1, <2>2 DEF CopyCount, ArgsCount, ArgCount, ResCount, SrcCount, Spawners, One
  <2>4. CtxCount(t)' = 0
    BY <1>3, <1>5 DEF CtxCount, One
  <2>5. \A r \in {"copy", "args", "arg", "res", "src"} : count'[<<r, t>>] = count[<<r, t>>]
    BY <1>6, <1>7
  <2> QED
    BY <1>7, <2>3, <2>4, <2>5 DEF CountsOf
<1>12. \A u \in Task \ {t} : \A r \in Role : count'[<<r, u>>] = count[<<r, u>>]
  <2>1. ASSUME NEW u \in Task \ {t}, NEW r \in Role
        PROVE  <<r, u>> \in Object /\ <<r, u>> # <<"ctx", t>> /\ <<r, u>> # <<"handle", t>>
    BY <1>6
  <2> QED
    BY <1>7, <2>1
<1> QED
  BY <1>2, <1>3, <1>8, <1>9, <1>10, <1>11, <1>12, OthersUntouched

LEMMA EndRequestStep ==
  ASSUME Forms = {}, Typed, Working, Where, Outcomes, \A u \in Task : CountsOf(u), EndRequest
  PROVE  Working' /\ Where' /\ Outcomes' /\ \A u \in Task : CountsOf(u)'
<1> USE DEF GONE, ARENA
<1>1. /\ main = Idle /\ arena = "open" /\ arena' = "ended"
      /\ main' = [at |-> "returned", task |-> NULL]
      /\ \A u \in Task : Settled(u)
      /\ count' = [o \in Object |-> IF count[o] = ARENA THEN GONE ELSE count[o]]
      /\ UNCHANGED <<exited, site, got, dropped, taskVars, cellVars>>
  BY DEF EndRequest, Goto
<1>2. /\ main.at = "idle" /\ main.task = NULL /\ main'.at = "returned" /\ main'.task = NULL
      /\ got' = got /\ pc' = pc /\ todo' = todo /\ dropped' = dropped
      /\ answer' = answer /\ result' = result /\ site' = site
  BY <1>1 DEF taskVars, Idle
<1>3. \A u \in Task, r \in Role :
        count'[<<r, u>>] = IF count[<<r, u>>] = -1 THEN 0 ELSE count[<<r, u>>]
  BY <1>1, Objects
<1>4. Working' /\ Outcomes'
  BY <1>2 DEF Working, Outcomes, Answered, Stored, Param
<1>5. Where'
  <2>1. \A u \in Task : (InMaking(u)' <=> InMaking(u)) /\ (HasVariable(u)' <=> HasVariable(u))
    BY <1>2 DEF InMaking, HasVariable, Spawned
  <2>2. ASSUME NEW u \in Task, site[u] # NULL, site[u].kind \in {"array", "channel"}
        PROVE  got[u] # NULL
    <3>1. Spawned(u)
      BY <1>2, <2>2 DEF Spawned, Where, InMaking
    <3> QED
      BY <1>1, <2>2, <3>1 DEF Settled
  <2> QED
    BY <1>1, <1>2, <2>1, <2>2 DEF Where
<1>6. ASSUME NEW u \in Task PROVE CountsOf(u)'
  <2>1. /\ InHand(u)' <=> InHand(u)
        /\ Copied(u)' <=> Copied(u)
        /\ Answered(u)' <=> Answered(u)
    BY <1>2 DEF InHand, Copied, Answered
  <2>2. /\ Returns(u)' <=> Returns(u)
        /\ Lends(u)' <=> Lends(u)
        /\ Keeps(u)' <=> Keeps(u)
    BY <1>2, <2>1 DEF Returns, Lends, Keeps
  <2>3. /\ CtxCount(u)' = CtxCount(u) /\ CtxCount(u) \in {0, 1}
        /\ CopyCount(u)' = CopyCount(u) /\ CopyCount(u) \in {0, 1}
        /\ ArgCount(u)' = ArgCount(u) /\ ArgCount(u) \in {0, 1, 2}
        /\ ResCount(u)' = ResCount(u) /\ ResCount(u) \in {0, 1}
    BY <1>2, <2>1, <2>2 DEF CtxCount, CopyCount, ArgCount, ResCount, One
  <2>4. \A n : Spawners(n) = -1 /\ Spawners(n)' = 0
    BY <1>1 DEF Spawners
  <2>5. ArgsCount(u)' = IF ArgsCount(u) = -1 THEN 0 ELSE ArgsCount(u)
    BY <1>1, <1>2 DEF ArgsCount, Spawners
  <2>6. SrcCount(u)' = IF SrcCount(u) = -1 THEN 0 ELSE SrcCount(u)
    BY <1>1, <1>2 DEF SrcCount, Spawners
  <2>7. \A r \in {"ctx", "copy", "handle", "arg", "res", "args", "src"} :
          count'[<<r, u>>] = IF count[<<r, u>>] = -1 THEN 0 ELSE count[<<r, u>>]
    BY <1>3 DEF Role
  <2>8. CountsOf(u)
    OBVIOUS
  <2>9. /\ count'[<<"ctx", u>>] = CtxCount(u)'
        /\ count'[<<"handle", u>>] = CtxCount(u)'
        /\ count'[<<"copy", u>>] = CopyCount(u)'
        /\ count'[<<"arg", u>>] = ArgCount(u)'
        /\ count'[<<"res", u>>] = ResCount(u)'
    <3>1. /\ count[<<"ctx", u>>] = CtxCount(u)' /\ count[<<"handle", u>>] = CtxCount(u)'
          /\ count[<<"copy", u>>] = CopyCount(u)' /\ count[<<"arg", u>>] = ArgCount(u)'
          /\ count[<<"res", u>>] = ResCount(u)'
      BY <2>3, <2>8 DEF CountsOf
    <3>2. \A r \in {"ctx", "copy", "handle", "arg", "res"} : count[<<r, u>>] # -1
      BY <2>3, <3>1
    <3>3. \A r \in {"ctx", "copy", "handle", "arg", "res"} : count'[<<r, u>>] = count[<<r, u>>]
      BY <2>7, <3>2
    <3> QED
      BY <3>1, <3>3
  <2>10. count'[<<"args", u>>] = ArgsCount(u)' /\ count'[<<"src", u>>] = SrcCount(u)'
    BY <2>5, <2>6, <2>7, <2>8 DEF CountsOf
  <2> QED
    BY <2>9, <2>10 DEF CountsOf
<1> QED
  BY <1>4, <1>5, <1>6

\* The process exits: what awaited tasks have left is not touched any more.
LEMMA CreateFailsStep ==
  ASSUME Forms = {}, IInv, NEW t \in Task, CreateFails(t), ~ exited
  PROVE  exited' /\ NothingLeft'
<1>1. NothingLeft
  BY CountsLeaveNothing
<1>2. /\ main.task = t
      /\ exited'
      /\ count' = Free(Free(count, <<"ctx", t>>), <<"handle", t>>)
      /\ UNCHANGED <<main, site, got, dropped, pc>>
  BY DEF CreateFails, MainAt, taskVars
<1>3. ASSUME NEW u \in Task \ {t}, NEW r \in Role
      PROVE  count'[<<r, u>>] = count[<<r, u>>]
  <2>1. <<r, u>> \in Object /\ <<"ctx", t>> \in Object /\ <<"handle", t>> \in Object
    BY Objects DEF Role
  <2> QED
    BY <1>2, <2>1 DEF Free, IInv, Typed
<1> QED
  BY <1>1, <1>2, <1>3 DEF NothingLeft, HasVariable, Spawned

-----------------------------------------------------------------------------
(* The theorems *)

LEMMA Starts == Forms = {} /\ Init => IInv
<1> SUFFICES ASSUME Forms = {}, Init
             PROVE  IInv
  OBVIOUS
<1> USE DEF Init, Idle, GONE, ARENA
<1>1. Typed
  <2>1. /\ main \in [at : {"idle", "copy", "create", "cleanup", "join", "returned"},
                     task : Task \cup {NULL}]
        /\ arena \in {"none", "open", "ended"} /\ exited \in BOOLEAN
        /\ dropped \in SUBSET Task /\ cell \in Int /\ holder \in Task \cup {NULL}
    <3>1. main = [at |-> "idle", task |-> NULL]
      OBVIOUS
    <3>2. main \in [at : {"idle", "copy", "create", "cleanup", "join", "returned"},
                    task : Task \cup {NULL}]
      BY <3>1
    <3>3. arena \in {"none", "open", "ended"} /\ exited \in BOOLEAN
      BY Zenon
    <3>4. dropped \in SUBSET Task /\ cell \in Int /\ holder \in Task \cup {NULL}
      OBVIOUS
    <3> QED
      BY <3>2, <3>3, <3>4, Zenon
  <2>2. /\ count \in [Object -> Int] /\ \A o \in Object : count[o] >= ARENA
        /\ site \in [Task -> Sites \cup {NULL}] /\ pc \in [Task -> Place]
    BY DEF Place
  <2>3. todo \in [Task -> Todos] /\ seen \in [Task -> Int]
    BY DEF Todos
  <2>4. answer \in [Task -> Answer] /\ result \in [Task -> Answer] /\ got \in [Task -> Answer]
    BY DEF Answer
  <2> QED
    BY <2>1, <2>2, <2>3, <2>4 DEF Typed
<1>2. Working /\ Where
  BY DEF Working, Where, InMaking, HasVariable, Spawned
<1>3. Outcomes
  BY DEF Outcomes, Answered, Stored
<1>4. ASSUME NEW t \in Task PROVE CountsOf(t)
  <2>1. ~ Copied(t) /\ ~ Answered(t) /\ site[t] = NULL
    BY DEF Copied, Answered
  <2>2. \A r \in {"ctx", "copy", "handle", "arg", "res", "args", "src"} : count[<<r, t>>] = 0
    BY Objects DEF Role
  <2> QED
    BY <2>1, <2>2 DEF CountsOf, CtxCount, CopyCount, ArgsCount, SrcCount, ArgCount, ResCount, One
<1> QED
  BY <1>1, <1>2, <1>3, <1>4 DEF IInv

LEMMA Keeping == Forms = {} /\ IInv /\ [Next]_vars => IInv'
<1> SUFFICES ASSUME Forms = {}, IInv, [Next]_vars
             PROVE  IInv'
  OBVIOUS
<1>1. CASE exited
  <2>1. UNCHANGED vars
    BY <1>1 DEF Next, Spawner, Thread, Start, Lock, ReadCell, WriteCell, Unlock, Body,
                ThunkRelease, StoreResult, FreeCopy, At
  <2> QED
    BY <1>1, <2>1 DEF vars, mainVars, taskVars, cellVars, IInv, Typed, NothingLeft, HasVariable, Spawned
<1>2. CASE ~ exited /\ UNCHANGED vars
  <2> USE <1>2 DEF vars, mainVars, taskVars, cellVars
  <2>1. Typed' /\ Working' /\ Outcomes'
    BY DEF IInv, Typed, Working, Outcomes, Answered, Stored, Param
  <2>2. Where'
    BY DEF IInv, Where, InMaking, HasVariable, Spawned
  <2>3. ASSUME NEW u \in Task PROVE CountsOf(u)'
    <3>1. /\ InHand(u)' <=> InHand(u)
          /\ Copied(u)' <=> Copied(u)
      BY DEF InHand, Copied
    <3>2. CountsOf(u)
      BY DEF IInv
    <3> QED
      BY <3>1, <3>2, CountsKept
  <2> QED
    BY <2>1, <2>2, <2>3 DEF IInv
<1>3. CASE ~ exited /\ Next
  <2>1. Typed /\ Working /\ Where /\ Outcomes /\ \A u \in Task : CountsOf(u)
    BY <1>3 DEF IInv
  <2>2. Typed'
    BY <1>3, <2>1, TypeStep
  <2>3. ASSUME ~ exited', Working' /\ Where' /\ Outcomes' /\ \A u \in Task : CountsOf(u)'
        PROVE  IInv'
    BY <2>2, <2>3 DEF IInv
  <2>4. ASSUME NEW t \in Task, Thread(t) PROVE IInv'
    <3>1. exited' = exited
      BY <2>4 DEF Thread, Start, Lock, ReadCell, WriteCell, Unlock, Body, ThunkRelease,
                  StoreResult, FreeCopy, mainVars
    <3> QED
      BY <1>3, <2>1, <2>3, <2>4, <3>1, ThreadStep
  <2>5. ASSUME NEW t \in Task, Spawner(t) PROVE IInv'
    <3>1. CASE CreateFails(t)
      BY <1>3, <2>2, <3>1, CreateFailsStep DEF IInv
    <3>2. CASE \/ Pack(t) \/ CopyArguments(t) \/ CreateThread(t) \/ ReleaseTemporaries(t)
               \/ DropVariable(t) \/ BeginAwait(t) \/ Join(t)
      <4>1. exited' = exited
        BY <3>2 DEF Pack, CopyArguments, CreateThread, ReleaseTemporaries, DropVariable,
                    BeginAwait, Join
      <4>2. Working' /\ Where' /\ Outcomes' /\ \A u \in Task : CountsOf(u)'
        BY <2>1, <3>2, PackStep, CopyArgumentsStep, CreateThreadStep, ReleaseTemporariesStep,
           DropVariableStep, BeginAwaitStep, JoinStep
      <4> QED
        BY <1>3, <2>3, <4>1, <4>2
    <3> QED
      BY <2>5, <3>1, <3>2 DEF Spawner
  <2>6. CASE EndRequest
    <3>1. exited' = exited
      BY <2>6 DEF EndRequest
    <3> QED
      BY <1>3, <2>1, <2>3, <2>6, <3>1, EndRequestStep
  <2> QED
    BY <1>3, <2>4, <2>5, <2>6 DEF Next
<1> QED
  BY <1>1, <1>2, <1>3

\* TypeOK of module Tasks: the state of rt_spawn_with_args, spawn_thread_fn and
\* the mutex cell stays what the code that reads it expects.
THEOREM TypeCorrect ==
  ASSUME Forms = {} PROVE Spec => []TypeOK
<1>1. IInv => TypeOK
  <2>1. \A w \in Todos : Len(w) <= 2
    <3>1. Len(<<>>) = 0
      OBVIOUS
    <3>2. ASSUME NEW w \in Todos, w # <<>> PROVE Len(w) <= 2
      <4>1. Len(w) \in {1, 2}
        BY <3>2, TodoShapes
      <4>2. \A n \in {1, 2} : n <= 2
        OBVIOUS
      <4> QED
        BY <4>1, <4>2, Zenon
    <3> QED
      BY <3>1, <3>2
  <2> QED
    BY <2>1 DEF IInv, Typed, TypeOK
<1> QED
  BY <1>1, Starts, Keeping, PTL DEF Spec

\* NoDangling of module Tasks: whatever the spawner, its request and its
\* threads do first, no block that rt_spawn_with_args, the thunk or
\* rt_await_handle is about to use is freed (docs/SAFETY.md:274-275).
THEOREM NothingDangles ==
  ASSUME Forms = {} PROVE Spec => []NoDangling
BY Starts, Keeping, CountsSuffice, PTL DEF Spec

\* NothingLeft of module Tasks: a task that was awaited leaves its result, held
\* once, and nothing else.
THEOREM NothingRemains ==
  ASSUME Forms = {} PROVE Spec => []NothingLeft
BY Starts, Keeping, CountsLeaveNothing, PTL DEF Spec

-----------------------------------------------------------------------------
(* The refinement of Futures *)

\* Who works on the cell holds its lock, an update's new value is still the
\* cell's plus one when it is stored, and a result is there once it is stored.
Locked ==
  \A t \in Task :
    /\ pc[t] \in {"read", "put", "unlock"} => holder = t
    /\ pc[t] = "put" => todo[t] # <<"get", "set">>
    /\ pc[t] = "put" /\ todo[t] = <<"update">> => seen[t] = cell + 1
    /\ pc[t] \in {"none", "start", "lock", "read"} /\ todo[t] = <<"update">> => seen[t] = 0
    /\ pc[t] = "none" => todo[t] = <<>> /\ seen[t] = 0
    /\ pc[t] \in {"body", "release", "store", "free", "done"} => todo[t] = <<>>
    /\ result[t] # NULL <=> Stored(t)

LInv == IInv /\ (~ exited => Locked)

\* What a call answers is an answer.
LEMMA AnswerIsThere ==
  ASSUME Forms = {}, Typed, Where, Outcomes, NEW t \in Task, Answered(t)
  PROVE  answer[t] # NULL
<1>1. site[t] # NULL
  BY DEF Where, Answered
<1>2. answer[t] \in {Param(t), <<"res", t>>} \cup ({"number"} \X Int)
  BY <1>1, Packed DEF Outcomes
<1>3. Param(t) \in Object /\ <<"res", t>> \in Object
  BY Objects DEF Role
<1> QED
  BY <1>2, <1>3, NullAssumption

\* Of the threads only one is at work on the cell, and only about its own task.
LEMMA LockedKept ==
  ASSUME Typed, Locked, NEW t \in Task,
         \A u \in Task \ {t} :
           pc'[u] = pc[u] /\ todo'[u] = todo[u] /\ seen'[u] = seen[u] /\ result'[u] = result[u],
         \/ cell' = cell
         \/ holder = t,
         \/ holder' = holder
         \/ holder \in {t, NULL},
         /\ pc'[t] \in {"read", "put", "unlock"} => holder' = t
         /\ pc'[t] = "put" => todo'[t] # <<"get", "set">>
         /\ pc'[t] = "put" /\ todo'[t] = <<"update">> => seen'[t] = cell' + 1
         /\ pc'[t] \in {"none", "start", "lock", "read"} /\ todo'[t] = <<"update">> => seen'[t] = 0
         /\ pc'[t] = "none" => todo'[t] = <<>> /\ seen'[t] = 0
         /\ pc'[t] \in {"body", "release", "store", "free", "done"} => todo'[t] = <<>>
         /\ result'[t] # NULL <=> Stored(t)'
  PROVE  Locked'
<1>1. ASSUME NEW u \in Task, u # t
      PROVE  /\ pc'[u] \in {"read", "put", "unlock"} => holder' = u
             /\ pc'[u] = "put" => todo'[u] # <<"get", "set">>
             /\ pc'[u] = "put" /\ todo'[u] = <<"update">> => seen'[u] = cell' + 1
             /\ pc'[u] \in {"none", "start", "lock", "read"} /\ todo'[u] = <<"update">> => seen'[u] = 0
             /\ pc'[u] = "none" => todo'[u] = <<>> /\ seen'[u] = 0
             /\ pc'[u] \in {"body", "release", "store", "free", "done"} => todo'[u] = <<>>
             /\ result'[u] # NULL <=> Stored(u)'
  <2>1. pc[u] \in {"read", "put", "unlock"} => holder = u /\ cell' = cell /\ holder' = holder
    BY <1>1, NullAssumption DEF Locked
  <2>2. Stored(u)' <=> Stored(u)
    BY <1>1 DEF Stored
  <2> QED
    BY <1>1, <2>1, <2>2 DEF Locked
<1> QED
  BY <1>1 DEF Locked

LEMMA LockedStep ==
  ASSUME Forms = {}, Typed, Working, Where, Outcomes, Locked, Next, ~ exited
  PROVE  Locked'
<1>1. CASE EndRequest
  BY <1>1 DEF EndRequest, Locked, Stored, taskVars, cellVars
<1>2. ASSUME NEW t \in Task, Spawner(t) PROVE Locked'
  <2>1. CASE CreateThread(t)
    <3>1. pc[t] = "none" /\ site[t] # NULL
      BY <2>1 DEF CreateThread, MainAt, Where, InMaking
    <3>2. /\ pc'[t] = "start" /\ todo'[t] = site[t].work
          /\ UNCHANGED <<seen, result, cell, holder>>
          /\ \A u \in Task \ {t} : pc'[u] = pc[u] /\ todo'[u] = todo[u]
      BY <2>1 DEF CreateThread, Typed, cellVars
    <3>3. seen[t] = 0 /\ (result[t] # NULL <=> Stored(t)) /\ ~ Stored(t) /\ ~ Stored(t)'
      BY <3>1, <3>2 DEF Locked, Stored
    <3> QED
      BY <3>2, <3>3, LockedKept
  <2>2. CASE \/ Pack(t) \/ CopyArguments(t) \/ CreateFails(t) \/ ReleaseTemporaries(t)
             \/ DropVariable(t) \/ BeginAwait(t) \/ Join(t)
    <3>1. UNCHANGED <<taskVars, cellVars>>
      BY <2>2 DEF Pack, CopyArguments, CreateFails, ReleaseTemporaries, DropVariable, BeginAwait, Join
    <3> QED
      BY <3>1 DEF Locked, Stored, taskVars, cellVars
  <2> QED
    BY <1>2, <2>1, <2>2 DEF Spawner
<1>3. ASSUME NEW t \in Task, Thread(t) PROVE Locked'
  <2> USE DEF At, Move, cellVars
  <2>0. /\ todo[t] \in Todos
        /\ result[t] # NULL <=> Stored(t)
        /\ pc[t] \in {"read", "put", "unlock"} => holder = t
    BY DEF Typed, Locked
  <2>1. CASE Start(t)
    <3>1. /\ pc[t] = "start" /\ pc'[t] = IF todo[t] = <<>> THEN "body" ELSE "lock"
          /\ \A u \in Task \ {t} : pc'[u] = pc[u]
          /\ UNCHANGED <<todo, seen, result, cell, holder>>
      BY <2>1 DEF Start, Typed
    <3>2. ~ Stored(t) /\ ~ Stored(t)'
      BY <3>1 DEF Stored
    <3>3. todo[t] = <<"update">> => seen[t] = 0
      BY <3>1 DEF Locked
    <3> QED
      BY <2>0, <3>1, <3>2, <3>3, LockedKept
  <2>2. CASE Lock(t)
    <3>1. /\ pc[t] = "lock" /\ pc'[t] = IF Head(todo[t]) = "set" THEN "put" ELSE "read"
          /\ holder = NULL /\ holder' = t
          /\ \A u \in Task \ {t} : pc'[u] = pc[u]
          /\ UNCHANGED <<todo, seen, result, cell>>
      BY <2>2 DEF Lock, Typed
    <3>2. ~ Stored(t) /\ ~ Stored(t)'
      BY <3>1 DEF Stored
    <3>3. todo[t] = <<"update">> => seen[t] = 0 /\ Head(todo[t]) # "set"
      BY <3>1 DEF Locked
    <3>4. todo[t] = <<"get", "set">> => Head(todo[t]) # "set"
      OBVIOUS
    <3> QED
      BY <2>0, <3>1, <3>2, <3>3, <3>4, LockedKept
  <2>3. CASE ReadCell(t)
    <3>1. /\ pc[t] = "read" /\ holder = t
          /\ UNCHANGED <<todo, result, cell, holder>>
      BY <2>0, <2>3 DEF ReadCell
    <3>2. todo[t] # <<>> /\ todo[t] # <<"set">>
      BY <3>1 DEF Working
    <3>3. Head(todo[t]) \in {"get", "update"}
      BY <2>0, <3>2, TodoShapes
    <3>4. CASE Head(todo[t]) = "get"
      <4>1. /\ pc'[t] = "unlock"
            /\ \A u \in Task \ {t} : pc'[u] = pc[u] /\ seen'[u] = seen[u]
        BY <2>3, <3>4 DEF ReadCell, Typed
      <4>2. ~ Stored(t) /\ ~ Stored(t)'
        BY <3>1, <4>1 DEF Stored
      <4> QED
        BY <2>0, <3>1, <4>1, <4>2, LockedKept
    <3>5. CASE Head(todo[t]) = "update"
      <4>1. /\ pc' = [pc EXCEPT ![t] = "put"] /\ seen' = [seen EXCEPT ![t] = cell + 1]
        BY <2>3, <3>5 DEF ReadCell
      <4>2. /\ pc'[t] = "put" /\ seen'[t] = cell + 1
            /\ \A u \in Task \ {t} : pc'[u] = pc[u] /\ seen'[u] = seen[u]
        BY <4>1 DEF Typed
      <4>3. ~ Stored(t) /\ ~ Stored(t)'
        BY <3>1, <4>2 DEF Stored
      <4>4. todo[t] # <<"get", "set">>
        BY <3>5
      <4> QED
        BY <2>0, <3>1, <4>2, <4>3, <4>4, LockedKept
    <3> QED
      BY <3>3, <3>4, <3>5
  <2>4. CASE WriteCell(t)
    <3>1. /\ pc[t] = "put" /\ holder = t /\ pc'[t] = "unlock"
          /\ \A u \in Task \ {t} : pc'[u] = pc[u]
          /\ UNCHANGED <<todo, seen, result, holder>>
      BY <2>0, <2>4 DEF WriteCell, Typed
    <3>2. ~ Stored(t) /\ ~ Stored(t)'
      BY <3>1 DEF Stored
    <3> QED
      BY <2>0, <3>1, <3>2, LockedKept
  <2>5. CASE Unlock(t)
    <3>1. /\ pc[t] = "unlock" /\ holder = t /\ holder' = NULL
          /\ pc'[t] = IF Len(todo[t]) = 1 THEN "body" ELSE "lock"
          /\ todo'[t] = Tail(todo[t])
          /\ \A u \in Task \ {t} : pc'[u] = pc[u] /\ todo'[u] = todo[u]
          /\ UNCHANGED <<seen, result, cell>>
      BY <2>0, <2>5 DEF Unlock, Typed
    <3>2. ~ Stored(t) /\ ~ Stored(t)'
      BY <3>1 DEF Stored
    <3>3. todo[t] # <<>>
      BY <3>1 DEF Working
    <3>4. /\ Tail(todo[t]) # <<"update">>
          /\ Len(todo[t]) = 1 <=> Tail(todo[t]) = <<>>
      <4>1. todo[t] \in {<<"update">>, <<"get", "set">>, <<"set">>}
        BY <2>0, <3>3 DEF Todos
      <4>2. Tail(<<"get", "set">>) = <<"set">> /\ Tail(<<"update">>) = <<>> /\ Tail(<<"set">>) = <<>>
        OBVIOUS
      <4>3. <<"set">> # <<"update">> /\ <<>> # <<"update">>
        OBVIOUS
      <4> QED
        BY <2>0, <3>3, <4>1, <4>2, <4>3, TodoShapes
    <3> QED
      BY <2>0, <3>1, <3>2, <3>4, LockedKept
  <2>6. CASE Body(t) \/ ThunkRelease(t) \/ FreeCopy(t)
    <3>1. /\ pc[t] \in {"body", "release", "free"}
          /\ pc'[t] \in {"release", "store", "done"}
          /\ pc[t] = "free" <=> pc'[t] = "done"
          /\ \A u \in Task \ {t} : pc'[u] = pc[u]
          /\ UNCHANGED <<todo, seen, result, cell, holder>>
      BY <2>6 DEF Body, ThunkRelease, FreeCopy, Typed
    <3>2. Stored(t)' <=> Stored(t)
      BY <3>1 DEF Stored
    <3>3. todo[t] = <<>>
      BY <3>1 DEF Locked
    <3> QED
      BY <2>0, <3>1, <3>2, <3>3, LockedKept
  <2>7. CASE StoreResult(t)
    <3>1. /\ pc[t] = "store" /\ pc'[t] = "free" /\ result'[t] = answer[t]
          /\ \A u \in Task \ {t} : pc'[u] = pc[u] /\ result'[u] = result[u]
          /\ UNCHANGED <<todo, seen, cell, holder>>
      BY <2>7 DEF StoreResult, Typed
    <3>2. Stored(t)' /\ answer[t] # NULL
      BY <3>1, AnswerIsThere DEF Stored, Answered
    <3>3. todo[t] = <<>>
      BY <3>1 DEF Locked
    <3> QED
      BY <3>1, <3>2, <3>3, LockedKept
  <2> QED
    BY <1>3, <2>1, <2>2, <2>3, <2>4, <2>5, <2>6, <2>7 DEF Thread
<1> QED
  BY <1>1, <1>2, <1>3 DEF Next

\* What Futures sees of a task.
WorkOf(t) == IF pc[t] = "unlock" THEN Tail(todo[t]) ELSE todo[t]
SeenOf(t) == IF pc[t] = "put" /\ Head(todo[t]) = "update" THEN 0 ELSE seen[t]

LEMMA Stutters ==
  ASSUME \A t \in Task : Phase(t)' = Phase(t) /\ WorkOf(t)' = WorkOf(t) /\ SeenOf(t)' = SeenOf(t),
         UNCHANGED <<cell, result, got>>
  PROVE  UNCHANGED Abstract!fvars
BY DEF Abstract!fvars, WorkOf, SeenOf

\* A thread's step to which the abstract one is a change of one task.
LEMMA OthersLookTheSame ==
  ASSUME NEW u \in Task,
         pc'[u] = pc[u] /\ todo'[u] = todo[u] /\ seen'[u] = seen[u],
         result'[u] = result[u] /\ got'[u] = got[u]
  PROVE  Phase(u)' = Phase(u) /\ WorkOf(u)' = WorkOf(u) /\ SeenOf(u)' = SeenOf(u)
BY DEF Phase, WorkOf, SeenOf

LEMMA SpawnerRefines ==
  ASSUME Forms = {}, Typed, Working, Where, Outcomes, Locked,
         NEW t \in Task, Spawner(t)
  PROVE  [Abstract!Next]_(Abstract!fvars)
<1>1. CASE \/ Pack(t) \/ CopyArguments(t) \/ CreateFails(t) \/ ReleaseTemporaries(t)
           \/ DropVariable(t) \/ BeginAwait(t)
  <2>1. UNCHANGED <<taskVars, cellVars, got>>
    BY <1>1 DEF Pack, CopyArguments, CreateFails, ReleaseTemporaries, DropVariable, BeginAwait
  <2> QED
    BY <2>1, OthersLookTheSame, Stutters DEF taskVars, cellVars
<1>2. CASE CreateThread(t)
  <2>1. pc[t] = "none" /\ site[t] # NULL
    BY <1>2 DEF CreateThread, MainAt, Where, InMaking
  <2>2. /\ pc'[t] = "start" /\ todo'[t] = site[t].work
        /\ UNCHANGED <<seen, result, got, cell>>
        /\ \A u \in Task \ {t} : pc'[u] = pc[u] /\ todo'[u] = todo[u]
    BY <1>2 DEF CreateThread, Typed, cellVars
  <2>3. site[t].work \in Seq({"update", "get", "set"})
    <3>1. site[t].work \in {<<>>, <<"update">>, <<"get", "set">>}
      BY <2>1, Packed
    <3>2. <<>> \in Seq({"update", "get", "set"})
      OBVIOUS
    <3>3. <<"update">> \in Seq({"update", "get", "set"})
      OBVIOUS
    <3>4. <<"get", "set">> \in Seq({"update", "get", "set"})
      OBVIOUS
    <3> QED
      BY <3>1, <3>2, <3>3, <3>4
  <2>4. got[t] = NULL /\ result[t] = NULL
    BY <2>1 DEF Where, Locked, Stored
  <2>5. /\ Phase(t) = "new" /\ Phase(t)' = "running"
        /\ WorkOf(t)' = site[t].work /\ SeenOf(t)' = SeenOf(t)
    BY <2>1, <2>2, <2>4 DEF Phase, WorkOf, SeenOf
  <2>6. \A u \in Task \ {t} :
          Phase(u)' = Phase(u) /\ WorkOf(u)' = WorkOf(u) /\ SeenOf(u)' = SeenOf(u)
    BY <2>2, OthersLookTheSame
  <2>7. Abstract!Spawn(t)
    BY <2>2, <2>3, <2>5, <2>6 DEF Abstract!Spawn, WorkOf, SeenOf
  <2> QED
    BY <2>7 DEF Abstract!Next
<1>3. CASE Join(t)
  <2>1. /\ pc[t] = "done" /\ main.at = "join" /\ main.task = t
        /\ got' = [got EXCEPT ![t] = result[t]]
        /\ UNCHANGED <<taskVars, cellVars>>
    BY <1>3 DEF Join, MainAt
  <2>2. got[t] = NULL /\ result[t] # NULL
    BY <2>1 DEF Where, Locked, Stored
  <2>3. got'[t] = result[t] /\ \A u \in Task \ {t} : got'[u] = got[u]
    BY <2>1 DEF Typed
  <2>4. /\ UNCHANGED <<pc, todo, seen, result, cell>>
        /\ pc'[t] = "done" /\ got'[t] # NULL
    BY <2>1, <2>2, <2>3 DEF taskVars, cellVars
  <2>5. /\ Phase(t) = "finished" /\ Phase(t)' = "taken"
        /\ WorkOf(t)' = WorkOf(t) /\ SeenOf(t)' = SeenOf(t)
    <3>1. Phase(t) = "finished"
      BY <2>1, <2>2 DEF Phase
    <3>2. Phase(t)' = "taken"
      BY <2>4 DEF Phase
    <3>3. WorkOf(t)' = WorkOf(t) /\ SeenOf(t)' = SeenOf(t)
      BY <2>4 DEF WorkOf, SeenOf
    <3> QED
      BY <3>1, <3>2, <3>3
  <2>6. \A u \in Task \ {t} :
          Phase(u)' = Phase(u) /\ WorkOf(u)' = WorkOf(u) /\ SeenOf(u)' = SeenOf(u)
    BY <2>1, <2>3, OthersLookTheSame DEF taskVars
  <2>7. Abstract!Await(t)
    BY <2>1, <2>5, <2>6, <2>4 DEF Abstract!Await, WorkOf, SeenOf
  <2> QED
    BY <2>7 DEF Abstract!Next
<1> QED
  BY <1>1, <1>2, <1>3 DEF Spawner

LEMMA ThreadRefines ==
  ASSUME Forms = {}, Typed, Working, Where, Outcomes, Locked,
         NEW t \in Task, Thread(t)
  PROVE  [Abstract!Next]_(Abstract!fvars)
<1> USE DEF At, Move
<1>1. /\ UNCHANGED <<site, got>>
      /\ todo[t] \in Todos
      /\ got[t] = NULL
  <2>1. pc[t] # "done"
    BY DEF Thread, Start, Lock, ReadCell, WriteCell, Unlock, Body, ThunkRelease, StoreResult, FreeCopy
  <2> QED
    BY <2>1 DEF Thread, Start, Lock, ReadCell, WriteCell, Unlock, Body, ThunkRelease, StoreResult,
                FreeCopy, mainVars, Typed, Where
<1>2. CASE Start(t) \/ Lock(t) \/ Body(t) \/ ThunkRelease(t) \/ FreeCopy(t)
  <2>1. /\ pc[t] \in {"start", "lock", "body", "release", "free"}
        /\ pc'[t] \in {"body", "lock", "read", "put", "release", "store", "done"}
        /\ pc'[t] = "put" => Head(todo[t]) = "set"
        /\ \A u \in Task \ {t} : pc'[u] = pc[u]
        /\ UNCHANGED <<todo, seen, result, cell>>
    BY <1>2 DEF Start, Lock, Body, ThunkRelease, FreeCopy, cellVars, Typed
  <2>2. Phase(t)' = Phase(t) /\ WorkOf(t)' = WorkOf(t) /\ SeenOf(t)' = SeenOf(t)
    BY <1>1, <2>1 DEF Phase, WorkOf, SeenOf
  <2> QED
    BY <1>1, <2>1, <2>2, OthersLookTheSame, Stutters
<1>3. CASE ReadCell(t)
  <2>1. /\ pc[t] = "read"
        /\ UNCHANGED <<todo, result, cell>>
    BY <1>3 DEF ReadCell, cellVars
  <2>2. todo[t] # <<>> /\ todo[t] # <<"set">> /\ result[t] = NULL
    BY <2>1 DEF Working, Locked, Stored
  <2>3. Head(todo[t]) \in {"get", "update"}
    BY <1>1, <2>2, TodoShapes
  <2>4. CASE Head(todo[t]) = "get"
    <3>1. /\ pc' = [pc EXCEPT ![t] = "unlock"] /\ seen' = [seen EXCEPT ![t] = cell]
      BY <1>3, <2>4 DEF ReadCell
    <3>2. /\ pc'[t] = "unlock" /\ seen'[t] = cell
          /\ \A u \in Task \ {t} : pc'[u] = pc[u] /\ seen'[u] = seen[u]
      BY <3>1 DEF Typed
    <3>3. /\ Phase(t) = "running" /\ Phase(t)' = "running"
          /\ WorkOf(t) = todo[t] /\ WorkOf(t)' = Tail(todo[t]) /\ SeenOf(t)' = cell
      BY <1>1, <2>1, <2>2, <3>2 DEF Phase, WorkOf, SeenOf
    <3>4. \A u \in Task \ {t} :
            Phase(u)' = Phase(u) /\ WorkOf(u)' = WorkOf(u) /\ SeenOf(u)' = SeenOf(u)
      BY <1>1, <2>1, <3>2, OthersLookTheSame
    <3>5. Abstract!Get(t)
      BY <1>1, <2>1, <2>2, <2>4, <3>3, <3>4 DEF Abstract!Get, Abstract!Does, WorkOf, SeenOf
    <3> QED
      BY <3>5 DEF Abstract!Next
  <2>5. CASE Head(todo[t]) = "update"
    <3>1. /\ pc' = [pc EXCEPT ![t] = "put"] /\ seen' = [seen EXCEPT ![t] = cell + 1]
      BY <1>3, <2>5 DEF ReadCell
    <3>2. /\ pc'[t] = "put"
          /\ \A u \in Task \ {t} : pc'[u] = pc[u] /\ seen'[u] = seen[u]
      BY <3>1 DEF Typed
    <3>3. todo[t] = <<"update">>
      <4>1. Head(<<"get", "set">>) = "get" /\ todo[t] \in {<<"update">>, <<"get", "set">>}
        BY <1>1, <2>2 DEF Todos
      <4> QED
        BY <2>5, <4>1
    <3>4. seen[t] = 0
      BY <2>1, <3>3 DEF Locked
    <3>5. Phase(t)' = Phase(t) /\ WorkOf(t)' = WorkOf(t) /\ SeenOf(t)' = SeenOf(t)
      BY <1>1, <2>1, <2>5, <3>2, <3>4 DEF Phase, WorkOf, SeenOf
    <3> QED
      BY <1>1, <2>1, <3>2, <3>5, OthersLookTheSame, Stutters
  <2> QED
    BY <2>3, <2>4, <2>5
<1>4. CASE WriteCell(t)
  <2>1. /\ pc[t] = "put" /\ pc'[t] = "unlock"
        /\ cell' = IF Head(todo[t]) = "set" THEN seen[t] + 1 ELSE seen[t]
        /\ \A u \in Task \ {t} : pc'[u] = pc[u]
        /\ UNCHANGED <<todo, seen, result>>
    BY <1>4 DEF WriteCell, Typed
  <2>2. todo[t] # <<>> /\ result[t] = NULL
    BY <2>1 DEF Working, Locked, Stored
  <2>3. /\ Phase(t) = "running" /\ Phase(t)' = "running"
        /\ WorkOf(t) = todo[t] /\ WorkOf(t)' = Tail(todo[t]) /\ SeenOf(t)' = seen[t]
    BY <1>1, <2>1, <2>2 DEF Phase, WorkOf, SeenOf
  <2>4. \A u \in Task \ {t} :
          Phase(u)' = Phase(u) /\ WorkOf(u)' = WorkOf(u) /\ SeenOf(u)' = SeenOf(u)
    BY <1>1, <2>1, OthersLookTheSame
  <2>5. CASE Head(todo[t]) = "set"
    <3>1. SeenOf(t) = seen[t]
      BY <2>5 DEF SeenOf
    <3>2. Abstract!Set(t)
      BY <1>1, <2>1, <2>2, <2>3, <2>4, <2>5, <3>1 DEF Abstract!Set, Abstract!Does, WorkOf, SeenOf
    <3> QED
      BY <3>2 DEF Abstract!Next
  <2>6. CASE Head(todo[t]) = "update"
    <3>1. todo[t] = <<"update">>
      <4>1. /\ Head(<<"get", "set">>) = "get" /\ Head(<<"set">>) = "set"
            /\ todo[t] \in {<<"update">>, <<"get", "set">>, <<"set">>}
        BY <1>1, <2>2 DEF Todos
      <4> QED
        BY <2>6, <4>1
    <3>2. seen[t] = cell + 1
      BY <2>1, <3>1 DEF Locked
    <3>3. cell' = cell + 1 /\ SeenOf(t)' = cell + 1
      BY <2>1, <2>3, <2>6, <3>2
    <3>4. Abstract!Update(t)
      BY <1>1, <2>1, <2>2, <2>3, <2>4, <2>6, <3>3 DEF Abstract!Update, Abstract!Does, WorkOf, SeenOf
    <3> QED
      BY <3>4 DEF Abstract!Next
  <2>7. Head(todo[t]) # "get"
    <3>1. /\ Head(<<"update">>) = "update" /\ Head(<<"set">>) = "set"
          /\ todo[t] \in {<<"update">>, <<"set">>}
      BY <1>1, <2>1, <2>2 DEF Todos, Locked
    <3> QED
      BY <3>1
  <2> QED
    BY <1>1, <2>2, <2>5, <2>6, <2>7, TodoShapes
<1>5. CASE Unlock(t)
  <2>1. /\ pc[t] = "unlock" /\ pc'[t] \in {"body", "lock"}
        /\ todo'[t] = Tail(todo[t])
        /\ \A u \in Task \ {t} : pc'[u] = pc[u] /\ todo'[u] = todo[u]
        /\ UNCHANGED <<seen, result, cell>>
    BY <1>5 DEF Unlock, Typed
  <2>2. Phase(t)' = Phase(t) /\ WorkOf(t)' = WorkOf(t) /\ SeenOf(t)' = SeenOf(t)
    BY <1>1, <2>1 DEF Phase, WorkOf, SeenOf
  <2> QED
    BY <1>1, <2>1, <2>2, OthersLookTheSame, Stutters
<1>6. CASE StoreResult(t)
  <2>1. /\ pc[t] = "store" /\ pc'[t] = "free"
        /\ result' = [result EXCEPT ![t] = answer[t]]
        /\ \A u \in Task \ {t} : pc'[u] = pc[u]
        /\ UNCHANGED <<todo, seen, cell>>
    BY <1>6 DEF StoreResult, Typed, cellVars
  <2>2. result'[t] = answer[t] /\ \A u \in Task \ {t} : result'[u] = result[u]
    BY <2>1 DEF Typed
  <2>3. result[t] = NULL /\ todo[t] = <<>> /\ answer[t] # NULL
    BY <2>1, AnswerIsThere DEF Locked, Stored, Answered
  <2>4. /\ Phase(t) = "running" /\ Phase(t)' = "finished"
        /\ WorkOf(t) = <<>> /\ WorkOf(t)' = <<>> /\ SeenOf(t)' = SeenOf(t)
    BY <1>1, <2>1, <2>2, <2>3 DEF Phase, WorkOf, SeenOf
  <2>5. \A u \in Task \ {t} :
          Phase(u)' = Phase(u) /\ WorkOf(u)' = WorkOf(u) /\ SeenOf(u)' = SeenOf(u)
    BY <1>1, <2>1, <2>2, OthersLookTheSame
  <2>6. Abstract!Finish(t)
    BY <1>1, <2>1, <2>2, <2>3, <2>4, <2>5 DEF Abstract!Finish, WorkOf, SeenOf
  <2> QED
    BY <2>6 DEF Abstract!Next
<1> QED
  BY <1>2, <1>3, <1>4, <1>5, <1>6 DEF Thread

\* Everything starts as Futures does.
LEMMA StartsNew ==
  ASSUME Forms = {}, Init
  PROVE  LInv /\ Abstract!Init
<1>1. Locked
  BY DEF Init, Locked, Stored
<1>2. IInv
  BY Starts
<1>3. \A t \in Task : Phase(t) = "new" /\ WorkOf(t) = <<>> /\ SeenOf(t) = 0
  BY DEF Init, Phase, WorkOf, SeenOf
<1>4. Abstract!Init
  BY <1>3 DEF Init, Abstract!Init, WorkOf, SeenOf
<1> QED
  BY <1>1, <1>2, <1>4 DEF LInv

LEMMA EveryStepRefines ==
  ASSUME Forms = {}, LInv, [Next]_vars
  PROVE  LInv' /\ [Abstract!Next]_(Abstract!fvars)
<1>1. IInv'
  BY Keeping DEF LInv
<1>2. CASE UNCHANGED vars
  <2>1. UNCHANGED <<pc, todo, seen, result, got, cell, holder, exited>>
    BY <1>2 DEF vars, mainVars, taskVars, cellVars
  <2>2. LInv'
    BY <1>1, <2>1 DEF LInv, Locked, Stored
  <2> QED
    BY <2>1, <2>2, OthersLookTheSame, Stutters
<1>3. CASE Next
  <2>1. ~ exited
    BY <1>3 DEF Next, Spawner, Thread, Start, Lock, ReadCell, WriteCell, Unlock, Body,
                ThunkRelease, StoreResult, FreeCopy, At
  <2>2. Typed /\ Working /\ Where /\ Outcomes /\ Locked
    BY <2>1 DEF LInv, IInv
  <2>3. LInv'
    BY <1>1, <1>3, <2>1, <2>2, LockedStep DEF LInv
  <2>4. CASE EndRequest
    <3>1. UNCHANGED <<pc, todo, seen, result, got, cell>>
      BY <2>4 DEF EndRequest, taskVars, cellVars
    <3> QED
      BY <2>3, <3>1, OthersLookTheSame, Stutters
  <2> QED
    BY <1>3, <2>2, <2>3, <2>4, SpawnerRefines, ThreadRefines DEF Next
<1> QED
  BY <1>2, <1>3

\* ImplementsFutures of module Tasks: threads, their handles and the cell's lock
\* behave as single steps of calls that run beside their spawner, each answering
\* its await once (rt_spawn_with_args, rt_await_handle, rt_mutex_get, _set, _update).
THEOREM TasksAreFutures ==
  ASSUME Forms = {} PROVE Spec => ImplementsFutures
BY StartsNew, EveryStepRefines, PTL DEF Spec, ImplementsFutures, Abstract!Spec

=============================================================================
