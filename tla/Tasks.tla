------------------------------- MODULE Tasks -------------------------------
(***************************************************************************)
(* Spawned threads, their handles, and the mutex cell they share (the      *)
(* runtime's rt_spawn_with_args, rt_await_handle and rt_mutex_*, and the   *)
(* code the generator emits around them).                                  *)
(*                                                                         *)
(* One thread spawns: the program's main thread, or a worker of the HTTP   *)
(* server in the middle of a request, whose allocations lie in an arena    *)
(* that is taken back when the handler returns.  Every block of memory a   *)
(* spawn touches is one object of this model; using one that is gone, or   *)
(* giving one back twice, is what NoDangling excludes.                     *)
(*                                                                         *)
(* Forms adds what the compiler accepts and the runtime does not survive.  *)
(***************************************************************************)
EXTENDS Integers, Sequences, FiniteSets

CONSTANTS
  Task,       \* the spawn expressions of the program, each run once
  Forms,      \* {} or some of AllForms
  NULL

AllForms == {"await_twice", "mut_array", "temp_array", "drop_array", "reenter", "request_channel"}
ASSUME FormsAssumption == Forms \subseteq AllForms

Role == {"src",     \* the argument's string, array or channel, made by the spawner
         "args",    \* the packed argument struct the spawner allocates
         "ctx",     \* spawn_ctx
         "copy",    \* the private copy of the argument struct
         "arg",     \* the deep copy of a string argument
         "handle",  \* the pthread_t with the pointer to ctx behind it
         "res"}     \* a value the callee makes
Object == Role \X Task

GONE  == 0     \* not allocated, or freed
ARENA == -1    \* RT_RC_ARENA: lives until the request's arena is taken back

\* spawn f(x) and the body of f.  x is a string, an array, a channel or a
\* number; its parameter may be `mut`; x may be an owned temporary or a
\* variable.  f answers its parameter, a new string, or a number, and may work
\* on the cell.
Sites ==
  LET Pure(kinds, muts, temps, answers) ==
        [kind : kinds, mut : muts, temp : temps, answers : answers, work : {<<>>}]
  IN  Pure({"str"}, BOOLEAN, BOOLEAN, {"param", "fresh", "number"})
      \cup Pure({"array"},
                IF "mut_array" \in Forms THEN BOOLEAN ELSE {FALSE},
                IF "temp_array" \in Forms THEN BOOLEAN ELSE {FALSE},
                {"param", "number"})
      \cup Pure({"channel"}, {FALSE}, {FALSE}, {"number"})
      \cup [kind : {"number"}, mut : {FALSE}, temp : {FALSE}, answers : {"number"},
            work : {<<"update">>, <<"get", "set">>}
                     \cup (IF "reenter" \in Forms THEN {<<"reenter">>} ELSE {})]

ASSUME NullAssumption == NULL \notin Task \cup Object \cup Sites \cup ({"number"} \X Int)

VARIABLES
  arena,     \* of the spawning thread: "none", "open" while it handles a request, "ended"
  main,      \* what the spawning thread is doing: its place and the task it is about
  exited,    \* the process has exited because a thread could not be created
  count,     \* the reference count of each object (1 for what malloc gave)
  site,      \* the spawn expression of each task, once it is evaluated
  pc,        \* the place of each spawned thread
  todo,      \* the operations on the cell it has still to do
  seen,      \* what its last operation on the cell answered
  answer,    \* what the callee returned, in the thunk's register
  result,    \* ctx->result
  got,       \* what the await answered
  dropped,   \* the tasks whose argument variable has gone out of scope
  cell,      \* turbo_mutex: its value
  holder     \* and the thread that holds its lock

mainVars == <<arena, main, exited, site, got, dropped>>
taskVars == <<pc, todo, seen, answer, result>>
cellVars == <<cell, holder>>
vars == <<mainVars, taskVars, cellVars, count>>

Idle == [at |-> "idle", task |-> NULL]
MainAt(place, t) == main = [at |-> place, task |-> t]
Goto(place, t) == main' = [at |-> place, task |-> t]

\* Channels and cells have the compiler's type Int: nothing counts them.
IsRc(s) == s.kind \in {"str", "array"}
IsPointer(s) == s.kind # "number"

\* What the callee receives: the deep copy of a string, the spawner's own
\* array or channel by raw pointer.
Param(t) == IF site[t].kind = "str" THEN <<"arg", t>> ELSE <<"src", t>>

Retain(c, o)  == [c EXCEPT ![o] = IF @ > 0 THEN @ + 1 ELSE @]
(* mutant: the arena's marker is counted down like a count *)
ReleaseUnchecked(c, o) == [c EXCEPT ![o] = @ - 1]

Release(c, o) == [c EXCEPT ![o] = IF @ > 0 THEN @ - 1 ELSE @]
Free(c, o)    == [c EXCEPT ![o] = GONE]
\* rt_rc_alloc in the spawning thread
Fresh == IF arena = "open" THEN ARENA ELSE 1

Init ==
  /\ arena \in {"none", "open"}
  /\ main = Idle
  /\ exited = FALSE
  /\ count = [o \in Object |-> GONE]
  /\ site = [t \in Task |-> NULL]
  /\ pc = [t \in Task |-> "none"]
  /\ todo = [t \in Task |-> <<>>]
  /\ seen = [t \in Task |-> 0]
  /\ answer = [t \in Task |-> NULL]
  /\ result = [t \in Task |-> NULL]
  /\ got = [t \in Task |-> NULL]
  /\ dropped = {}
  /\ cell = 0
  /\ holder = NULL

-----------------------------------------------------------------------------
(* The spawning thread *)

(* The arguments are evaluated and packed into a struct. *)
Pack(t) ==
  /\ main = Idle
  /\ site[t] = NULL
  /\ \E s \in Sites :
       /\ site' = [site EXCEPT ![t] = s]
       /\ count' = [count EXCEPT ![<<"args", t>>] = Fresh,
                                 ![<<"src", t>>] = IF IsPointer(s) THEN Fresh ELSE GONE]
  /\ Goto("copy", t)
  /\ UNCHANGED <<arena, exited, got, dropped, taskVars, cellVars>>

(* mutant: the arena is not detached while the string is copied *)
CopyArgumentsInArena(t) ==
  /\ MainAt("copy", t)
  /\ count' = [count EXCEPT ![<<"ctx", t>>] = 1, ![<<"copy", t>>] = 1, ![<<"handle", t>>] = 1,
                            ![<<"arg", t>>] = IF site[t].kind = "str" THEN Fresh ELSE GONE]
  /\ Goto("create", t)
  /\ UNCHANGED <<arena, exited, site, got, dropped, taskVars, cellVars>>

(* rt_spawn_with_args up to pthread_create: the context, the copy of the struct *)
(* and of a string in it, made with the arena detached, and the handle.         *)
CopyArguments(t) ==
  /\ MainAt("copy", t)
  /\ count' = [count EXCEPT ![<<"ctx", t>>] = 1, ![<<"copy", t>>] = 1, ![<<"handle", t>>] = 1,
                            ![<<"arg", t>>] = IF site[t].kind = "str" THEN 1 ELSE GONE]
  /\ Goto("create", t)
  /\ UNCHANGED <<arena, exited, site, got, dropped, taskVars, cellVars>>

CreateThread(t) ==
  /\ MainAt("create", t)
  /\ pc' = [pc EXCEPT ![t] = "start"]
  /\ todo' = [todo EXCEPT ![t] = site[t].work]
  /\ Goto("cleanup", t)
  /\ UNCHANGED <<arena, exited, site, got, dropped, seen, answer, result, cellVars, count>>

CreateFails(t) ==
  /\ MainAt("create", t)
  /\ count' = Free(Free(count, <<"ctx", t>>), <<"handle", t>>)
  /\ exited' = TRUE
  /\ UNCHANGED <<arena, main, site, got, dropped, taskVars, cellVars>>

(* After the call the spawner releases a temporary string and the struct. *)
ReleaseTemporaries(t) ==
  /\ MainAt("cleanup", t)
  /\ LET temp == IF site[t].temp /\ site[t].kind = "str"
                 THEN Release(count, <<"src", t>>) ELSE count
     IN  count' = Release(temp, <<"args", t>>)
  /\ main' = Idle
  /\ UNCHANGED <<arena, exited, site, got, dropped, taskVars, cellVars>>

Spawned(t) == site[t] # NULL /\ pc[t] # "none"
HasVariable(t) == Spawned(t) /\ IsRc(site[t]) /\ ~site[t].temp

(* The scope of the argument's variable ends.  An array is shared with the     *)
(* thread: a correct program awaits the task first.                            *)
DropVariable(t) ==
  /\ main = Idle
  /\ HasVariable(t) /\ t \notin dropped
  /\ site[t].kind = "array" /\ "drop_array" \notin Forms => got[t] # NULL
  /\ count' = Release(count, <<"src", t>>)
  /\ dropped' = dropped \cup {t}
  /\ UNCHANGED <<arena, main, exited, site, got, taskVars, cellVars>>

BeginAwait(t) ==
  /\ main = Idle
  /\ Spawned(t)
  /\ got[t] = NULL \/ "await_twice" \in Forms
  /\ Goto("join", t)
  /\ UNCHANGED <<arena, exited, site, got, dropped, taskVars, cellVars, count>>

(* mutant: the result is read without waiting for the thread *)
JoinEarly(t) ==
  /\ MainAt("join", t)
  /\ pc[t] \in {"free", "done"}
  /\ got' = [got EXCEPT ![t] = result[t]]
  /\ count' = Free(Free(count, <<"ctx", t>>), <<"handle", t>>)
  /\ main' = Idle
  /\ UNCHANGED <<arena, exited, site, dropped, taskVars, cellVars>>

(* pthread_join returns once the thread has ended; then the result is read     *)
(* and the context and the handle are freed.                                   *)
Join(t) ==
  /\ MainAt("join", t)
  /\ pc[t] = "done"
  /\ got' = [got EXCEPT ![t] = result[t]]
  /\ count' = Free(Free(count, <<"ctx", t>>), <<"handle", t>>)
  /\ main' = Idle
  /\ UNCHANGED <<arena, exited, site, dropped, taskVars, cellVars>>

Owned(v) == v \in Object
\* The handler's locals are released, and no thread uses an array or a channel
\* of the request any more.
Settled(t) ==
  /\ HasVariable(t) => t \in dropped
  /\ Spawned(t) /\ site[t].kind \in {"array", "channel"} =>
       got[t] # NULL \/ (site[t].kind = "channel" /\ "request_channel" \in Forms)

(* The handler returns, and rt_arena_end takes back what it allocated. *)
EndRequest ==
  /\ main = Idle
  /\ arena = "open"
  /\ \A t \in Task : Settled(t)
  /\ arena' = "ended"
  /\ Goto("returned", NULL)
  /\ count' = [o \in Object |-> IF count[o] = ARENA THEN GONE ELSE count[o]]
  /\ UNCHANGED <<exited, site, got, dropped, taskVars, cellVars>>

-----------------------------------------------------------------------------
(* A spawned thread: spawn_thread_fn, and the thunk it calls *)

At(t, place) == pc[t] = place /\ ~exited
Move(t, place) == pc' = [pc EXCEPT ![t] = place]

(* The thunk loads the arguments and calls the function. *)
Start(t) ==
  /\ At(t, "start")
  /\ Move(t, IF todo[t] = <<>> THEN "body" ELSE "lock")
  /\ UNCHANGED <<mainVars, todo, seen, answer, result, cellVars, count>>

(* mutant: the update runs its callback before it takes the lock *)
LockLate(t) ==
  /\ At(t, "lock")
  /\ holder = NULL \/ Head(todo[t]) = "update"
  /\ holder' = IF Head(todo[t]) = "update" THEN holder ELSE t
  /\ Move(t, IF Head(todo[t]) = "set" THEN "put" ELSE "read")
  /\ UNCHANGED <<mainVars, todo, seen, answer, result, cell, count>>

(* rt_mutex_get, rt_mutex_set and rt_mutex_update take the lock ... *)
Lock(t) ==
  /\ At(t, "lock")
  /\ holder = NULL
  /\ holder' = t
  /\ Move(t, IF Head(todo[t]) = "set" THEN "put" ELSE "read")
  /\ UNCHANGED <<mainVars, todo, seen, answer, result, cell, count>>

(* mutant: the update's callback reads the mutex again *)
ReadCellStuck(t) ==
  /\ At(t, "read")
  /\ IF Head(todo[t]) = "get"
     THEN seen' = [seen EXCEPT ![t] = cell] /\ Move(t, "unlock")
     ELSE UNCHANGED seen /\ Move(t, "lock")
  /\ UNCHANGED <<mainVars, todo, answer, result, cellVars, count>>

(* ... read the value; the callback of an update runs on it, still under the   *)
(* lock, and must not use the same mutex ...                                   *)
ReadCell(t) ==
  /\ At(t, "read")
  /\ CASE Head(todo[t]) = "get" ->
            seen' = [seen EXCEPT ![t] = cell] /\ Move(t, "unlock")
       [] Head(todo[t]) = "update" ->
            seen' = [seen EXCEPT ![t] = cell + 1] /\ Move(t, "put")
       [] Head(todo[t]) = "reenter" ->
            UNCHANGED seen /\ Move(t, "lock")
  /\ UNCHANGED <<mainVars, todo, answer, result, cellVars, count>>

(* ... store the new one ... *)
WriteCell(t) ==
  /\ At(t, "put")
  /\ cell' = IF Head(todo[t]) = "set" THEN seen[t] + 1 ELSE seen[t]
  /\ Move(t, "unlock")
  /\ UNCHANGED <<mainVars, todo, seen, answer, result, holder, count>>

(* ... and release it. *)
Unlock(t) ==
  /\ At(t, "unlock")
  /\ holder' = NULL
  /\ todo' = [todo EXCEPT ![t] = Tail(@)]
  /\ Move(t, IF Len(todo[t]) = 1 THEN "body" ELSE "lock")
  /\ UNCHANGED <<mainVars, seen, answer, result, cell, count>>

(* The function returns its parameter (retained), a new string, or a number.   *)
(* A `mut` parameter is released by the function itself.                       *)
Body(t) ==
  /\ At(t, "body")
  /\ LET s == site[t]
         kept == IF s.answers = "param" THEN Retain(count, Param(t)) ELSE count
         made == IF s.answers = "fresh" THEN [kept EXCEPT ![<<"res", t>>] = 1] ELSE kept
     IN  /\ answer' = [answer EXCEPT ![t] =
                         CASE s.answers = "param" -> Param(t)
                           [] s.answers = "fresh" -> <<"res", t>>
                           [] OTHER -> <<"number", seen[t]>>]
         /\ count' = IF s.mut THEN Release(made, Param(t)) ELSE made
  /\ Move(t, "release")
  /\ UNCHANGED <<mainVars, todo, seen, result, cellVars>>

(* mutant: the thunk leaves the copied string to the runtime *)
ThunkReleaseNone(t) ==
  /\ At(t, "release")
  /\ Move(t, "store")
  /\ UNCHANGED <<mainVars, todo, seen, answer, result, cellVars, count>>

(* The thunk releases its string parameters, those that are not `mut`. *)
ThunkRelease(t) ==
  /\ At(t, "release")
  /\ count' = IF site[t].kind = "str" /\ ~site[t].mut
              THEN Release(count, <<"arg", t>>) ELSE count
  /\ Move(t, "store")
  /\ UNCHANGED <<mainVars, todo, seen, answer, result, cellVars>>

StoreResult(t) ==
  /\ At(t, "store")
  /\ result' = [result EXCEPT ![t] = answer[t]]
  /\ Move(t, "free")
  /\ UNCHANGED <<mainVars, todo, seen, answer, cellVars, count>>

FreeCopy(t) ==
  /\ At(t, "free")
  /\ count' = Free(count, <<"copy", t>>)
  /\ Move(t, "done")
  /\ UNCHANGED <<mainVars, todo, seen, answer, result, cellVars>>

Thread(t) ==
  \/ Start(t) \/ Lock(t) \/ ReadCell(t) \/ WriteCell(t) \/ Unlock(t)
  \/ Body(t) \/ ThunkRelease(t) \/ StoreResult(t) \/ FreeCopy(t)

Spawner(t) ==
  ~exited /\ (\/ Pack(t) \/ CopyArguments(t) \/ CreateThread(t) \/ CreateFails(t)
              \/ ReleaseTemporaries(t) \/ DropVariable(t) \/ BeginAwait(t) \/ Join(t))

Next == (\E t \in Task : Spawner(t) \/ Thread(t)) \/ (~exited /\ EndRequest)

Spec == Init /\ [][Next]_vars

\* The operating system runs every thread that can run, and hands a free lock
\* to a thread that keeps asking for it.
Fairness == \A t \in Task :
  /\ WF_vars(Thread(t))
  /\ SF_vars(Lock(t))
  /\ WF_vars(~exited /\ Join(t))

FairSpec == Spec /\ Fairness

-----------------------------------------------------------------------------
(* Properties *)

Place == {"none", "start", "lock", "read", "put", "unlock", "body",
          "release", "store", "free", "done"}
Answer == Object \cup ({"number"} \X Int) \cup {NULL}

\* Types of the state of spawned threads, their memory and the mutex cell.
TypeOK ==
  /\ arena \in {"none", "open", "ended"}
  /\ main.at \in {"idle", "copy", "create", "cleanup", "join", "returned"}
  /\ main.task \in Task \cup {NULL}
  /\ exited \in BOOLEAN
  /\ DOMAIN count = Object /\ \A o \in Object : count[o] >= ARENA
  /\ \A t \in Task :
       /\ site[t] \in Sites \cup {NULL}
       /\ pc[t] \in Place
       /\ answer[t] \in Answer /\ result[t] \in Answer /\ got[t] \in Answer
       /\ Len(todo[t]) <= 2 /\ seen[t] \in Int
  /\ dropped \subseteq Task
  /\ cell \in Int /\ holder \in Task \cup {NULL}

\* The objects the next step of a spawned thread reads, writes or gives back.
ThreadUses(t) ==
  CASE pc[t] = "start" -> {<<"ctx", t>>, <<"copy", t>>}
    [] pc[t] = "body" -> IF IsPointer(site[t]) THEN {Param(t)} ELSE {}
    [] pc[t] = "release" ->
         (IF site[t].kind = "str" /\ ~site[t].mut THEN {Param(t)} ELSE {})
           \cup (IF Owned(answer[t]) THEN {answer[t]} ELSE {})
    [] pc[t] = "store" -> {<<"ctx", t>>} \cup (IF Owned(answer[t]) THEN {answer[t]} ELSE {})
    [] pc[t] = "free" -> {<<"ctx", t>>, <<"copy", t>>}
    [] OTHER -> {}

\* The objects the spawning thread uses: those of the step it is in, and the
\* variables and results it still holds.
MainUses ==
  (CASE main.at = "cleanup" -> {<<"args", main.task>>}
     [] main.at = "join" -> {<<"handle", main.task>>, <<"ctx", main.task>>}
     [] OTHER -> {})
  \cup (IF main.at = "returned" THEN {} ELSE
          {<<"src", t>> : t \in {u \in Task : HasVariable(u) /\ u \notin dropped}}
            \cup {got[t] : t \in {u \in Task : Owned(got[u])}})

\* No use after free and no double free, however the threads interleave and
\* whichever of spawner, request and thread ends first: whatever a thread is
\* about to touch is allocated.  docs/SAFETY.md:274-275 calls both impossible
\* in safe code (rt_spawn_with_args, rt_await_handle, the generated thunk).
NoDangling ==
  ~exited => \A o \in MainUses \cup UNION {ThreadUses(t) : t \in Task} : count[o] # GONE

\* A task that was awaited and whose argument is out of scope leaves nothing
\* behind but its result, held exactly once (and its channel, which nothing
\* ever frees): the context, the handle, both
\* argument structs and the copied string are all freed
\* (rt_await_handle, spawn_thread_fn and the releases in the generated thunk).
NothingLeft ==
  \A t \in Task :
    got[t] # NULL /\ main.task # t /\ (HasVariable(t) => t \in dropped) =>
      \A r \in Role :
        count[<<r, t>>] <= IF got[t] = <<r, t>> \/ (r = "src" /\ site[t].kind = "channel")
                           THEN 1 ELSE 0

\* Spawn, await and the cell are what module Futures promises: an update is
\* one step for everyone else, and an await answers what the call returned,
\* once.  rt_mutex_update takes effect when it stores, rt_mutex_get when it
\* reads.
Phase(t) ==
  CASE pc[t] = "none" -> "new"
    [] pc[t] # "none" /\ got[t] # NULL -> "taken"
    [] pc[t] # "none" /\ got[t] = NULL /\ result[t] # NULL -> "finished"
    [] OTHER -> "running"

Abstract ==
  INSTANCE Futures WITH
    NoValue <- NULL,
    phase <- [t \in Task |-> Phase(t)],
    work <- [t \in Task |-> IF pc[t] = "unlock" THEN Tail(todo[t]) ELSE todo[t]],
    seen <- [t \in Task |-> IF pc[t] = "put" /\ Head(todo[t]) = "update" THEN 0 ELSE seen[t]],
    outcome <- result

ImplementsFutures == Abstract!Spec

\* Every await returns: the thread it joins is never stuck on the cell's lock
\* (no callback of an update uses the same mutex).
AwaitReturns == \A t \in Task : MainAt("join", t) ~> ~MainAt("join", t)
=============================================================================
