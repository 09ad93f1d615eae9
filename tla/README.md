# Turbo-Language: TLA+ models, model checking and proofs

This directory holds a verification development of the Turbo compiler, its runtime and
its package manager. It models the parts whose correctness depends on an order of
events or on how several passes fit together:

- in compiled programs: the ownership protocol of arrays and structs, the typed hash maps,
  channels, spawned threads and mutex cells;
- the HTTP server that compiled programs can start;
- in the compiler: `match` from the type checker to both back ends, and `defer` with every
  way out of a block, in both back ends;
- in the command line: import resolution, and dependencies with their lock file.

Each model is translated from the source. `PROJECT.json` gives, for each definition, the
lines it stands for (`map`).

`R` below is `src/turbo/crates/turbo-codegen-cranelift/runtime/turbo_rt.c` (the runtime
linked into AOT programs), `RS` is `.../turbo-codegen-cranelift/src/runtime.rs` (the
runtime of the JIT), and `expr.rs`, `stmt.rs`, `compile.rs`, `wasm_codegen.rs` are the code
generators' files beside it. `docs/` is `src/docs/`.

- [1. The system](#1-the-system)
- [2. Modules](#2-modules)
- [3. What the runs check](#3-what-the-runs-check)
- [4. Disagreements found](#4-disagreements-found)
- [5. What is proved](#5-what-is-proved)
- [6. What is not modelled](#6-what-is-not-modelled)
- [7. Plan](#7-plan)

## 1. The system

A Turbo program goes through import resolution, lexer, parser, copy-on-write rewriting,
type checker and code generator. It then runs in the compiler's own process (`turbo
run`, JIT, runtime `RS`), as an executable linked with `R` (`turbo build`, AOT), or as
WebAssembly, for which the compiler writes C. Most of the front end is a chain of
sequential functions of the source text. State that lives through many steps, and steps that interleave,
are found in the code the generator emits, in the runtime it calls, and in the command
line's work on files and clones.

| component | state it keeps | operations | what is hard | what makes it correct | module |
|---|---|---|---|---|---|
| ownership of heap values (`expr.rs`, `stmt.rs`, `array_ops.rs`, `cow_rewrite.rs`, `R` 585-801, 4707-4735) | a reference count per array and struct; at compile time, the variables of each scope | let, assignment, element and field assignment, `push`, block, call, return; `rt_retain`, `rt_release`, `rt_array_push`, `rt_array_set`, `rt_struct_cow` | long sequences of legal statements; exits from nested scopes; in-place writes that are right only without sharing | counts are exact, nothing dangles, sharing cannot be observed | `Arc` |
| channels (`R` 2820-2885) | a linked list, its mutex and condition variable | send, recv, clone of the sender | any interleaving of threads, spurious and stolen wake-ups, memory read and freed outside the lock | FIFO, exactly once, no lost wake-up, no use after free | `Channel` |
| typed hash maps (`R` 3450-3700) | an open-addressing table, counts of the values it holds, its own handle count | set, get, remove, grow, retain, release | moving entries around the end of the table; growing in the middle of a set; persistent maps against request arenas | a table is a function from keys to values; every call returns; counts are exact | `HashMap` |
| tasks and mutex cells (`R` 1432-1531, 2891-2958, `expr.rs` 680-830, `compile.rs` 2430-2560) | per task a context, a handle and a copied argument struct; per cell a value and a lock | spawn, the generated thunk, await; get, set and update under the lock | who releases which copy; a thread that outlives its request; the callback under the lock; updates lost between get and set | results delivered once, nothing freed while used, nothing left over, updates atomic | `Tasks` |
| HTTP accept loop (`R` 4353-4450, `RS`) | the shutdown flag, a slot counter, the listening socket | accept, count in, 503, spawn, signal, drain, exit | signal against `accept()`; slots on failure paths; a bounded drain | slots exact and bounded, requests in flight finish, shutdown ends | `HttpListen` |
| HTTP connection worker (`R` 3960-4348) | one read buffer, a body on the heap, the request's arena, keep-alive counters | read, parse, wait for a body, dispatch, respond, carry over | a stream cut anywhere, pipelining, buffer limits, failures half-way | each request answered as it deserves, with the bytes its client sent | `HttpConn` |
| request arenas (`R` 175-345) | one arena per thread while a request is handled | begin, allocate, end | escape of a value to something that lives longer | paired on every path; nothing that persists points into one | `HttpConn`, `HashMap`, `Tasks` |
| import resolution (`imports.rs`) | the files being loaded, the items wanted from each | resolve, expand names to a fixed point, extract | shared files against cycles; names that reach over several files | a cycle is reported exactly when there is one; an item is linked with what it was found to need | `Imports` |
| dependencies (`deps.rs`) | `turbo.lock`, `turbo_modules/`, shared clones in `.turbo-cache/` | install, update | a command killed or refused anywhere, an index that cannot be fetched, an edited manifest | what is on disk is what the lock says; an install heals what came before | `Deps` |
| `match` (`collections_control.rs`, `exhaustiveness.rs`, `control_flow.rs`, `wasm_codegen.rs`) | a chain of tests | check coverage, lower twice, run | two lowerings and one checker must agree on what a pattern means | accepted exactly when covering; the arm taken is the one meant | `Match` |
| `defer` and the ways out of a block (`expr.rs`, `stmt.rs`, `wasm_codegen.rs`) | at compile time, the deferred expressions of each open scope | block, if, while, return, `?`, break, continue, defer | nested scopes left at once; two back ends | the calls made are the ones meant, in order, none twice | `Exits` |
| watch mode (`watch.rs`), playground runner (`runner.mjs`) | child processes, slots | restart, acquire and release | file events against Ctrl-C, timeouts | — | planned |
| lexer, parser, scopes and inference, formatter, code generation of expressions, language server, sqlite, HTTP client | none between calls | functions of text | — | better reached by the repository's unit tests | — |

How they interact:

- Compiled code calls the runtime's retain, release and copy-on-write operations.
  Values stored in a typed map or a struct are counted by the same rules.
- An accept loop hands each connection to a detached worker thread and shares with it
  the slot counter (an atomic) and the shutdown flag (set by a signal handler).
- A worker installs an arena around each request. Everything allocated during the request
  lives in it, and `rt_retain` and `rt_release` skip such values. Server state that is
  meant to last is kept in maps made before the server listens. A task spawned by a
  handler gets its string argument copied with the arena detached.
- Channels, mutex cells and spawned threads are the only state that programs share
  between threads by design. Arrays and maps passed to a thread are shared by raw pointer,
  and `docs/SAFETY.md:262` leaves such races to the programmer.
- Import resolution runs before the type checker and hands it one flat list of items; it
  finds packages in `turbo_modules/`, which the package manager fills in another command.
- The type checker's coverage of a `match` is what lets a back end end its chain of tests
  with a panic (native) or with nothing (wasm).

`PROJECT.json` lists all 33 components with their status, and under `hazards` each
behaviour that is hard to test, at the line where it bites, with the properties that
would catch it.

## 2. Modules

| module | role |
|---|---|
| `Values` | abstract: arrays and structs are values |
| `Arc`, `MCArc`, `ArcProofs` | reference counts and copy-on-write; implements `Values` |
| `KeyValue` | abstract: a map is a function from keys to values |
| `HashMap`, `MCHashMap`, `HashMapProofs` | the typed map's table; implements `KeyValue` |
| `ChannelQueue` | abstract: an atomic FIFO queue |
| `Channel`, `MCChannel`, `ChannelProofs` | the list, lock and condition variable; implements `ChannelQueue` |
| `Futures` | abstract: spawned calls that run beside their spawner, and an atomic cell |
| `Tasks`, `MCTasks`, `TasksProofs` | threads, handles, the memory around them, the cell's lock; implements `Futures` |
| `HttpFlag` | the shutdown flag the next two share |
| `HttpListen`, `MCHttpListen` | accept loop, slots, signals, drain, exit |
| `HttpConn`, `MCHttpConn` | one keep-alive connection, byte for byte where it matters |
| `HttpProofs` | theorems about both |
| `Imports`, `MCImports`, `ImportsProofs` | `resolve_imports` with its recursion |
| `Deps`, `MCDeps`, `DepsProofs` | `install` and `update`, clones, the lock file, crashes |
| `Match`, `MCMatch` | a match through checker, both back ends and a run |
| `Exits`, `MCExits` | blocks with `defer` through both back ends, and a run beside the source |
| `BackEndProofs` | theorems about both |

A `*Proofs` module extends the module it is about and TLAPS, and holds only lemmas and
theorems. An `MC*` module gives the constants of a run.

### Arc and Values

`heap` maps each address to a count, a capacity and its contents. `env` is the stack
slot of each variable, with how it was bound: `local` and `mutparam` own a reference,
`param` borrows the caller's. `frames` are the blocks and calls entered, and `temp` is the
value of the expression just evaluated, with the compiler's own classification
(`expr_produces_owned_rc_temp`, `expr_result_borrows_existing_rc`). Programs are
sequences of statements over a chosen set of variables. A statement is an expression action
(`RowLit`, `Ident`, `Place`, ...) followed by a consuming one (`Let`, `Assign`,
`IndexAssign`, `FieldAssign`, `PushRow`, `ExprStmt`, a call). Leaving a scope is a step
per released local (`ReleaseLocal`), so invariants hold in the middle of it as well.
Heap shapes have depth two: arrays of integers, arrays of such arrays, and structs of
such arrays.

The refinement of `Values` reads each variable through the heap: `Seen` is what every
variable shows, `Shown` what the pending value shows, and `V` the instance of `Values`
over them. In `Values` there is no heap, and an assignment changes the variable it names
and nothing else.

The constant `Forms` adds forms of statement which the compiler handles in a way that
breaks a property. It is `{}` in the run, whose core leaves those forms out. Each
can be added to the cfg to reproduce what happens:

| form | statement | property that fails | why |
|---|---|---|---|
| `place_push` | `s.f.push(n)`, `g[i].push(n)` with room | `RefcountExact`, `NoDangling` | the statement becomes `s.f = push(s.f, n)`; `push` returns the field's own array, and the field assignment releases it before storing it again (`expr.rs:530`; plain assignment compares the pointers, `expr.rs:349`). The struct is left with a freed array (`docs/SAFETY.md:274`) |
| `return_place` | `return g[i]`, `return s.f` | `RefcountExact`, `ImplementsValues` | the reference handed out was counted by nobody (`stmt.rs:107`); the caller releases its argument and reads the result afterwards |
| `let_push` | `let b = push(a, n)` with room | `RefcountExact`, `ImplementsValues` | `docs/stdlib.md:432` says `push` returns a new array |
| `nested_set` | `g[i][j] = n` with a shared row | `RefcountExact`, `ImplementsValues` | the row is copied and the copy is not bound, or the write reaches another holder |
| `return_locals` | `return e` past locals that own values | `RefcountExact` (a leak) | `stmt.rs:104-125`; `docs/SAFETY.md:218-221` |
| `assign_same` | `a = { a }` and other owned values that are `a` itself | `RefcountExact` (a leak) | `expr.rs:349-357` |

### HashMap and KeyValue

One map over one hash function. `table` and `capacity` are the entries, `old` and
`cursor` the loop of `hashmap_gresize`, and `cursor` also the loop of `rt_hashmap_gremove`.
Each turn of these loops is a step (`CopyEntry`, `Shift`). A probe (`Find`, `Insert`)
is one operator, because nothing changes while it runs. `Insert` without a vacant slot
disables its action: that is the infinite loop of the code, seen as a deadlock and by
`CallsReturn`. `persistent` says whether the map was made at startup or in a request.
`value` holds where each value lives and its count, `mine` and `boxed` what the program
holds. `RequestBegins` and `RequestEnds` install and free the arena.

The map is used by one thread. `RS` takes a lock in each operation (RS 3182-3212), `R`
takes none, and `docs/SAFETY.md:262` leaves races in such data to the programmer.

`Forms` may contain:

- `request_value`: a handler stores a value of its own request in a map made at startup.
  The map keeps the pointer (`R` 3574) and the arena is freed; `CountsExact` fails. The
  same calls, made on the compiled `turbo_rt.c`, are reported by AddressSanitizer. The
  comment at `R` 215-220 and `docs/production-server.md:24` describe such maps as the
  place for state that lasts. The string-keyed maps copy and are not affected.
- `request_get`: a handler looks a value up in a persistent map. The value is retained into
  an optional which lies in the arena, and the code that drops the optional
  (`expr.rs:1956`) drops its contents only when its count is one, which the count of an
  arena object never is. Every such lookup leaks one reference, and `CountsExact` fails.

### Channel and ChannelQueue

Each thread has a program counter over the statements of `rt_channel_send` and
`rt_channel_recv`. A step is one statement that touches shared memory, and the allocation before
the lock and the read and free after it are steps too. `next`, `value` and `allocated`
are the malloc'd nodes, whose addresses are reused. `waiting` is the wait set of the condition variable.
A signal removes one member, and a spurious wake-up (`RecvSpurious`) removes any.
`chain` is an auxiliary variable: the nodes in list order, against which the
pointers are compared. `rt_channel_clone_sender` copies the queue pointer, so clones
are the members of `Sender`. The refinement maps the list to the abstract queue, linking a
node to the enqueueing and unlinking one to the dequeueing.

### Tasks and Futures

One thread spawns: the program's main thread, or a worker of the HTTP server in the
middle of a request. `main` is what it is doing, `arena` whether its allocations lie in a
request's arena. `count` has an entry for every block a spawn touches, per task: the
argument itself (`src`), the packed struct (`args`) and its private copy (`copy`), the
deep copy of a string (`arg`), the context (`ctx`), the handle, and a new result (`res`).
An entry is the reference count, 1 for what `malloc` gave, 0 for what is not allocated and -1
(`RT_RC_ARENA`) for what lies in the arena.

`Pack`, `CopyArguments`, `CreateThread` / `CreateFails` and `ReleaseTemporaries` are the
spawn expression; `Start` ... `FreeCopy` are `spawn_thread_fn` with the generated thunk in it:
it loads the arguments, calls the function, releases the string parameters by
type, stores the result and frees the struct. `BeginAwait` and `Join` are
`rt_await_handle`. `Lock`, `ReadCell`, `WriteCell`, `Unlock` are the steps of
`rt_mutex_get`, `_set` and `_update`; the callback of an update runs between `ReadCell` and
`WriteCell`, under the lock. `DropVariable` and `EndRequest` are the ends of the
spawner's scope and of its request, possible at any time the program may write them.

In `Futures` there is no thread, lock or memory. A call runs once, works on the cell in
single steps, and hands its outcome to its await once. An update takes effect when it
stores, a get when it reads; a get followed by a set may lose another task's update, in
`Futures` too.

`Forms` adds what the compiler accepts and the runtime does not survive:

| form | program | property that fails |
|---|---|---|
| `await_twice` | a handle is awaited twice (`R` 1522) | `NoDangling` |
| `mut_array` | the task takes an array as a `mut` parameter: the callee releases what the spawner owns | `NoDangling` |
| `temp_array` | the argument is an array that no variable holds | `NothingLeft` (a leak) |
| `drop_array` | the array's scope ends before the await | `NoDangling` |
| `reenter` | the callback of `mutex_update` uses the same mutex (`R` 2931) | `ImplementsFutures` (no such call), `AwaitReturns` |
| `request_channel` | a channel made inside a request outlives it in a task (`R` 2830) | `NoDangling` |

### HttpListen

For each server: `loop` is the accept thread's place in `rt_http_listen`, `cur` the
connection it has accepted, `active` the atomic counter, `waited` the naps of the drain.
For each connection: `conn`, the state of the socket and of the worker as the accept
loop sees it. `polling` selects the runtime. The AOT accept loop blocks in `accept()`
(`EnterAccept` and the test of the flag are separate steps); the JIT loop sleeps and
tests again. A signal is delivered to an accept thread, which leaves `accept()` with
`EINTR`, or to a worker that has not masked it yet. The names of this module carry
`Listen` where `HttpConn` has its own, because `HttpProofs` extends both; the flag that
both read is in `HttpFlag`.

### HttpConn

`mem` is the read buffer cell by cell, cells past `buf_len` included, since `strstr`
stops at a NUL and not at `buf_len`. A cell stands for a stretch of bytes that the parser treats
alike. The client sends a script of requests. `Read` takes any number of
the cells that have arrived. `Answer` records each response, which `AnsweredAsSent`
compares with the script. `500`, the failure of a write and of an allocation are
actions. Routing and wording are left out: a dispatched request is answered 200. `Orderly`
names the scripts of clients that send well-formed requests (`WellFormed`) and, before one with
a Content-Length, wait until all earlier ones are answered (`Polite`).

### Imports

`layout` is what the files contain: import clauses, items, or text that does not parse. An
item has `refs`, the names that `collect_names_in_item` finds in it, and `traits`, those it
passes over: the trait an impl block implements and the bounds of type parameters
(`imports.rs` 279-311). An extern block defines no name, so nothing can want its functions. A clause names a file, a virtual standard module or nothing
that exists. `stack` is the recursion of `resolve_imports`: a frame is one call, with
the clause it is at, what it gathered from each file (`imported_files`) and the names
wanted from each (`wanted`). `loading` is the set of files being loaded, which a call
leaves when it returns. `ImportStd`, `ImportMissing`, `ImportCircular`,
`ImportUnparsable`, `ImportFile` are the branches on a clause; `Seed` starts the wanted
names and `Expand` is one round of the loop that grows them until nothing changes;
`Extract` takes the items out, drops those already taken and returns to the caller, and
`Finish` is the return of the outermost call.

### Deps

`clones` are the git clones on disk, at one of three places: a package's own directory,
a directory of the user, or the cache shared by all packages of one repository at one
commit (`.turbo-cache/<repo>@<rev>`). `target` is what `turbo_modules/<name>` is, a clone
or a link to one; git run in a link works on the clone behind it. `job` is the command in
progress: the dependency it is at and its step (`resolve`, `place`, `checkout`, `link`).
`world` is outside: commits pushed and tagged at any time, an index or a repository
that cannot be reached. A command may be killed between any two steps (`Killed`), inside
git's clone (`KilledClone`), between the removal of what is in a link's place and the link
(`KilledLink`) or while it writes the lock file (`KilledWrite`), and gives up with `exit(1)` on
what the code refuses (`PathMissing`, `EndRefused`); the lock file is written once, at the end. Between commands the user edits the manifest.

A clone records the commits at which its history is cut, because `install` clones and
fetches with depth 1 and git refuses what lies beyond. That is why an update can fail for
ever, see section 4.

### Match

A program of the model is the declarations of its enums and one `match`: a subject kind
(an enum, `int`, `str`, `bool`, a result, an optional) and arms of every pattern kind,
guarded or not. `Check` is `check_match` with the coverage it collects. `CompileNative`
is `compile_match`; `CompileWasm` is `emit_match_expr` and, for a match in statement
position, `emit_stmt_match`. Each turns the arms into `chain`, a sequence of
tests on the subject's tag or on the bare value. A back end knows a variant by its
position in the enum that declares it, and finds that enum by searching all of them in the
order a hash map gives: `Orders` has every result of such searches. Then the chain runs on
every value of the subject's type, with every outcome of the guards.

`Means` is the reference: what a pattern means by the language's documentation, without
tags or positions.

### Exits

A function is a list of numbered blocks, each with parts and perhaps a tail: calls, `defer`,
`return` with and without a value, `?`, `break`, `continue`, `if`, `while` and blocks. `BlockCode`
is what the two code generators make of one block. An instruction that leads into another
block holds its number and a context, which is all that a code generator passes down: whether
the block is native, a statement or an expression of C, and what the scopes around it have deferred
(`defer_stack`). That block's code is written out when control comes to it (`EnterBlock`,
`Branch`), so a `while` is entered again with the same context. `Compiles` is what the
back end and the C compiler refuse. The native generator emits the deferred expressions of a block
at its end and nowhere else, and nothing after an instruction that leaves; the wasm generator
writes out all open scopes before a `return` in statement position
(`emit_all_deferred_for_return`, `wasm_codegen.rs:176`) and a C statement expression for a
block in value position.

Beside the code runs the source (`Source`, `Answer`): a stack of frames, one per open block,
with the deferred expressions each has pending, and how it is being left. Its actions are the
reference, the language's meaning of `defer`: on every way out, each once, the last
first. The source moves first and waits at a condition, where the code must find it; both take the
same outcome. `meant` records with each deferred call the way its block was left, and `Runs` names the
ways on which each back end runs any.

## 3. What the runs check

| run | instance | distinct states | shows |
|---|---|---|---|
| `arc_values` | rows x, y, z; two grids and a row; two structs and a row; 4 addresses, arrays of at most 2, one block or call deep | 676,552 | counts exact, nothing dangles, refinement of `Values` |
| `channel` | 2 senders of 2 values, 2 receivers, 3 nodes | 944,040 | list, memory, wake-ups, refinement of `ChannelQueue`, delivery |
| `hashmap` | 4 keys, 2 values, table of 4 growing to 8, 4 hash functions, 2 handles | 559,422 | lookups, counts, arenas, refinement of `KeyValue`, termination |
| `tasks` | 2 spawned threads, in the main thread and in a request | 292,029 | memory of spawn and await, refinement of `Futures`, every await returns |
| `http_listen` | 1 server, 3 clients, 2 slots, 2 signals, 2 naps, both runtimes | 41,683 | slots exact, drain, shutdown, idle close |
| `http_framing` | 11 scripts of 2 to 4 requests, 7 cells of buffer, bodies of at most 4 cells, 3 requests per connection, numbers up to 50 | 5,655 | framing, arena, announced close, termination |
| `imports` | 4 files, 16,128 programs | 128,061 | cycles, completeness of what is linked |
| `deps` | 3 packages, 2 repositories, 1 commit pushed to each, 3 commands, 6 manifests | 3,457,988 | lock and disk agree, an install heals, pins are kept |
| `match` | at most 3 arms, six kinds of subject, enums in three declarations | 379,692 | coverage exact, both back ends take the arm meant |
| `exits` | three nested blocks, every way out, both back ends, 5 free conditions | 494,267 | code and source in step, the calls made are the ones meant |
| `http_shutdown_lost`, `http_stale_bytes` | one property each | — | the findings of section 4 |

Every property of a passing run has a mutant in `PROJECT.json`: a one-line bug in a mapped
definition which makes TLC find that property violated.

The properties, by module (each is stated in a comment in its module):

- `Arc`: `TypeOK`; `RefcountExact` — each count equals the number of places that own a
  reference, also in the middle of a scope exit; `NoDangling` — borrowed parameters and
  pending values included; `ImplementsValues` — sharing cannot be observed.
- `Channel`: `TypeOK`; `OneOwner` — no use after free, double free or leak;
  `NoLostWakeup`; `ImplementsQueue` — which also gives FIFO per sender and exactly-once
  delivery; `ValueServed` — a receiver does not sleep for ever while a value is queued.
- `HashMap`: `TypeOK`; `LookupsAgree` — a probe finds exactly what the map holds, in the middle of a
  growth or a removal too; `CountsExact` — counts, and no pointer into an arena that is gone;
  `ImplementsMap`; `CallsReturn`.
- `Tasks`: `TypeOK`; `NoDangling` — whatever the spawner, its request or a thread is about
  to use is allocated; `NothingLeft` — an awaited task leaves its result and nothing else;
  `ImplementsFutures`; `AwaitReturns`.
- `HttpListen`: `ListenTypeOK`; `SlotsExact` — with the cap; `InFlightFinish` — an exit before the drain
  window is over cuts no request off; `ShutdownOrClient` — a signal ends the JIT server, and the AOT
  server once another client connects; `IdleCloses`.
- `HttpConn`: `TypeOK`; `AnsweredAsSent`; `CloseKept` — an announced close is kept and at most
  two requests are answered after the flag; `ArenaPaired`; `ConnEnds`.
- `Imports`: `TypeOK`; `CyclesExact` — reported exactly when there is one; `Linked` — a name
  collected from a linked item, if it was in scope there, is defined in the result, and no name
  is defined twice; `SiblingsLinked`, the same for every name an item mentions, is what a
  comment claims, fails, and is in no run (section 4).
- `Deps`: `Pinned` — after a clean command every package is at its locked commit, in a
  clone of its repository, at its place; `Heals` — an undisturbed install is clean, whatever was
  killed before; `KeepsLocked` — install moves no package that only the lock pins.
- `Match`: `TypeOK`; `ExhaustiveExact` — accepted exactly when the patterns fit and cover;
  `ArmMeant` — the arm taken is the first that means the value and whose guard holds.
- `Exits`: `RunsAsMeant` — a finished run made the source's calls, in order and each once, and
  returned its value; missing are exactly the deferred expressions of blocks left in a way on
  which the back end runs none; `InStep` — the code comes to the source's conditions and no
  others, with the same calls made by then.

### Bounds, and why they are enough

- *Channel.* Two senders and two receivers are the fewest with every race: a sender
  against a sender at the tail, receivers that steal a wake-up from each other. Three nodes for
  up to four sends force addresses to be reused. The safety properties are also
  proved for any number of threads and nodes, so no bound limits them.
- *Arc.* An object can be held by a variable, a container, a call, a pending value
  and the frame being left. Three names and one level of nesting produce every pair of
  these at once. Four addresses let an object, its copy, its container and the
  container's copy exist together, and are reused after a release. `MaxLen` 2 has arrays
  with and without room and with two references to one row. Capacities above `MaxLen`
  are capped, since they are only compared with lengths.
- *HashMap.* The real initial capacity is 16; the code depends on it only through
  the load factor and the modulus, so 4 keeps both. Four keys force one growth, in the middle
  of which a set is pending; no second growth is needed, since the code of one does
  not depend on how many came before. The hash
  functions make probes collide, wrap around the end of the small table, and keep
  together or separate keys in the large one.
- *Tasks.* Tasks share only the cell and the spawner; two are the fewest that race for
  the lock and lose an update. Each has every kind of argument, answer and work. The
  safety properties and the refinement are proved for any number of tasks.
- *HttpListen.* Two slots and three clients reach the cap with a client to refuse and a
  client after it. Two signals cover one delivered before and one during the drain. `DrainTicks`
  2 instead of 200 naps of 50 ms: the drain either outlasts the workers or it does not.
- *HttpConn.* Seven cells hold one request and part of the next. The scripts reach
  every branch: heads that fill exactly the buffer, less and more of it, a head with its body that fills it
  exactly and one cell more, bodies in the buffer and on the heap, a bad length, one over the
  cap and one over `LLONG_MAX` (50 in the model), no request line, and `Connection: close`,
  most of them after an earlier request, so that old cells are in the buffer.
- *Imports.* Four files are the fewest with a diamond and a cycle beside it. The layouts
  combine import clauses in every order with missing and unparsable files, a name reached
  over two files and one defined twice. `CyclesExact` is proved for any finite set of files.
- *Deps.* A command treats the dependencies in order and packages meet only in a shared
  clone and in the lock file, so two to three are enough. One pushed commit per repository
  makes a lock stale; three commands are a disturbed one, an edit, and one that must heal.
  A manifest of the instance does not change a package's repository and does not turn a
  link into a clone: section 4 says what happens then. For every set of manifests like that
  the three properties are proved.
- *Match.* Three arms have an arm before and one after any arm. Two enums suffice for
  a search that finds the wrong one. Both safety properties are proved for every set of
  programs.
- *Exits.* Leaving one block can skip what its parent or its grandparent defers, so three
  nested blocks show each combination; deeper nesting repeats the middle one. The first
  five conditions of a run are free, then all are false, which ends the loops. Both
  properties are proved for every set of functions and any number of conditions.

Deadlock is checked in `arc_values` and `hashmap`. The other systems may stop: a channel
with nothing to receive, a process that has exited, a closed connection, a compiled match, a command
that ended.

### Fairness

- `Channel`: weak fairness of each thread inside a send or a receive it has begun: a
  runnable thread is scheduled, and a thread that waits for the lock retries. Nothing
  obliges the program to call send or recv, and no spurious wake-up has to happen.
- `Tasks`: weak fairness of each spawned thread, strong fairness of taking the cell's lock
  (the operating system does not starve a thread that keeps asking), and weak fairness of
  a join whose thread has ended. Nothing obliges the program to await.
- `HttpListen`: weak fairness of each accept thread and each worker. A read ends by
  itself because the worker sets a receive timeout on its socket. A handler may never
  return (`Respond` and `Request` are not fair), and clients and signals are free.
- `HttpConn`: weak fairness of the worker. Here the handler is assumed to return, since
  what is asked is whether the connection's own loop ends.
- `HashMap`: weak fairness of the internal steps: a call that has begun runs on.
- The others have no liveness property: when a program or a user takes the next step is
  not the code's business.

## 4. Disagreements found

Two are `violation` runs, with the sentence they contradict under `findings` in `PROJECT.json`.

1. `http_shutdown_lost`. A signal between the test of the flag and `accept()` (`R`
   4388) leaves the server in `accept()` until another client connects.
   `ShutdownOrClient` shows that the JIT loop does not have this window and that one more
   client is enough.
1. `http_stale_bytes`. After a response the buffer's rest is moved to the front without
   a terminator (`R` 4317-4322), so a pipelined request that is cut inside its
   `Content-Length` is parsed from the bytes of the one before it and refused.

The `Forms` of section 2 are disagreements too, each reproduced by naming it in a cfg.
What follows was met while modelling; where a module reproduces it, the module is named.

*HTTP.* With two servers in one program (`Server = {a, b}` in `HttpListen`),
`InFlightFinish` fails, because `exit(0)` on the accept thread of one server (`R` 4446)
cuts off the workers of the other.

*Dependencies* (`Deps`; add the manifests to `MCManifests`):

- A package that changes from `subdir` to its repository's root, or from `path` to `github`,
  keeps its link, and `git checkout` in it moves the clone behind the link: another
  package's shared clone, or the user's own directory. `Pinned` fails.
- When the manifest names another repository than before, the existing clone is kept, in which
  the commit is not found. No later install puts it right: `Heals` fails.
- `update` of a bare GitHub dependency runs `git pull --ff-only` (`deps.rs:1142`,
  `docs/packages.md:55-57`). A copy of the project installed from its lock file has a shallow
  clone whose history is cut at the locked commit, and the pull refuses for ever.
  `UpdateReaches`, which no run checks, states what the documentation says and fails.
- Read but not checked: `install` of a `version` dependency ignores the lock
  (`README.md:445`); a short hash as `rev` cannot be fetched at depth 1; a branch as `rev`
  never moves; the index's `subdir` is applied even when `[registries]` overrides the repository.

*Match.* Coverage is collected from the patterns alone, so an arm counts although its
guard may fail (`collections_control.rs:489`; `docs/GETTING-STARTED.md:254`). A match
whose arms are all guarded is accepted; when no guard holds, native code panics and a wasm
statement goes on silently (`ArmMeant` allows both and says that a guard is the reason).
`ArmMeant` is about `Plain` programs: variant names that two enums share, a binding named
like a variant, and `V()` on an enum without data are compiled by whichever enum the search
meets first.

*Defer.* `design/DEVX-IMPROVEMENTS.md:803` says a deferred expression "runs when function
exits, no matter what", and `wasm_codegen.rs:2668` calls emitting them before a return
"matching Cranelift semantics". The native back end runs none before `return`, `?`, `break`
or `continue` (`expr.rs` 231-264, `stmt.rs` 103-130); the wasm back end none before `break`,
`continue` and a `return` in value position. `Runs` in `Exits` lists the ways out on which
each back end runs any, and `RunsAsMeant` says that nothing else is missing. Two more: on wasm a
`return e` inside a statement `if` or `while` of a function with a value is written
`return;`, which the C compiler refuses; and a bare `return` takes the expression that
follows as its value (`turbo-parser/src/lib.rs` 1128-1140), so that the program of the test
`defer_fires_before_early_return` returns what it means to print.

*Imports.* The comment above `collect_names_in_item` (`imports.rs` 274-276) says that every
name referenced in an item's signature and body is collected, so that `resolve_imports` pulls
in the siblings it depends on. The trait of an impl block (300-311) and the bounds of type
parameters (279-287) are not. A file that imports only `S` from one with `trait Show`,
`struct S` and `impl Show for S` links the impl without its trait, and the type checker
refuses the program with E0304 (`type_check/mod.rs` 784-790). `Linked` is about the collected
names and holds; `SiblingsLinked`, which no run checks, says what the comment does and fails:
in `MCImports.cfg`, take `Layouts <- TraitLayouts` and `SiblingsLinked` as the invariant.
Functions of an extern block define no name in `item_def_name` (322-337) and cannot be
wanted either.

Private helpers of two files that share a name: the first wins silently. A
struct with an `impl` that is imported on two ways keeps the `impl` twice, which the type
checker refuses. Closures and spawn thunks are keyed by the offset of their text
(`expr.rs:1211`, `expr.rs:722`, `closures.rs:251`), and offsets of different files collide in one
linked module (`compile.rs:1522`).

## 5. What is proved

Every theorem is about the specification with no bound on its constants, from the
assumptions the modules name.

| module | theorem | statement |
|---|---|---|
| `ChannelProofs` | `TypeCorrect` | `Spec => []TypeOK` |
| | `ListIntact` | `Spec => [](LockDiscipline /\ WellLinked /\ OneOwner)` |
| | `WakeupsSuffice` | `Spec => []NoLostWakeup` |
| | `ChannelIsQueue` | `Spec => ImplementsQueue` |
| `ArcProofs` | `TypeCorrect` | `Forms = {}` gives `Spec => []TypeOK` |
| | `CountsExact` | ... `Spec => []RefcountExact` |
| | `NothingDangles` | ... `Spec => []NoDangling` |
| | `ArcIsValues` | ... `Spec => ImplementsValues` |
| `TasksProofs` | `TypeCorrect` | `Forms = {}` gives `Spec => []TypeOK` |
| | `NothingDangles` | ... `Spec => []NoDangling` |
| | `NothingRemains` | ... `Spec => []NothingLeft` |
| | `TasksAreFutures` | ... `Spec => ImplementsFutures` |
| `HashMapProofs` | `TypeCorrect` | `Spec => []TypeOK` |
| | `LookupsAlwaysAgree` | `Spec => []LookupsAgree` |
| | `TableIsMap` | `Spec => ImplementsMap` |
| | `CountsAlwaysExact` | `Forms = {}` gives `Spec => []CountsExact` |
| `HttpProofs` | `ListenTypeCorrect` | `ListenSpec => []ListenTypeOK` |
| | `SlotsAreExact` | `ListenSpec => []SlotsExact` |
| | `DrainIsGraceful` | with one server, `ListenSpec => []InFlightFinish` |
| | `TypeCorrect` | `Spec => []TypeOK` |
| | `ArenasArePaired` | `Spec => []ArenaPaired` |
| | `CloseIsKept` | `Spec => []CloseKept` |
| | `FramingIsExact` | with `AllOrderly`: `Spec => []AnsweredAsSent` |
| `BackEndProofs` | `TypeCorrect` | `Spec => []TypeOK` |
| | `AcceptsExactly` | `Spec => []ExhaustiveExact` |
| | `TakesMeantArm` | `Spec => []ArmMeant` |
| | `RunsAsMeantAlways` | `ExitsSpec => []RunsAsMeant` |
| | `InStepAlways` | `ExitsSpec => []InStep` |
| `ImportsProofs` | `CyclesAreExact` | `Spec => []CyclesExact` |
| | `TypeCorrect` | `Spec => []TypeOK` |
| | `LinkedIsClosed` | `Spec => []Linked` |
| `DepsProofs` | `Agreement` | `Steady` gives `Spec => []IInv` |
| | `PinnedAlways` | `Steady` gives `Spec => []Pinned` |
| | `KeepsLockedAlways` | `Steady /\ NamedOnce` gives `Spec => KeepsLocked` |
| | `HealsAlways` | `Steady /\ NamedOnce /\ Settling` gives `Spec => []Heals` |

*Channel.* None of the invariants is inductive alone. That a receiver's
`head = next[head]` leaves a correct list needs `WellLinked`; that its node is not freed by
another thread needs `OneOwner`; that no two threads are in the list at once needs
`LockDiscipline`. The inductive invariant is their conjunction with the facts about
thread-local state: `SendLocals` and `RecvLocals`, where each thread's `node` points at
each program counter, and `Filled`, what the nodes in use contain. `NoLostWakeup` is proved
on top of it. It compares the length of the list with the cardinalities of two sets of
threads, so its steps use the library's facts on finite sets: linking a node adds one
to both sides, a receiver that takes a node removes one from both, a signal moves one
thread from the signalling senders to the awake receivers, and a receiver falls asleep
only on an empty list. The refinement then follows with the invariant on both sides of a
step: linking is the abstract enqueue, unlinking the dequeue, and everything else
a stutter.

*Arc.* `RefcountExact` is not inductive, for a reason in the code: whether a release
also releases what the object contains depends on the static kind of the expression, so two
references that disagree on the kind of an object would release different things. The
inductive invariant `IInv(K)` therefore takes a kind for every address (`K`), says that
variables, frames and the pending value agree with it (`Agreed`), and that containers hold
rows and rows hold integers (`Shaped`). A borrowed parameter is counted by its call
(`Params`), blocks hold nothing of their own (`Blocks`), and a borrowed
value is consumed before anything is released (`Pending`). `K` changes only at an address
that is allocated. The counting goes by one number per address, `Outer`: its count
less the slots that refer to it. Each operation of the runtime changes `Outer` in one way
whatever the heap is, the actions of the compiler are compositions of them, and `Counted`
says that `Outer` is the number of holders outside the heap. That holds between any two
releases of a scope's exit as well. `NoDangling` is read off the counts.

The refinement of `Values` needs the counts, and not only that nothing dangles: a statement
that writes in place tests its own count, and the write is unseen by the other variables
only because a count of one means that no other variable, slot or call refers to the object
(`Alone`, `AloneInside`). `Saves(T)` says that a step leaves the contents of every
live object outside `T` alone, `Clear(T, w)` that what `w` shows lies outside `T`, and then
`w` shows the same after the step. A copy is made in a free cell, which nobody shows. Each
action maps to one action of `Values`, releases and ends of scopes to `Leave` or a stutter.

*Tasks.* That no block is used after it is freed cannot be shown by looking at one block's
last release: who releases last depends on the order of spawner, request and thread. The
invariant instead gives the exact count of every block of a task as a function of the two
places it depends on (`CountsOf`): for example a copied string has one reference while the
callee or the thunk still owes a release, and one more when it is the answer. With the
facts on where the spawner may be (`Where`), what is left to do (`Working`) and what was
answered (`Outcomes`) it is inductive, and both `NoDangling` and `NothingLeft` are read
off the counts. The refinement adds `Locked`: whoever works on the cell holds its lock,
so an update's new value is still the cell's plus one when it is stored. `Forms = {}` is the
assumption that the program avoids the forms of section 2.

*HashMap.* `Reach` is the probe invariant. Between calls, and while a table is copied, every
slot that a probe for an entry passes before it comes to the entry is occupied (`Chained`).
While a removal moves entries one vacant slot, the hole, may be passed, but only by entries
that the cursor has not come to (`ChainedBut`): a turn of the loop either leaves the entry in
its slot, and then its probe does not pass the hole, or puts it into the hole, and then its
own slot is the hole (`HoleMoves`); at the first vacant slot after the cursor the hole matters
to nobody (`HoleCloses`). `Load` says that a set under way always has room for the entries
still to be copied and for its own, so that the probes for a vacant slot end; it is why the
table grows before the key is looked up, and it needs a capacity of at least two. `WrapIs`
turns the code's remainders into distances, and from there on everything is linear. The
refinement follows from what each step does to the set of entries, wherever they lie
(`Rows`). `Refs` adds the counts; what a step does to the number of slots that hold a value
(`EntriesKept`, `EntriesStored`, `EntriesRemoved`, `EntriesDropped`) is compared with what it
does to that value's count. `Forms = {}` leaves out the two forms of section 2 that the code
does not handle.

*HttpListen.* `SlotsExact` says that the counter is the number of workers plus the slot
the accept loop is about to hand over. The inductive invariant adds what the accept loop
has in hand at each place (`InHand`), that it counts in only below the cap
(`RoomToSpawn`), and that an exit before the last nap found the counter at zero
(`ExitedEmpty`), from which `InFlightFinish` follows when the exiting server is the only one.

*HttpConn.* The invariant says that the buffer's counters lie within it (`Measured`), how
many requests remain (`Counting`, `CountingDown`), and that an arena is installed exactly
between dispatch's begin and end. `ScriptAssumption` says what a client may send.

Framing has an invariant of its own, `Frame`. `Split`: what the buffer (or the heap, for a body
too large for it) and the wire still hold is the unanswered requests of the script one after
the other. `Stale`: a Content-Length that `strstr` can still reach beyond `buf_len` belongs to
an answered request that fitted the buffer, so a head that only such leftovers complete seems
to want more bytes than have arrived, and the worker reads on instead of answering; and
when the request at hand has a Content-Length itself, nothing stale lies behind it. `Behind`
and `TagsFirst` give the latter: that request waited until all earlier ones were
answered. That is the hypothesis `AllOrderly`; TLC evaluates it on the scripts of `http_framing` (`PlainIsOrderly`), and
`http_stale_bytes` shows what a client that does not wait gets.

*Match.* A back end's chain is related to the arms it was made from (`ChainFaithful`):
entry *i* passes exactly on the values arm *i* means. Positions come from a search, so
this needs that the names in an enum differ and, for `ArmMeant`, that the program is
`Plain`. `Passed` says that every arm before the one at hand did not suit.

*Exits.* A simulation of the source by the code. `RestOf` is the code a frame has still to run
when the source stands at a part, `Over` and `Beneath` chain these below the frames of the
stack, down to the return that ends the function, and `Goal` says that the code is at that
place with the calls of the source made. Each step of the source leads from a `Goal` to a
`Goal` with none or one step of the code (`ActStep`, `DeferStep`, `ReturnStep`, `LeaveStep`,
`BlockStep`, `CleanupStep`, `EndStep`, `LoopStep`), and so does a condition (`AnswerStep`). The two
parts of the hazard are in the frames: `Settled`, that what a frame has pending is what the
code generator had pushed by that part, and `Alive`, that native code reaches it; a
frame below that is not alive stands over a block that never falls off its end (`LowerOK`).
The code lags behind the source, so the invariant `ExitsInv` says that it is on the way
to the `Goal`. What is on the way is defined without recursion: `Reach` is membership in
every set of states that holds the end and is closed backwards under the code's own steps.
`Stuck` stands for code that goes no further, in a program that would not compile or
with a `break` outside a loop, which the type checker refuses (E0507); then nothing is left to
show. At a condition the code takes no step of its own, so there it is at the `Goal`. TLC cannot
evaluate `ExitsInv`, whose `Reach` ranges over all states; its proof alone checks it.

*Imports.* Two halves. The files on the stack lie on one path of the import graph
(`Calls`, `OneWay`), so a clause that leads back to one of them closes a cycle. And when a call
returns, nothing its file leads to lies on a cycle (`Passed`): what it imports was
resolved by calls that returned, or is a file on the stack, which would have been reported.
`Loading` connects the set the code keeps with the stack.

`Linked` has an invariant of its own, `LinkInv`: what each call has gathered is `Closed` (every
name collected from an item and in its scope is defined beside it) and answers the clauses passed
(`Answered`), and nothing is left to route when a call extracts (`Routed`). `ResolvedIs` says
that what a call returns is then closed as well. Extraction and deduplication are loops,
recursive functions in the model: the library's induction takes an operator and cannot be
used, so `UpTo` takes a set of numbers instead and finds the least number outside it, and
`Iterated` makes the function of a loop from its step. `WrittenAssumption` says that
`Item.file` is the file an item stands in.

*Deps.* What a command may rely on is what some earlier one, for some other manifest and with
or without the index, left behind: `Targets` says that every target was made by a line of some
`Setting`, `Cloned` that a clone is at a commit of its origin. With `Steady` (a package
with a clone of its own is in no manifest a path or a link into a clone of the same repository)
git then works either in the package's own clone or in a clone of another repository, where
the commit cannot be fetched (`InstalledIs`). `Walk` says what a command knows at each step,
`Progress` that the lines behind it are settled, and `Pinned` is `Progress` at the end of the
walk. `Excused` and `Keeping` come on top of it: what an undisturbed install skipped has no
commit (`Settling`: the right clone is there), and entries for branches stay. The hypotheses
are about the manifests a user writes; TLC evaluates them on the instance, and
section 4 says what happens without them.

Only model-checked:

- liveness under fairness (`ValueServed`, `AwaitReturns`, `CallsReturn`, `ShutdownOrClient`,
  `IdleCloses`, `ConnEnds`) and everything with `ENABLED`: out of the prover's reach;
- `Arc` with forms of statement in `Forms`: the theorems are about the core forms, and
  section 2 says what each other form breaks.

## 6. What is not modelled

- String-keyed maps (the table algorithm is that of `HashMap`, and the values are strings
  the map owns).
- In `Arc`: closures, enums, loops, strings' in-place concatenation, and
  expressions that assign inside an operand (`g[i] = { g = ...; e }`). Shadowing a name in
  one scope is left out as well.
- In `Tasks`: more than one cell (they do not interact), `rt_mutex_clone` and
  `rt_mutex_drop` (no generated code calls them), the JIT's boxed join handle.
- In `Deps`: refused names, a checkout killed between its files, a partial clone, a directory
  removed only in part.
- In `Exits`: `for` loops, which both back ends lay out like `while`, and the release of
  locals.
- In `Match`: what a pattern binds, the types of bodies.
- Memory ordering weaker than sequential consistency: shared data is under a lock, an
  atomic counter with its default order, or a `volatile sig_atomic_t` flag that is polled.
- Out of memory, except where the code goes on after it (`SpawnFail`, `HeapBodyFail`,
  `Begin`, `CreateFails`): elsewhere the process exits.
- The sequential parts: lexer, parser and type inference, the formatter, the language
  server, the wasm back end's expressions, sqlite and the HTTP client: functions of their
  input or thin wrappers.
- Watch mode and the playground runner: planned. The latter reads a child's pipes only
  after it exits, so a program that prints more than a pipe holds is reported as timed out.
- Widths of integers, but for the length `strtoll` reads (`LongMax`): the counters of the
  modelled parts stay far below them.

## 7. Plan

Done: `Arc`, `Channel`, `Tasks`, `HashMap`, `HttpListen`, `HttpConn`, `Match`, `Imports`,
`Deps`, `Exits` with proofs.

Next, in this order:

1. A composition of `HttpConn` workers with the slots of `HttpListen`: a worker's path
   through `HttpConn` is one of those `HttpListen` allows.
2. `Watch` (`watch.rs`: file events, Ctrl-C, the child) and `RunSlots` (`runner.mjs`: slots,
   429, a timeout of 5 s against the proxy's 6 s, slots given back on every path).
3. The positions that `cow_rewrite.rs` treats as statements, as operators with a
   reference definition.
