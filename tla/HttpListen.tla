------------------------------ MODULE HttpListen ------------------------------
(***************************************************************************)
(* The HTTP server of the runtime: rt_http_listen's accept loop, the       *)
(* connection slots it hands to detached worker threads, the shutdown flag *)
(* its signal handler sets, and the drain that ends in exit(0).            *)
(*                                                                         *)
(* A program may listen on several servers, each from a thread of its own; *)
(* they share one flag and one process.  What a worker does with the bytes *)
(* of its connection is module HttpConn; here a worker is between          *)
(* requests, handling one, or tearing down.                                *)
(*                                                                         *)
(* polling = FALSE is the AOT runtime (turbo_rt.c): accept() blocks, and a *)
(* signal delivered to the thread that blocks in it makes it return EINTR. *)
(* polling = TRUE is the JIT runtime (runtime.rs): accept() does not       *)
(* block, and the loop sleeps 50 ms and looks at the flag again.           *)
(*                                                                         *)
(* Not modelled: I/O errors of accept other than EINTR (the loop goes on), *)
(* and the wall clock: DrainTicks counts the 50 ms naps of the drain.      *)
(***************************************************************************)
EXTENDS Integers, FiniteSets, HttpFlag

CONSTANTS
  Server,       \* the servers the program listens on
  Conn,         \* the connections clients open
  MaxConn,      \* http_config("max_connections")
  DrainTicks,   \* bound: naps of the drain loop before it gives up
  MaxSignals,   \* bound: how many SIGTERM or SIGINT are sent
  Runtimes,     \* the values of polling: TRUE for the JIT runtime, FALSE for AOT
  None

ASSUME ConnAssumption == None \notin Conn /\ IsFiniteSet(Conn)
ASSUME ServerAssumption == None \notin Server
ASSUME LimitAssumption == /\ MaxConn \in Nat \ {0}
                          /\ DrainTicks \in Nat
                          /\ MaxSignals \in Nat
                          /\ Runtimes \subseteq BOOLEAN

VARIABLES             \* and shutdown, from HttpFlag
  polling,    \* the runtime the process runs on; it never changes
  signals,    \* how many signals were sent
  loop,       \* where the accept thread of each server is
  cur,        \* the connection accept() returned to it
  active,     \* srv->active_connections
  waited,     \* naps taken by the drain loop
  conn,       \* what became of each connection
  home,       \* the server each connection is to
  exited      \* the server whose accept thread called exit(0), or None

listen_vars == <<polling, shutdown, signals, loop, cur, active, waited, conn, home, exited>>

\* A worker owns a slot from the moment its thread exists until it gives the
\* slot back as its last statement.
InRequest == {"busy", "keep", "last"}
Slotted == {"fresh", "top", "reading", "closing", "closed"} \cup InRequest
Unserved == {"absent", "queued", "accepted"}
Ended == {"done", "refused", "dropped"}

Workers(s) == {c \in Conn : home[c] = s /\ conn[c] \in Slotted}

\* Init is the state in which every server listens and its signal handler is
\* installed; a signal before that ends the process at once.
ListenInit ==
  /\ polling \in Runtimes
  /\ shutdown = FALSE
  /\ signals = 0
  /\ loop = [s \in Server |-> "test"]
  /\ cur = [s \in Server |-> None]
  /\ active = [s \in Server |-> 0]
  /\ waited = [s \in Server |-> 0]
  /\ conn = [c \in Conn |-> "absent"]
  /\ home \in [Conn -> Server]
  /\ exited = None

Running == exited = None

Goto(s, from, to) ==
  /\ Running
  /\ loop[s] = from
  /\ loop' = [loop EXCEPT ![s] = to]

Move(c, from, to) ==
  /\ Running
  /\ conn[c] = from
  /\ conn' = [conn EXCEPT ![c] = to]

-----------------------------------------------------------------------------
(* Mutants: none is part of the specification. *)

\* pthread_create fails and the slot is not given back.
SpawnFailKeepsSlot(s) ==
  /\ Goto(s, "spawn", "test")
  /\ conn' = [conn EXCEPT ![cur[s]] = "dropped"]
  /\ cur' = [cur EXCEPT ![s] = None]
  /\ UNCHANGED <<polling, shutdown, signals, active, waited, home, exited>>

\* The worker gives its slot back while it still has a response to write.
DispatchReleases(c) ==
  /\ Move(c, "busy", "closed")
  /\ active' = [active EXCEPT ![home[c]] = @ - 1]
  /\ UNCHANGED <<polling, shutdown, signals, loop, cur, waited, home, exited>>

\* The drain loop forgets its deadline.
DrainExitOnlyEmpty(s) ==
  /\ active[s] = 0
  /\ Goto(s, "drain", "exit")
  /\ exited' = s
  /\ UNCHANGED <<polling, shutdown, signals, cur, active, waited, conn, home>>

\* No receive timeout is set: a read waits for its peer for ever.
ReadEndNever(c) == Move(c, "reading", "closing") /\ FALSE /\ UNCHANGED listen_vars

\* Without memory for its buffer the worker gives its slot back at once, and
\* then again where every worker ends.
BeginReleasesTwice(c) ==
  \/ /\ Move(c, "fresh", "top")
     /\ UNCHANGED <<polling, shutdown, signals, loop, cur, active, waited, home, exited>>
  \/ /\ Move(c, "fresh", "closed")
     /\ active' = [active EXCEPT ![home[c]] = @ - 1]
     /\ UNCHANGED <<polling, shutdown, signals, loop, cur, waited, home, exited>>

-----------------------------------------------------------------------------
(* Signals *)

\* The kernel runs the handler on the accept thread of s.  Blocked in accept()
\* it comes back with EINTR; anywhere else only the flag is set.
SignalAcceptThread(s) ==
  /\ Running
  /\ signals < MaxSignals
  /\ signals' = signals + 1
  /\ shutdown' = TRUE
  /\ loop' = IF loop[s] = "accept" THEN [loop EXCEPT ![s] = "test"] ELSE loop
  /\ UNCHANGED <<polling, cur, active, waited, conn, home, exited>>

\* A worker that has not masked the signals yet may get it instead; so may any
\* worker of the JIT runtime, which masks nothing.
SignalWorker(c) ==
  /\ Running
  /\ signals < MaxSignals
  /\ conn[c] = "fresh" \/ (polling /\ conn[c] \in Slotted)
  /\ signals' = signals + 1
  /\ shutdown' = TRUE
  /\ UNCHANGED <<polling, loop, cur, active, waited, conn, home, exited>>

-----------------------------------------------------------------------------
(* rt_http_listen *)

\* while (!g_http_shutdown): leaving the loop closes the listening socket, and
\* the connections still in its backlog with it.
TestFlag(s) ==
  /\ \/ ~ shutdown /\ Goto(s, "test", "enter") /\ conn' = conn
     \/ /\ shutdown /\ Goto(s, "test", "drain")
        /\ conn' = [c \in Conn |-> IF home[c] = s /\ conn[c] = "queued"
                                     THEN "dropped" ELSE conn[c]]
  /\ UNCHANGED <<polling, shutdown, signals, cur, active, waited, home, exited>>

\* AOT: the thread enters the accept system call.
EnterAccept(s) ==
  /\ ~ polling
  /\ Goto(s, "enter", "accept")
  /\ UNCHANGED <<polling, shutdown, signals, cur, active, waited, conn, home, exited>>

\* JIT: accept() would block, so the thread naps and tests the flag again.
Nap(s) ==
  /\ polling
  /\ \A c \in Conn : ~ (home[c] = s /\ conn[c] = "queued")
  /\ Goto(s, "enter", "test")
  /\ UNCHANGED <<polling, shutdown, signals, cur, active, waited, conn, home, exited>>

Accept(s) ==
  /\ Goto(s, IF polling THEN "enter" ELSE "accept", "count")
  /\ \E c \in Conn :
       /\ home[c] = s /\ conn[c] = "queued"
       /\ conn' = [conn EXCEPT ![c] = "accepted"]
       /\ cur' = [cur EXCEPT ![s] = c]
  /\ UNCHANGED <<polling, shutdown, signals, active, waited, home, exited>>

\* atomic_fetch_add, and the comparison with the value it returned.
CountIn(s) ==
  /\ Goto(s, "count", IF active[s] >= MaxConn THEN "overload" ELSE "spawn")
  /\ active' = [active EXCEPT ![s] = @ + 1]
  /\ UNCHANGED <<polling, shutdown, signals, cur, waited, conn, home, exited>>

\* Over the cap: give the slot back, answer 503 and close.
Overload(s) ==
  /\ Goto(s, "overload", "test")
  /\ active' = [active EXCEPT ![s] = @ - 1]
  /\ conn' = [conn EXCEPT ![cur[s]] = "refused"]
  /\ cur' = [cur EXCEPT ![s] = None]
  /\ UNCHANGED <<polling, shutdown, signals, waited, home, exited>>

Spawn(s) ==
  /\ Goto(s, "spawn", "test")
  /\ conn' = [conn EXCEPT ![cur[s]] = "fresh"]
  /\ cur' = [cur EXCEPT ![s] = None]
  /\ UNCHANGED <<polling, shutdown, signals, active, waited, home, exited>>

\* malloc or pthread_create fails: the slot is given back, the socket closed.
\* (The JIT runtime panics instead.)
SpawnFail(s) ==
  /\ ~ polling
  /\ Goto(s, "spawn", "test")
  /\ active' = [active EXCEPT ![s] = @ - 1]
  /\ conn' = [conn EXCEPT ![cur[s]] = "dropped"]
  /\ cur' = [cur EXCEPT ![s] = None]
  /\ UNCHANGED <<polling, shutdown, signals, waited, home, exited>>

\* One nap of the drain loop.
DrainNap(s) ==
  /\ Running
  /\ loop[s] = "drain"
  /\ active[s] > 0 /\ waited[s] < DrainTicks
  /\ waited' = [waited EXCEPT ![s] = @ + 1]
  /\ UNCHANGED <<polling, shutdown, signals, loop, cur, active, conn, home, exited>>

\* exit(0): every thread of the process stops where it is.
DrainExit(s) ==
  /\ ~ (active[s] > 0 /\ waited[s] < DrainTicks)
  /\ Goto(s, "drain", "exit")
  /\ exited' = s
  /\ UNCHANGED <<polling, shutdown, signals, cur, active, waited, conn, home>>

AcceptStep(s) ==
  \/ TestFlag(s) \/ EnterAccept(s) \/ Nap(s) \/ Accept(s) \/ CountIn(s)
  \/ Overload(s) \/ Spawn(s) \/ SpawnFail(s) \/ DrainNap(s) \/ DrainExit(s)

-----------------------------------------------------------------------------
(* handle_http_conn, seen from the accept loop *)

rest == <<polling, shutdown, signals, loop, cur, active, waited, home, exited>>

\* A new thread masks the signals and allocates its buffer; without the memory
\* it closes the socket and gives its slot back.
Begin(c) ==
  /\ \/ Move(c, "fresh", "top")
     \/ Move(c, "fresh", "closed")
  /\ UNCHANGED rest

\* The top of the loop with nothing in the buffer.
Top(c) ==
  /\ Move(c, "top", IF shutdown THEN "closing" ELSE "reading")
  /\ UNCHANGED rest

\* The bytes of a request arrive.
ClientRequest(c) ==
  /\ Move(c, "reading", "busy")
  /\ UNCHANGED rest

\* The peer closes, sends what is answered with an error, or the socket times
\* out: the read loop ends.
WorkerReadEnd(c) ==
  /\ Move(c, "reading", "closing")
  /\ UNCHANGED rest

\* Whether this response is the last one of the connection is settled before
\* the handler runs: on shutdown, at the request cap, or if the client asks.
WorkerDispatch(c) ==
  /\ \/ ~ shutdown /\ Move(c, "busy", "keep")
     \/ Move(c, "busy", "last")
  /\ UNCHANGED rest

\* The handler returns and the response is written.  A kept connection goes
\* back to the top, or straight to a request that is already buffered; a
\* failed write ends it.
WorkerRespond(c) ==
  /\ \/ Move(c, "keep", "top")
     \/ Move(c, "keep", "busy")
     \/ Move(c, "keep", "closing")
     \/ Move(c, "last", "closing")
  /\ UNCHANGED rest

\* close(fd)
CloseSocket(c) ==
  /\ Move(c, "closing", "closed")
  /\ UNCHANGED rest

\* atomic_fetch_sub is the last thing a worker does.
Release(c) ==
  /\ Move(c, "closed", "done")
  /\ active' = [active EXCEPT ![home[c]] = @ - 1]
  /\ UNCHANGED <<polling, shutdown, signals, loop, cur, waited, home, exited>>

\* What a worker does by itself, the handler's own code aside.  A read ends
\* by itself because the socket has a receive timeout.
WorkerStep(c) ==
  Begin(c) \/ Top(c) \/ WorkerReadEnd(c) \/ WorkerDispatch(c) \/ CloseSocket(c) \/ Release(c)

-----------------------------------------------------------------------------

\* A client connects: the kernel queues it while the socket listens.
Connect(c) ==
  /\ loop[home[c]] \notin {"drain", "exit"}
  /\ Move(c, "absent", "queued")
  /\ UNCHANGED rest

ListenNext ==
  \/ \E s \in Server : AcceptStep(s) \/ SignalAcceptThread(s)
  \/ \E c \in Conn : \/ WorkerStep(c) \/ ClientRequest(c) \/ WorkerRespond(c)
                     \/ Connect(c) \/ SignalWorker(c)

ListenSpec == ListenInit /\ [][ListenNext]_listen_vars

\* Every thread that can run does.  Nothing is assumed of the clients, of the
\* signals, or of the handler: it may never return.
Fairness ==
  /\ \A s \in Server : WF_listen_vars(AcceptStep(s))
  /\ \A c \in Conn : WF_listen_vars(WorkerStep(c))

FairListenSpec == ListenSpec /\ Fairness

-----------------------------------------------------------------------------
(* Properties *)

ListenTypeOK ==
  /\ polling \in Runtimes
  /\ shutdown \in BOOLEAN
  /\ signals \in 0 .. MaxSignals
  /\ loop \in [Server -> {"test", "enter", "accept", "count", "overload",
                          "spawn", "drain", "exit"}]
  /\ cur \in [Server -> Conn \cup {None}]
  /\ active \in [Server -> Nat]
  /\ waited \in [Server -> 0 .. DrainTicks]
  /\ conn \in [Conn -> Unserved \cup Slotted \cup Ended]
  /\ home \in [Conn -> Server]
  /\ exited \in Server \cup {None}

\* The counter is exact: it counts the workers that hold a slot, and the
\* connection the accept thread has counted in and not settled yet.  So the
\* workers of a server are never more than max_connections.
Counted(s) == IF loop[s] \in {"overload", "spawn"} THEN 1 ELSE 0

SlotsExact ==
  \A s \in Server :
    /\ active[s] = Cardinality(Workers(s)) + Counted(s)
    /\ Cardinality(Workers(s)) <= MaxConn

\* Graceful: when the process exits before the drain window is over, no
\* connection is in the middle of a request, on any of its servers.
InFlightFinish ==
  exited # None /\ waited[exited] < DrainTicks
    => \A c \in Conn : conn[c] \notin InRequest

\* A worker between two requests when the flag is set does not wait for its
\* client for ever: it takes one more request, or closes and gives its slot
\* back, even if the accept thread never learns of the signal.
IdleCloses ==
  \A c \in Conn :
    shutdown /\ conn[c] \in {"top", "reading"}
      ~> conn[c] \in InRequest \cup Ended \/ ~ Running

\* A shutdown signal ends the process: it stops accepting, drains for a
\* bounded time and exits, even when no client ever connects again and a
\* handler never returns.
ShutdownCompletes == shutdown ~> exited # None

\* What does hold: the JIT runtime's loop, which polls the flag, always keeps
\* that promise; the blocking loop keeps it as soon as a client connects.
ShutdownOrClient ==
  shutdown /\ (\/ polling
               \/ \A s \in Server : \E c \in Conn : home[c] = s /\ conn[c] = "queued")
    ~> exited # None

=============================================================================
