------------------------------- MODULE Channel -------------------------------
(***************************************************************************)
(* The channel of the AOT runtime (turbo_rt.c, "Channel runtime"): a       *)
(* singly linked list of malloc'd nodes between a head and a tail pointer, *)
(* guarded by one pthread mutex and one condition variable.                *)
(*                                                                         *)
(* A send allocates its node before it takes the lock, links it, signals   *)
(* and unlocks.  A receive locks, re-tests the list after every wake-up,   *)
(* unlinks the first node, unlocks, and reads and frees the node outside   *)
(* the lock.  rt_channel_clone_sender copies the queue pointer into a new  *)
(* handle, so any number of threads may send on one queue: they are the    *)
(* members of Sender.                                                      *)
(*                                                                         *)
(* Node addresses are reused: a freed node may be the next one malloc      *)
(* returns.  When malloc fails the process exits, so no step follows.      *)
(***************************************************************************)
EXTENDS Integers, Sequences, FiniteSets

CONSTANTS
  Sender, Receiver,   \* the threads that call send and recv on this channel
  Node,               \* the addresses malloc can return
  NULL,               \* the null pointer; also "no thread" and "no value"
  MaxSends            \* bound: how many sends each sender makes

\* Every thread holds a handle on the one queue: a clone of the sender, or the
\* channel itself.
Threads == Sender \cup Receiver

ASSUME ThreadAssumption ==
  /\ Sender \cap Receiver = {}
  /\ IsFiniteSet(Sender) /\ IsFiniteSet(Receiver)
  /\ NULL \notin Threads
ASSUME NodeAssumption == NULL \notin Node
ASSUME ValueAssumption == NULL \notin Sender \X (Nat \ {0})
ASSUME BoundAssumption == MaxSends \in Nat

Value == Sender \X (Nat \ {0})

VARIABLES
  head, tail,   \* q->head, q->tail
  next,         \* next[n]: n->next
  value,        \* value[n]: n->value
  allocated,    \* the nodes malloc has handed out and nobody freed
  lock,         \* the owner of q->lock, or NULL
  waiting,      \* the threads asleep in pthread_cond_wait(&q->cond)
  pc,           \* where each thread is
  node,         \* the C local `node` of each thread
  sent,         \* sent[s]: how many sends of s have returned
  got,          \* got[r]: what the receives of r returned, in order
  chain         \* auxiliary: the nodes linked, oldest first

vars == <<head, tail, next, value, allocated, lock, waiting, pc, node, sent,
          got, chain>>

list == <<head, tail, chain>>      \* what the lock guards
heap == <<next, value, allocated>>

Init ==
  /\ head = NULL /\ tail = NULL
  /\ next = [n \in Node |-> NULL]
  /\ value = [n \in Node |-> NULL]
  /\ allocated = {}
  /\ lock = NULL
  /\ waiting = {}
  /\ pc = [t \in Threads |-> "idle"]
  /\ node = [t \in Threads |-> NULL]
  /\ sent = [s \in Sender |-> 0]
  /\ got = [r \in Receiver |-> <<>>]
  /\ chain = <<>>

Goto(t, from, to) ==
  /\ pc[t] = from
  /\ pc' = [pc EXCEPT ![t] = to]

Acquire(t) == lock = NULL /\ lock' = t
Unlock(t) == lock' = NULL

-----------------------------------------------------------------------------
(* Mutants: the bugs one line away from the code below.  Each breaks the     *)
(* property PROJECT.json names for it; none is part of the specification.    *)

\* node->value = value is forgotten.
SendAllocNoValue(s) ==
  /\ sent[s] < MaxSends
  /\ Goto(s, "idle", "send_lock")
  /\ \E n \in Node \ allocated :
       /\ allocated' = allocated \cup {n}
       /\ node' = [node EXCEPT ![s] = n]
       /\ next' = [next EXCEPT ![n] = NULL]
  /\ UNCHANGED <<list, value, lock, waiting, sent, got>>

\* The node is pushed in front of the list.
SendLinkAtHead(s) ==
  /\ Goto(s, "send_link", "send_signal")
  /\ next' = [next EXCEPT ![node[s]] = head]
  /\ head' = node[s]
  /\ tail' = IF tail = NULL THEN node[s] ELSE tail
  /\ chain' = <<node[s]>> \o chain
  /\ UNCHANGED <<value, allocated, lock, waiting, node, sent, got>>

\* The sender signals only when it made the list non-empty.
SendSignalFirstOnly(s) ==
  /\ Goto(s, "send_signal", "send_unlock")
  /\ IF waiting = {} \/ head # node[s]
       THEN waiting' = waiting
       ELSE \E r \in waiting : waiting' = waiting \ {r}
  /\ UNCHANGED <<list, heap, lock, node, sent, got>>

\* The node is never freed.
RecvReturnLeaks(r) ==
  /\ Goto(r, "recv_read", "idle")
  /\ got' = [got EXCEPT ![r] = Append(@, value[node[r]])]
  /\ node' = [node EXCEPT ![r] = NULL]
  /\ UNCHANGED <<list, heap, lock, waiting, sent>>

-----------------------------------------------------------------------------
(* rt_channel_send *)

\* malloc the node and fill it in, before the lock is taken.
SendAlloc(s) ==
  /\ sent[s] < MaxSends
  /\ Goto(s, "idle", "send_lock")
  /\ \E n \in Node \ allocated :
       /\ allocated' = allocated \cup {n}
       /\ node' = [node EXCEPT ![s] = n]
       /\ value' = [value EXCEPT ![n] = <<s, sent[s] + 1>>]
       /\ next' = [next EXCEPT ![n] = NULL]
  /\ UNCHANGED <<list, lock, waiting, sent, got>>

SendLock(s) ==
  /\ Goto(s, "send_lock", "send_link")
  /\ Acquire(s)
  /\ UNCHANGED <<list, heap, waiting, node, sent, got>>

SendLink(s) ==
  /\ Goto(s, "send_link", "send_signal")
  /\ IF tail # NULL
       THEN next' = [next EXCEPT ![tail] = node[s]] /\ head' = head
       ELSE head' = node[s] /\ next' = next
  /\ tail' = node[s]
  /\ chain' = Append(chain, node[s])
  /\ UNCHANGED <<value, allocated, lock, waiting, node, sent, got>>

\* pthread_cond_signal: wakes one sleeper, or nobody when nobody sleeps.
SendSignal(s) ==
  /\ Goto(s, "send_signal", "send_unlock")
  /\ \/ waiting = {} /\ waiting' = {}
     \/ \E r \in waiting : waiting' = waiting \ {r}
  /\ UNCHANGED <<list, heap, lock, node, sent, got>>

SendUnlock(s) ==
  /\ Goto(s, "send_unlock", "idle")
  /\ Unlock(s)
  /\ sent' = [sent EXCEPT ![s] = @ + 1]
  /\ node' = [node EXCEPT ![s] = NULL]
  /\ UNCHANGED <<list, heap, waiting, got>>

-----------------------------------------------------------------------------
(* rt_channel_recv *)

RecvCall(r) ==
  /\ Goto(r, "idle", "recv_lock")
  /\ UNCHANGED <<list, heap, lock, waiting, node, sent, got>>

RecvLock(r) ==
  /\ Goto(r, "recv_lock", "recv_test")
  /\ Acquire(r)
  /\ UNCHANGED <<list, heap, waiting, node, sent, got>>

\* while (q->head == NULL) pthread_cond_wait(...): sleeping and letting the
\* lock go is one step.
RecvWait(r) ==
  /\ head = NULL
  /\ Goto(r, "recv_test", "recv_wait")
  /\ waiting' = waiting \cup {r}
  /\ Unlock(r)
  /\ UNCHANGED <<list, heap, node, sent, got>>

\* POSIX lets pthread_cond_wait return with no signal.
RecvSpurious(r) ==
  /\ r \in waiting
  /\ waiting' = waiting \ {r}
  /\ UNCHANGED <<list, heap, lock, pc, node, sent, got>>

\* A woken receiver takes the lock back and tests the list again.
RecvWake(r) ==
  /\ r \notin waiting
  /\ Goto(r, "recv_wait", "recv_test")
  /\ Acquire(r)
  /\ UNCHANGED <<list, heap, waiting, node, sent, got>>

RecvUnlink(r) ==
  /\ head # NULL
  /\ Goto(r, "recv_test", "recv_unlock")
  /\ node' = [node EXCEPT ![r] = head]
  /\ head' = next[head]
  /\ tail' = IF next[head] = NULL THEN NULL ELSE tail
  /\ chain' = Tail(chain)
  /\ UNCHANGED <<heap, lock, waiting, sent, got>>

RecvUnlock(r) ==
  /\ Goto(r, "recv_unlock", "recv_read")
  /\ Unlock(r)
  /\ UNCHANGED <<list, heap, waiting, node, sent, got>>

\* Outside the lock: read the value, free the node, return.
RecvReturn(r) ==
  /\ Goto(r, "recv_read", "idle")
  /\ got' = [got EXCEPT ![r] = Append(@, value[node[r]])]
  /\ allocated' = allocated \ {node[r]}
  /\ node' = [node EXCEPT ![r] = NULL]
  /\ UNCHANGED <<list, next, value, lock, waiting, sent>>

-----------------------------------------------------------------------------

\* Inside a send that has begun: the thread runs on by itself.
SendStep(s) == SendLock(s) \/ SendLink(s) \/ SendSignal(s) \/ SendUnlock(s)

\* Inside a receive that has begun.
RecvStep(r) ==
  RecvLock(r) \/ RecvWait(r) \/ RecvWake(r) \/ RecvUnlink(r)
    \/ RecvUnlock(r) \/ RecvReturn(r)

Next ==
  \/ \E s \in Sender : SendAlloc(s) \/ SendStep(s)
  \/ \E r \in Receiver : RecvCall(r) \/ RecvStep(r) \/ RecvSpurious(r)

Spec == Init /\ [][Next]_vars

\* The scheduler runs every thread that can run.  Nothing is assumed of the
\* program: no send and no receive has to be called, no spurious wake-up has
\* to happen.
Fairness ==
  /\ \A s \in Sender : WF_vars(SendStep(s))
  /\ \A r \in Receiver : WF_vars(RecvStep(r))

FairSpec == Spec /\ Fairness

-----------------------------------------------------------------------------
(* Properties *)

SendState == {"send_lock", "send_link", "send_signal", "send_unlock"}
RecvState ==
  {"recv_lock", "recv_test", "recv_wait", "recv_unlock", "recv_read"}

\* Every variable ranges over what its C declaration allows: a pointer is a
\* node or NULL, and what a receive returns is a value some sender sent.
TypeOK ==
  /\ head \in Node \cup {NULL} /\ tail \in Node \cup {NULL}
  /\ next \in [Node -> Node \cup {NULL}]
  /\ value \in [Node -> Value \cup {NULL}]
  /\ allocated \subseteq Node
  /\ lock \in Threads \cup {NULL}
  /\ waiting \subseteq Receiver
  /\ pc \in [Threads -> {"idle"} \cup SendState \cup RecvState]
  /\ node \in [Threads -> Node \cup {NULL}]
  /\ sent \in [Sender -> 0 .. MaxSends]
  /\ got \in [Receiver -> Seq(Value)]
  /\ chain \in Seq(Node)

\* The lock covers exactly the statements between pthread_mutex_lock and
\* pthread_mutex_unlock, so at most one thread reads or writes the list.
LockDiscipline ==
  \A t \in Threads :
    lock = t <=>
      pc[t] \in {"send_link", "send_signal", "send_unlock", "recv_test",
                 "recv_unlock"}

\* The pointers spell out the chain: head and tail are its ends (both NULL
\* when it is empty), each node points to the one after it, and the last
\* one points nowhere.
WellLinked ==
  /\ head = IF chain = <<>> THEN NULL ELSE chain[1]
  /\ tail = IF chain = <<>> THEN NULL ELSE chain[Len(chain)]
  /\ \A i \in 1 .. Len(chain) :
       next[chain[i]] = IF i = Len(chain) THEN NULL ELSE chain[i + 1]

\* The node a thread has in its local and nobody else may touch: a sender's
\* until it is linked, a receiver's once it is unlinked.
Private(t) ==
  /\ node[t] # NULL
  /\ pc[t] \in {"send_lock", "send_link", "recv_unlock", "recv_read"}

\* Every allocated node has exactly one owner: it is in the list once, or it
\* is one thread's private node.  No node in use is ever freed, none is freed
\* twice, and none leaks.
OneOwner ==
  /\ \A i, j \in 1 .. Len(chain) : chain[i] = chain[j] => i = j
  /\ \A t \in Threads : Private(t) =>
       /\ \A i \in 1 .. Len(chain) : chain[i] # node[t]
       /\ \A u \in Threads \ {t} : Private(u) => node[u] # node[t]
  /\ allocated = {chain[i] : i \in 1 .. Len(chain)}
                   \cup {node[t] : t \in {u \in Threads : Private(u)}}

\* The receivers inside recv that are awake and have not taken a node.
Awake ==
  {r \in Receiver : \/ pc[r] \in {"recv_lock", "recv_test"}
                    \/ pc[r] = "recv_wait" /\ r \notin waiting}

\* A sender that has linked a node and not signalled yet.
Signalling == {s \in Sender : pc[s] = "send_signal"}

\* No wake-up is lost: while some receiver sleeps, there are at least as many
\* receivers on their way to the list as there are values in it, counting the
\* one the signal about to be sent will wake.
NoLostWakeup ==
  waiting # {} => Len(chain) <= Cardinality(Awake) + Cardinality(Signalling)

\* A value unlinked but not yet returned.
Taken(r) == pc[r] \in {"recv_unlock", "recv_read"}

\* What senders have put in the list so far.
Enqueued(s) ==
  sent[s] + (IF pc[s] \in {"send_signal", "send_unlock"} THEN 1 ELSE 0)

\* Linearisability: the linked list implements the FIFO queue of module
\* ChannelQueue.  A send takes effect when its node is linked, a receive when
\* it unlinks one.
QueueValues == [i \in 1 .. Len(chain) |-> value[chain[i]]]
HandValues == [r \in Receiver |-> IF Taken(r) THEN value[node[r]] ELSE NULL]

Abstract ==
  INSTANCE ChannelQueue WITH
    None <- NULL,
    enqueued <- [s \in Sender |-> Enqueued(s)],
    queue <- QueueValues,
    hand <- HandValues,
    got <- got

ImplementsQueue == Abstract!Spec

\* Nobody sleeps through a value: while some thread is inside recv, asleep or
\* not, a non-empty list is drained, or every recv in progress returns.
ValueServed ==
  (\E r \in Receiver : pc[r] \in RecvState) /\ head # NULL
    ~> (head = NULL \/ \A r \in Receiver : pc[r] \notin RecvState)
=============================================================================
