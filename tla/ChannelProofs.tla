---------------------------- MODULE ChannelProofs ----------------------------
(***************************************************************************)
(* Proofs about module Channel, for every set of senders, receivers and    *)
(* nodes and every bound on the number of sends.                           *)
(***************************************************************************)
EXTENDS Channel, FiniteSetTheorems, SequenceTheorems, TLAPS

\* What a sender's program counter says of its local node: it is filled in
\* and nobody has linked it.
SendLocals ==
  \A s \in Sender :
    /\ pc[s] \in {"idle"} \cup SendState
    /\ pc[s] \in {"send_lock", "send_link"} =>
         /\ node[s] \in allocated
         /\ next[node[s]] = NULL
         /\ value[node[s]] = <<s, sent[s] + 1>>
    /\ pc[s] # "idle" => sent[s] < MaxSends

\* What a receiver's program counter says of its local node.
RecvLocals ==
  \A r \in Receiver :
    /\ pc[r] \in {"idle"} \cup RecvState
    /\ Taken(r) => node[r] \in allocated
    /\ r \in waiting => pc[r] = "recv_wait"

\* Every allocated node has been filled in.
Filled == \A n \in allocated : value[n] \in Value

\* The invariant that is inductive: types, the lock, the pointers, and one
\* owner for every node.
IInv ==
  /\ TypeOK
  /\ LockDiscipline
  /\ SendLocals
  /\ RecvLocals
  /\ Filled
  /\ WellLinked
  /\ OneOwner

LEMMA InitIInv == Init => IInv
  <1> SUFFICES ASSUME Init PROVE IInv
    OBVIOUS
  <1> USE ThreadAssumption, NodeAssumption, BoundAssumption DEF Init
  <1>1. TypeOK
    BY DEF TypeOK
  <1>2. LockDiscipline
    BY DEF LockDiscipline, Threads
  <1>3. SendLocals /\ RecvLocals
    BY DEF SendLocals, RecvLocals, Taken, Threads
  <1>4. Filled
    BY DEF Filled
  <1>5. WellLinked
    BY DEF WellLinked
  <1>6. OneOwner
    BY DEF OneOwner, Private, Threads
  <1> QED
    BY <1>1, <1>2, <1>3, <1>4, <1>5, <1>6 DEF IInv

\* The entries of a sequence after one more, and after one less, element.
LEMMA AppendEntries ==
  ASSUME NEW S, NEW q \in Seq(S), NEW x \in S
  PROVE  /\ Append(q, x) \in Seq(S)
         /\ Append(q, x) # <<>>
         /\ Len(Append(q, x)) = Len(q) + 1
         /\ \A i \in 1 .. Len(q) : Append(q, x)[i] = q[i]
         /\ Append(q, x)[Len(q) + 1] = x
  OBVIOUS

LEMMA TailEntries ==
  ASSUME NEW S, NEW q \in Seq(S), q # <<>>
  PROVE  /\ Tail(q) \in Seq(S)
         /\ Len(q) \in Nat \ {0}
         /\ Len(Tail(q)) = Len(q) - 1
         /\ \A i \in 1 .. Len(q) - 1 : Tail(q)[i] = q[i + 1]
         /\ q[1] = Head(q)
         /\ q[1] \in S
         /\ Tail(q) = <<>> <=> Len(q) = 1
  <1>1. Tail(q) \in Seq(S) /\ Len(Tail(q)) = Len(q) - 1 /\ Len(q) \in Nat \ {0}
    OBVIOUS
  <1>2. Tail(q) = <<>> <=> Len(Tail(q)) = 0
    BY <1>1, EmptySeq
  <1>3. Tail(q) = <<>> <=> Len(q) = 1
    BY <1>1, <1>2
  <1>4. /\ \A i \in 1 .. Len(q) - 1 : Tail(q)[i] = q[i + 1]
        /\ q[1] = Head(q)
        /\ q[1] \in S
    OBVIOUS
  <1> QED
    BY <1>1, <1>3, <1>4

\* Dropping the first element drops it from the set of entries.
LEMMA TailRange ==
  ASSUME NEW S, NEW q \in Seq(S), q # <<>>
  PROVE  {q[i] : i \in 1 .. Len(q)}
           = {Tail(q)[i] : i \in 1 .. Len(Tail(q))} \cup {q[1]}
  <1> USE TailEntries
  <1>1. ASSUME NEW x \in {q[i] : i \in 1 .. Len(q)}, x # q[1]
        PROVE  x \in {Tail(q)[i] : i \in 1 .. Len(Tail(q))}
    <2>1. PICK i \in 1 .. Len(q) : x = q[i]
      BY <1>1
    <2>2. i - 1 \in 1 .. Len(Tail(q)) /\ Tail(q)[i - 1] = q[i]
      BY <1>1, <2>1
    <2> QED
      BY <2>1, <2>2
  <1>2. ASSUME NEW x \in {Tail(q)[i] : i \in 1 .. Len(Tail(q))}
        PROVE  x \in {q[i] : i \in 1 .. Len(q)}
    <2>1. PICK i \in 1 .. Len(Tail(q)) : x = Tail(q)[i]
      BY <1>2
    <2>2. i + 1 \in 1 .. Len(q) /\ Tail(q)[i] = q[i + 1]
      BY <2>1
    <2> QED
      BY <2>1, <2>2
  <1>3. q[1] \in {q[i] : i \in 1 .. Len(q)}
    <2>1. 1 \in 1 .. Len(q)
      OBVIOUS
    <2> QED
      BY <2>1
  <1> QED
    BY <1>1, <1>2, <1>3

LEMMA SendAllocIInv ==
  ASSUME NEW s \in Sender, IInv, SendAlloc(s)
  PROVE  IInv'
  <1> USE ThreadAssumption, NodeAssumption, BoundAssumption
      DEF IInv, SendAlloc, Goto, Acquire, Unlock, list, heap, Threads, SendState,
          RecvState
  <1>a. PICK n \in Node \ allocated :
          /\ allocated' = allocated \cup {n}
          /\ node' = [node EXCEPT ![s] = n]
          /\ value' = [value EXCEPT ![n] = <<s, sent[s] + 1>>]
          /\ next' = [next EXCEPT ![n] = NULL]
    OBVIOUS
  <1>b. <<s, sent[s] + 1>> \in Value
    BY DEF TypeOK, Value
  <1>1. TypeOK'
    BY <1>a, <1>b DEF TypeOK
  <1>2. LockDiscipline'
    BY DEF TypeOK, LockDiscipline
  <1>3. SendLocals'
    BY <1>a DEF TypeOK, SendLocals
  <1>4. RecvLocals'
    BY <1>a DEF TypeOK, RecvLocals, Taken
  <1>5. Filled'
    BY <1>a, <1>b DEF TypeOK, Filled
  <1>6. WellLinked'
    BY <1>a DEF TypeOK, WellLinked, OneOwner
  <1>7. OneOwner'
    BY <1>a DEF TypeOK, OneOwner, Private, SendLocals, RecvLocals
  <1> QED
    BY <1>1, <1>2, <1>3, <1>4, <1>5, <1>6, <1>7

LEMMA SendLockIInv ==
  ASSUME NEW s \in Sender, IInv, SendLock(s)
  PROVE  IInv'
  <1> USE ThreadAssumption, NodeAssumption, BoundAssumption
      DEF IInv, SendLock, Goto, Acquire, Unlock, list, heap, Threads, SendState,
          RecvState
  <1>1. TypeOK'
    BY DEF TypeOK, RecvLocals, Filled, Taken
  <1>2. LockDiscipline'
    BY DEF TypeOK, LockDiscipline
  <1>3. SendLocals'
    BY DEF TypeOK, SendLocals
  <1>4. RecvLocals'
    BY DEF TypeOK, RecvLocals, SendLocals, Taken
  <1>5. Filled'
    BY DEF TypeOK, Filled, Value
  <1>6. WellLinked'
    BY DEF TypeOK, WellLinked, SendLocals, OneOwner
  <1>7. OneOwner'
    BY DEF TypeOK, OneOwner, Private, SendLocals, RecvLocals
  <1> QED
    BY <1>1, <1>2, <1>3, <1>4, <1>5, <1>6, <1>7

LEMMA SendLinkIInv ==
  ASSUME NEW s \in Sender, IInv, SendLink(s)
  PROVE  IInv'
  <1> USE ThreadAssumption, NodeAssumption, BoundAssumption
      DEF IInv, SendLink, Goto, Acquire, Unlock, list, heap, Threads, SendState,
          RecvState
  <1>a. /\ node[s] \in Node
        /\ \A i \in 1 .. Len(chain) : chain[i] # node[s]
        /\ \A u \in Threads \ {s} : Private(u) => node[u] # node[s]
        /\ next[node[s]] = NULL
    BY DEF TypeOK, SendLocals, OneOwner, Private
  <1>b. /\ chain' \in Seq(Node) /\ chain' # <<>>
        /\ Len(chain') = Len(chain) + 1
        /\ \A i \in 1 .. Len(chain) : chain'[i] = chain[i]
        /\ chain'[Len(chain) + 1] = node[s]
        /\ Len(chain) \in Nat
        /\ \A i \in 1 .. Len(chain) : chain[i] \in Node
    BY <1>a, AppendEntries DEF TypeOK
  <1>c. tail # NULL <=> chain # <<>>
    BY DEF TypeOK, WellLinked
  <1>d. /\ chain = <<>> => head' = node[s] /\ next' = next
        /\ chain # <<>> =>
             /\ head' = head /\ head = chain[1] /\ tail = chain[Len(chain)]
             /\ Len(chain) # 0
             /\ next' = [next EXCEPT ![tail] = node[s]]
    BY <1>c DEF TypeOK, WellLinked
  <1>e. \A u \in Threads \ {s} : Private(u) <=> Private(u)'
    BY DEF Private, TypeOK
  <1>f. ~ Private(s)'
    BY DEF Private, TypeOK
  <1>1. TypeOK'
    BY <1>a, <1>b DEF TypeOK
  <1>2. LockDiscipline'
    BY DEF TypeOK, LockDiscipline
  <1>3. SendLocals'
    <2> SUFFICES ASSUME NEW u \in Sender, u # s,
                        pc[u] \in {"send_lock", "send_link"}
                 PROVE  next'[node[u]] = NULL
      BY DEF TypeOK, SendLocals
    <2>1. /\ Private(u) /\ node[u] \in Node
          /\ next[node[u]] = NULL
      BY DEF TypeOK, SendLocals, Private
    <2>2. \A i \in 1 .. Len(chain) : chain[i] # node[u]
      BY <2>1 DEF OneOwner
    <2>3. CASE chain = <<>>
      BY <2>1, <2>3, <1>d
    <2>4. CASE chain # <<>>
      BY <2>1, <2>2, <2>4, <1>b, <1>d DEF TypeOK
    <2> QED
      BY <2>3, <2>4
  <1>4. RecvLocals'
    BY DEF TypeOK, RecvLocals, SendLocals, Taken
  <1>5. Filled'
    BY DEF TypeOK, Filled, Value
  <1>6. WellLinked'
    <2>1. CASE chain = <<>>
      BY <1>a, <1>b, <1>d, <2>1 DEF TypeOK, WellLinked
    <2>2. CASE chain # <<>>
      <3>1. /\ head' = chain'[1]
            /\ tail' = chain'[Len(chain')]
        BY <1>b, <1>d, <2>2
      <3>2. chain[Len(chain)] \in Node /\ Len(chain) \in 1 .. Len(chain)
        BY <1>b, <1>d, <2>2
      <3>3. ASSUME NEW i \in 1 .. Len(chain'), i < Len(chain)
            PROVE  next'[chain'[i]] = chain'[i + 1]
        <4>1. i \in 1 .. Len(chain) /\ i + 1 \in 1 .. Len(chain)
          BY <1>b, <3>3
        <4>2. chain[i] # chain[Len(chain)]
          BY <4>1, <3>2, <3>3 DEF OneOwner
        <4>3. next[chain[i]] = chain[i + 1]
          BY <4>1, <3>3, <1>b DEF WellLinked
        <4> QED
          BY <4>1, <4>2, <4>3, <1>b, <1>d, <2>2 DEF TypeOK
      <3>4. next'[chain'[Len(chain)]] = chain'[Len(chain) + 1]
        BY <1>b, <1>d, <2>2, <3>2 DEF TypeOK
      <3>5. next'[chain'[Len(chain) + 1]] = NULL
        BY <1>a, <1>b, <1>d, <2>2, <3>2 DEF TypeOK
      <3>6. ASSUME NEW i \in 1 .. Len(chain')
            PROVE  next'[chain'[i]]
                     = IF i = Len(chain') THEN NULL ELSE chain'[i + 1]
        <4>1. i < Len(chain) \/ i = Len(chain) \/ i = Len(chain) + 1
          BY <1>b
        <4> QED
          BY <4>1, <3>3, <3>4, <3>5, <1>b
      <3> QED
        BY <3>1, <3>6, <1>b DEF WellLinked
    <2> QED
      BY <2>1, <2>2
  <1>7. OneOwner'
    <2>1. \A i, j \in 1 .. Len(chain') : chain'[i] = chain'[j] => i = j
      BY <1>a, <1>b DEF OneOwner
    <2>2. \A t \in Threads : Private(t)' =>
            /\ \A i \in 1 .. Len(chain') : chain'[i] # node'[t]
            /\ \A u \in Threads \ {t} : Private(u)' => node'[u] # node'[t]
      BY <1>a, <1>b, <1>e, <1>f DEF OneOwner
    <2>3. {chain'[i] : i \in 1 .. Len(chain')}
            = {chain[i] : i \in 1 .. Len(chain)} \cup {node[s]}
      BY <1>b
    <2>4. {node'[t] : t \in {u \in Threads : Private(u)'}} \cup {node[s]}
            = {node[t] : t \in {u \in Threads : Private(u)}}
      <3>1. Private(s)
        BY <1>a DEF Private
      <3> QED
        BY <1>e, <1>f, <3>1
    <2>5. allocated' = {chain'[i] : i \in 1 .. Len(chain')}
            \cup {node'[t] : t \in {u \in Threads : Private(u)'}}
      BY <2>3, <2>4 DEF OneOwner
    <2> QED
      BY <2>1, <2>2, <2>5 DEF OneOwner
  <1> QED
    BY <1>1, <1>2, <1>3, <1>4, <1>5, <1>6, <1>7

LEMMA SendSignalIInv ==
  ASSUME NEW s \in Sender, IInv, SendSignal(s)
  PROVE  IInv'
  <1> USE ThreadAssumption, NodeAssumption, BoundAssumption
      DEF IInv, SendSignal, Goto, Acquire, Unlock, list, heap, Threads, SendState,
          RecvState
  <1>1. TypeOK'
    BY DEF TypeOK, RecvLocals, Filled, Taken
  <1>2. LockDiscipline'
    BY DEF TypeOK, LockDiscipline
  <1>3. SendLocals'
    BY DEF TypeOK, SendLocals
  <1>4. RecvLocals'
    BY DEF TypeOK, RecvLocals, SendLocals, Taken
  <1>5. Filled'
    BY DEF TypeOK, Filled, Value
  <1>6. WellLinked'
    BY DEF TypeOK, WellLinked, SendLocals, OneOwner
  <1>7. OneOwner'
    BY DEF TypeOK, OneOwner, Private, SendLocals, RecvLocals
  <1> QED
    BY <1>1, <1>2, <1>3, <1>4, <1>5, <1>6, <1>7

LEMMA SendUnlockIInv ==
  ASSUME NEW s \in Sender, IInv, SendUnlock(s)
  PROVE  IInv'
  <1> USE ThreadAssumption, NodeAssumption, BoundAssumption
      DEF IInv, SendUnlock, Goto, Acquire, Unlock, list, heap, Threads, SendState,
          RecvState
  <1>1. TypeOK'
    BY DEF TypeOK, SendLocals
  <1>2. LockDiscipline'
    BY DEF TypeOK, LockDiscipline
  <1>3. SendLocals'
    BY DEF TypeOK, SendLocals
  <1>4. RecvLocals'
    BY DEF TypeOK, RecvLocals, SendLocals, Taken
  <1>5. Filled'
    BY DEF TypeOK, Filled, Value
  <1>6. WellLinked'
    BY DEF TypeOK, WellLinked, SendLocals, OneOwner
  <1>7. OneOwner'
    <2>1. \A t \in Threads : Private(t) <=> Private(t)'
      BY DEF TypeOK, Private
    <2>2. \A t \in Threads : Private(t) => node'[t] = node[t]
      BY DEF TypeOK, Private
    <2> QED
      BY <2>1, <2>2 DEF OneOwner
  <1> QED
    BY <1>1, <1>2, <1>3, <1>4, <1>5, <1>6, <1>7

LEMMA RecvCallIInv ==
  ASSUME NEW r \in Receiver, IInv, RecvCall(r)
  PROVE  IInv'
  <1> USE ThreadAssumption, NodeAssumption, BoundAssumption
      DEF IInv, RecvCall, Goto, Acquire, Unlock, list, heap, Threads, SendState,
          RecvState
  <1>1. TypeOK'
    BY DEF TypeOK, RecvLocals, Filled, Taken
  <1>2. LockDiscipline'
    BY DEF TypeOK, LockDiscipline
  <1>3. SendLocals'
    BY DEF TypeOK, SendLocals
  <1>4. RecvLocals'
    BY DEF TypeOK, RecvLocals, SendLocals, Taken
  <1>5. Filled'
    BY DEF TypeOK, Filled, Value
  <1>6. WellLinked'
    BY DEF TypeOK, WellLinked, SendLocals, OneOwner
  <1>7. OneOwner'
    BY DEF TypeOK, OneOwner, Private, SendLocals, RecvLocals
  <1> QED
    BY <1>1, <1>2, <1>3, <1>4, <1>5, <1>6, <1>7

LEMMA RecvLockIInv ==
  ASSUME NEW r \in Receiver, IInv, RecvLock(r)
  PROVE  IInv'
  <1> USE ThreadAssumption, NodeAssumption, BoundAssumption
      DEF IInv, RecvLock, Goto, Acquire, Unlock, list, heap, Threads, SendState,
          RecvState
  <1>1. TypeOK'
    BY DEF TypeOK, RecvLocals, Filled, Taken
  <1>2. LockDiscipline'
    BY DEF TypeOK, LockDiscipline
  <1>3. SendLocals'
    BY DEF TypeOK, SendLocals
  <1>4. RecvLocals'
    BY DEF TypeOK, RecvLocals, SendLocals, Taken
  <1>5. Filled'
    BY DEF TypeOK, Filled, Value
  <1>6. WellLinked'
    BY DEF TypeOK, WellLinked, SendLocals, OneOwner
  <1>7. OneOwner'
    BY DEF TypeOK, OneOwner, Private, SendLocals, RecvLocals
  <1> QED
    BY <1>1, <1>2, <1>3, <1>4, <1>5, <1>6, <1>7

LEMMA RecvWaitIInv ==
  ASSUME NEW r \in Receiver, IInv, RecvWait(r)
  PROVE  IInv'
  <1> USE ThreadAssumption, NodeAssumption, BoundAssumption
      DEF IInv, RecvWait, Goto, Acquire, Unlock, list, heap, Threads, SendState,
          RecvState
  <1>1. TypeOK'
    BY DEF TypeOK, RecvLocals, Filled, Taken
  <1>2. LockDiscipline'
    BY DEF TypeOK, LockDiscipline
  <1>3. SendLocals'
    BY DEF TypeOK, SendLocals
  <1>4. RecvLocals'
    BY DEF TypeOK, RecvLocals, SendLocals, Taken
  <1>5. Filled'
    BY DEF TypeOK, Filled, Value
  <1>6. WellLinked'
    BY DEF TypeOK, WellLinked, SendLocals, OneOwner
  <1>7. OneOwner'
    BY DEF TypeOK, OneOwner, Private, SendLocals, RecvLocals
  <1> QED
    BY <1>1, <1>2, <1>3, <1>4, <1>5, <1>6, <1>7

LEMMA RecvSpuriousIInv ==
  ASSUME NEW r \in Receiver, IInv, RecvSpurious(r)
  PROVE  IInv'
  <1> USE ThreadAssumption, NodeAssumption, BoundAssumption
      DEF IInv, RecvSpurious, Goto, Acquire, Unlock, list, heap, Threads, SendState,
          RecvState
  <1>1. TypeOK'
    BY DEF TypeOK, RecvLocals, Filled, Taken
  <1>2. LockDiscipline'
    BY DEF TypeOK, LockDiscipline
  <1>3. SendLocals'
    BY DEF TypeOK, SendLocals
  <1>4. RecvLocals'
    BY DEF TypeOK, RecvLocals, SendLocals, Taken
  <1>5. Filled'
    BY DEF TypeOK, Filled, Value
  <1>6. WellLinked'
    BY DEF TypeOK, WellLinked, SendLocals, OneOwner
  <1>7. OneOwner'
    BY DEF TypeOK, OneOwner, Private, SendLocals, RecvLocals
  <1> QED
    BY <1>1, <1>2, <1>3, <1>4, <1>5, <1>6, <1>7

LEMMA RecvWakeIInv ==
  ASSUME NEW r \in Receiver, IInv, RecvWake(r)
  PROVE  IInv'
  <1> USE ThreadAssumption, NodeAssumption, BoundAssumption
      DEF IInv, RecvWake, Goto, Acquire, Unlock, list, heap, Threads, SendState,
          RecvState
  <1>1. TypeOK'
    BY DEF TypeOK, RecvLocals, Filled, Taken
  <1>2. LockDiscipline'
    BY DEF TypeOK, LockDiscipline
  <1>3. SendLocals'
    BY DEF TypeOK, SendLocals
  <1>4. RecvLocals'
    BY DEF TypeOK, RecvLocals, SendLocals, Taken
  <1>5. Filled'
    BY DEF TypeOK, Filled, Value
  <1>6. WellLinked'
    BY DEF TypeOK, WellLinked, SendLocals, OneOwner
  <1>7. OneOwner'
    BY DEF TypeOK, OneOwner, Private, SendLocals, RecvLocals
  <1> QED
    BY <1>1, <1>2, <1>3, <1>4, <1>5, <1>6, <1>7

LEMMA RecvUnlinkIInv ==
  ASSUME NEW r \in Receiver, IInv, RecvUnlink(r)
  PROVE  IInv'
  <1> USE ThreadAssumption, NodeAssumption, BoundAssumption
      DEF IInv, RecvUnlink, Goto, Acquire, Unlock, list, heap, Threads, SendState,
          RecvState
  <1>a. chain # <<>> /\ head = chain[1]
    BY DEF WellLinked
  <1>b. /\ chain' \in Seq(Node)
        /\ Len(chain) \in Nat \ {0}
        /\ Len(chain') = Len(chain) - 1
        /\ \A i \in 1 .. Len(chain) - 1 : chain'[i] = chain[i + 1]
        /\ chain[1] \in Node
        /\ chain' = <<>> <=> Len(chain) = 1
    <2>1. chain \in Seq(Node) /\ chain' = Tail(chain)
      BY DEF TypeOK
    <2> HIDE DEF IInv, RecvUnlink
    <2> QED
      BY <1>a, <2>1, TailEntries
  <1>c. /\ ~ Private(r) /\ Private(r)'
        /\ \A u \in Threads \ {r} : Private(u) <=> Private(u)'
    BY <1>a, <1>b DEF Private, TypeOK
  <1>d. /\ node'[r] = chain[1]
        /\ \A u \in Threads \ {r} : node'[u] = node[u]
    BY <1>a DEF TypeOK
  <1>e. next[head] = NULL <=> Len(chain) = 1
    <2>1. 1 \in 1 .. Len(chain)
      BY <1>b
    <2>2. next[chain[1]] = IF 1 = Len(chain) THEN NULL ELSE chain[1 + 1]
      BY <2>1 DEF WellLinked
    <2>3. Len(chain) # 1 => chain[1 + 1] # NULL
      BY <1>b DEF TypeOK
    <2> QED
      BY <1>a, <2>2, <2>3
  <1>1. TypeOK'
    BY <1>a, <1>b DEF TypeOK
  <1>2. LockDiscipline'
    BY DEF TypeOK, LockDiscipline
  <1>3. SendLocals'
    BY DEF TypeOK, SendLocals
  <1>4. RecvLocals'
    <2>1. chain[1] \in allocated
      BY <1>b DEF OneOwner
    <2>2. r \in Receiver /\ pc'[r] \in RecvState /\ node'[r] \in allocated'
      BY <2>1, <1>d DEF TypeOK
    <2> QED
      BY <2>2, <1>d DEF TypeOK, RecvLocals, Taken
  <1>5. Filled'
    BY DEF TypeOK, Filled, Value
  <1>6. WellLinked'
    <2>1. CASE Len(chain) = 1
      BY <1>a, <1>b, <1>e, <2>1 DEF WellLinked
    <2>2. CASE Len(chain) # 1
      <3>1. /\ chain' # <<>>
            /\ 1 \in 1 .. Len(chain) /\ 1 \in 1 .. Len(chain) - 1
            /\ Len(chain) - 1 \in 1 .. Len(chain) - 1
        BY <1>b, <2>2
      <3>2. head' = chain'[1]
        <4>1. next[chain[1]] = chain[1 + 1]
          BY <3>1, <2>2 DEF WellLinked
        <4>2. chain'[1] = chain[1 + 1]
          BY <1>b, <3>1
        <4> QED
          BY <1>a, <4>1, <4>2
      <3>3. tail' = chain'[Len(chain')]
        <4>1. tail' = chain[Len(chain)]
          BY <1>a, <1>e, <2>2 DEF WellLinked
        <4>2. chain'[Len(chain) - 1] = chain[Len(chain) - 1 + 1]
          BY <1>b, <3>1
        <4>3. Len(chain) - 1 + 1 = Len(chain) /\ Len(chain') = Len(chain) - 1
          BY <1>b
        <4> HIDE DEF IInv, RecvUnlink
        <4> QED
          BY <4>1, <4>2, <4>3
      <3>4. ASSUME NEW i \in 1 .. Len(chain')
            PROVE  next[chain'[i]]
                     = IF i = Len(chain') THEN NULL ELSE chain'[i + 1]
        <4>1. i + 1 \in 1 .. Len(chain) /\ chain'[i] = chain[i + 1]
          BY <1>b
        <4>2. next[chain[i + 1]]
                = IF i + 1 = Len(chain) THEN NULL ELSE chain[i + 1 + 1]
          BY <4>1 DEF WellLinked
        <4>3. i + 1 = Len(chain) <=> i = Len(chain')
          BY <1>b
        <4>4. ASSUME i # Len(chain')
              PROVE  chain'[i + 1] = chain[i + 1 + 1]
          <5> HIDE DEF IInv, RecvUnlink
          <5>1. i + 1 \in 1 .. Len(chain) - 1
            BY <1>b, <4>4
          <5> QED
            BY <1>b, <5>1
        <4> QED
          BY <4>1, <4>2, <4>3, <4>4
      <3> QED
        BY <3>1, <3>2, <3>3, <3>4 DEF WellLinked
    <2> QED
      BY <2>1, <2>2
  <1>7. OneOwner'
    <2>1. \A i, j \in 1 .. Len(chain') : chain'[i] = chain'[j] => i = j
      <3> SUFFICES ASSUME NEW i \in 1 .. Len(chain'),
                          NEW j \in 1 .. Len(chain'), chain'[i] = chain'[j]
                   PROVE  i = j
        OBVIOUS
      <3>1. /\ i + 1 \in 1 .. Len(chain) /\ j + 1 \in 1 .. Len(chain)
            /\ chain[i + 1] = chain[j + 1]
        BY <1>b
      <3>2. i + 1 = j + 1
        BY <3>1 DEF OneOwner
      <3> QED
        BY <3>2
    <2>2. \A i \in 1 .. Len(chain') : chain'[i] # chain[1]
      <3> SUFFICES ASSUME NEW i \in 1 .. Len(chain'), chain'[i] = chain[1]
                   PROVE  FALSE
        OBVIOUS
      <3>1. /\ i + 1 \in 1 .. Len(chain) /\ 1 \in 1 .. Len(chain)
            /\ chain[i + 1] = chain[1]
        BY <1>b
      <3>2. i + 1 = 1
        BY <3>1 DEF OneOwner
      <3> QED
        BY <3>2
    <2>3. \A u \in Threads \ {r} : Private(u) => node[u] # chain[1]
      BY <1>b DEF OneOwner
    <2>4. \A u \in Threads \ {r} : Private(u) =>
            \A i \in 1 .. Len(chain') : chain'[i] # node[u]
      <3> SUFFICES ASSUME NEW u \in Threads \ {r}, Private(u),
                          NEW i \in 1 .. Len(chain')
                   PROVE  chain'[i] # node[u]
        OBVIOUS
      <3>1. i + 1 \in 1 .. Len(chain) /\ chain'[i] = chain[i + 1]
        BY <1>b
      <3> QED
        BY <3>1 DEF OneOwner
    <2>5. \A t \in Threads : Private(t)' =>
            /\ \A i \in 1 .. Len(chain') : chain'[i] # node'[t]
            /\ \A u \in Threads \ {t} : Private(u)' => node'[u] # node'[t]
      BY <2>2, <2>3, <2>4, <1>c, <1>d DEF OneOwner
    <2>6. {chain[i] : i \in 1 .. Len(chain)}
            = {chain'[i] : i \in 1 .. Len(chain')} \cup {chain[1]}
      <3>1. chain \in Seq(Node) /\ chain' = Tail(chain)
        BY DEF TypeOK
      <3> HIDE DEF IInv, RecvUnlink
      <3> QED
        BY <1>a, <3>1, TailRange
    <2>7. {node'[t] : t \in {u \in Threads : Private(u)'}}
            = {node[t] : t \in {u \in Threads : Private(u)}} \cup {chain[1]}
      BY <1>c, <1>d
    <2>8. allocated' = {chain'[i] : i \in 1 .. Len(chain')}
            \cup {node'[t] : t \in {u \in Threads : Private(u)'}}
      BY <2>6, <2>7 DEF OneOwner
    <2> QED
      BY <2>1, <2>5, <2>8 DEF OneOwner
  <1> QED
    BY <1>1, <1>2, <1>3, <1>4, <1>5, <1>6, <1>7

LEMMA RecvUnlockIInv ==
  ASSUME NEW r \in Receiver, IInv, RecvUnlock(r)
  PROVE  IInv'
  <1> USE ThreadAssumption, NodeAssumption, BoundAssumption
      DEF IInv, RecvUnlock, Goto, Acquire, Unlock, list, heap, Threads, SendState,
          RecvState
  <1>1. TypeOK'
    BY DEF TypeOK, RecvLocals, Filled, Taken
  <1>2. LockDiscipline'
    BY DEF TypeOK, LockDiscipline
  <1>3. SendLocals'
    BY DEF TypeOK, SendLocals
  <1>4. RecvLocals'
    BY DEF TypeOK, RecvLocals, SendLocals, Taken
  <1>5. Filled'
    BY DEF TypeOK, Filled, Value
  <1>6. WellLinked'
    BY DEF TypeOK, WellLinked, SendLocals, OneOwner
  <1>7. OneOwner'
    BY DEF TypeOK, OneOwner, Private, SendLocals, RecvLocals
  <1> QED
    BY <1>1, <1>2, <1>3, <1>4, <1>5, <1>6, <1>7

LEMMA RecvReturnIInv ==
  ASSUME NEW r \in Receiver, IInv, RecvReturn(r)
  PROVE  IInv'
  <1> USE ThreadAssumption, NodeAssumption, BoundAssumption
      DEF IInv, RecvReturn, Goto, Acquire, Unlock, list, heap, Threads, SendState,
          RecvState
  <1>a. /\ Private(r) /\ node[r] \in allocated
        /\ value[node[r]] \in Value
    BY DEF TypeOK, RecvLocals, Taken, Private, Filled
  <1>b. /\ \A i \in 1 .. Len(chain) : chain[i] # node[r]
        /\ \A u \in Threads \ {r} : Private(u) => node[u] # node[r]
    BY <1>a DEF OneOwner
  <1>c. /\ ~ Private(r)'
        /\ \A u \in Threads \ {r} :
             /\ Private(u) <=> Private(u)'
             /\ node'[u] = node[u]
    BY DEF TypeOK, Private
  <1>1. TypeOK'
    BY <1>a DEF TypeOK
  <1>2. LockDiscipline'
    BY DEF TypeOK, LockDiscipline
  <1>3. SendLocals'
    <2> SUFFICES ASSUME NEW s \in Sender,
                        pc[s] \in {"send_lock", "send_link"}
                 PROVE  node[s] \in allocated'
      BY DEF TypeOK, SendLocals
    <2>1. Private(s) /\ s # r /\ node[s] \in allocated
      BY DEF TypeOK, SendLocals, Private
    <2> QED
      BY <2>1, <1>b
  <1>4. RecvLocals'
    <2> SUFFICES ASSUME NEW q \in Receiver, q # r, Taken(q)
                 PROVE  node[q] \in allocated'
      BY DEF TypeOK, RecvLocals, Taken
    <2>1. Private(q) /\ node[q] \in allocated
      BY DEF TypeOK, RecvLocals, Private, Taken
    <2> QED
      BY <2>1, <1>b
  <1>5. Filled'
    BY DEF TypeOK, Filled, Value
  <1>6. WellLinked'
    BY DEF TypeOK, WellLinked, SendLocals, OneOwner
  <1>7. OneOwner'
    <2>1. \A t \in Threads : Private(t)' =>
            /\ \A i \in 1 .. Len(chain') : chain'[i] # node'[t]
            /\ \A u \in Threads \ {t} : Private(u)' => node'[u] # node'[t]
      BY <1>c DEF OneOwner
    <2>2. {node[t] : t \in {u \in Threads : Private(u)}} \ {node[r]}
            = {node'[t] : t \in {u \in Threads : Private(u)'}}
      BY <1>b, <1>c
    <2>3. allocated' = {chain'[i] : i \in 1 .. Len(chain')}
            \cup {node'[t] : t \in {u \in Threads : Private(u)'}}
      BY <1>b, <2>2 DEF OneOwner
    <2> QED
      BY <2>1, <2>3 DEF OneOwner
  <1> QED
    BY <1>1, <1>2, <1>3, <1>4, <1>5, <1>6, <1>7

THEOREM InductiveInvariant == Spec => []IInv
  <1>1. Init => IInv
    BY InitIInv
  <1>2. IInv /\ [Next]_vars => IInv'
    <2> SUFFICES ASSUME IInv, [Next]_vars
                 PROVE  IInv'
      OBVIOUS
    <2>1. ASSUME NEW s \in Sender, SendAlloc(s) \/ SendStep(s)
          PROVE  IInv'
      BY <2>1, SendAllocIInv, SendLockIInv, SendLinkIInv, SendSignalIInv,
         SendUnlockIInv DEF SendStep
    <2>2. ASSUME NEW r \in Receiver, RecvCall(r) \/ RecvSpurious(r)
          PROVE  IInv'
      BY <2>2, RecvCallIInv, RecvSpuriousIInv
    <2>3. ASSUME NEW r \in Receiver, RecvStep(r)
          PROVE  IInv'
      BY <2>3, RecvLockIInv, RecvWaitIInv, RecvWakeIInv, RecvUnlinkIInv,
         RecvUnlockIInv, RecvReturnIInv DEF RecvStep
    <2>4. CASE UNCHANGED vars
      <3> USE <2>4 DEF vars, IInv
      <3>1. TypeOK' /\ LockDiscipline' /\ Filled' /\ WellLinked'
        BY DEF TypeOK, LockDiscipline, Filled, WellLinked
      <3>2. SendLocals' /\ RecvLocals'
        BY DEF SendLocals, RecvLocals, Taken
      <3>3. OneOwner'
        BY DEF OneOwner, Private
      <3> QED
        BY <3>1, <3>2, <3>3
    <2> QED
      BY <2>1, <2>2, <2>3, <2>4 DEF Next
  <1> QED
    BY <1>1, <1>2, PTL DEF Spec

\* Every pointer variable holds a node or NULL and every receive returns a
\* value some sender sent.
THEOREM TypeCorrect == Spec => []TypeOK
  BY InductiveInvariant, PTL DEF IInv

\* The pointers of the list and its memory: head, tail and next always spell
\* out one chain of nodes, and every allocated node has exactly one owner, so
\* that none is used after it is freed, freed twice, or leaked.
THEOREM ListIntact == Spec => [](LockDiscipline /\ WellLinked /\ OneOwner)
  BY InductiveInvariant, PTL DEF IInv

-----------------------------------------------------------------------------
(* Wake-ups *)

\* Awake and Signalling are finite; one member more or less changes their
\* cardinality by one.
LEMMA Counting ==
  /\ IsFiniteSet(Awake) /\ Cardinality(Awake) \in Nat
  /\ IsFiniteSet(Signalling) /\ Cardinality(Signalling) \in Nat
  BY ThreadAssumption, FS_Subset, FS_CardinalityType DEF Awake, Signalling

LEMMA OneMore ==
  ASSUME NEW S, NEW T, NEW x, IsFiniteSet(S), x \notin S, T = S \cup {x}
  PROVE  Cardinality(T) = Cardinality(S) + 1
  BY FS_AddElement

LEMMA WakeupStep ==
  ASSUME IInv, NoLostWakeup, [Next]_vars
  PROVE  NoLostWakeup'
  <1> DEFINE A == Cardinality(Awake)
             G == Cardinality(Signalling)
             L == Len(chain)
  <1> USE ThreadAssumption
  <1>a. A \in Nat /\ G \in Nat /\ L \in Nat
    BY Counting DEF IInv, TypeOK
  <1>b. IsFiniteSet(Awake) /\ IsFiniteSet(Signalling)
    BY Counting
  <1>c. /\ pc \in [Threads -> {"idle"} \cup SendState \cup RecvState]
        /\ waiting \subseteq Receiver
        /\ chain \in Seq(Node)
        /\ \A s \in Sender : pc[s] \in {"idle"} \cup SendState
        /\ \A r \in Receiver : pc[r] \in {"idle"} \cup RecvState
        /\ \A r \in waiting : pc[r] = "recv_wait"
    BY DEF IInv, TypeOK, SendLocals, RecvLocals
  <1>0. IInv
    OBVIOUS
  <1> HIDE <1>0 DEF IInv
  <1>1. ASSUME Awake' = Awake, Signalling' = Signalling, waiting' = waiting,
               chain' = chain
        PROVE  NoLostWakeup'
    BY <1>1 DEF NoLostWakeup
  <1>2. ASSUME NEW s \in Sender, SendAlloc(s) \/ SendLock(s) \/ SendUnlock(s)
        PROVE  NoLostWakeup'
    BY <1>1, <1>2, <1>c DEF SendAlloc, SendLock, SendUnlock, Goto, list, heap,
       Awake, Signalling, Threads, SendState, RecvState
  <1>3. ASSUME NEW s \in Sender, SendLink(s)
        PROVE  NoLostWakeup'
    <2>1. Awake' = Awake /\ waiting' = waiting
      BY <1>3, <1>c DEF SendLink, Goto, Awake, Threads
    <2>2. s \notin Signalling /\ Signalling' = Signalling \cup {s}
      BY <1>3, <1>c DEF SendLink, Goto, Signalling, Threads
    <2>3. Cardinality(Signalling') = G + 1
      BY <2>2, <1>b, OneMore
    <2>4. Len(chain') = L + 1
      <3>1. node[s] \in Node
        BY <1>0, <1>3 DEF IInv, TypeOK, SendLocals, SendLink, Goto
      <3> QED
        BY <1>3, <1>c, <3>1, AppendEntries DEF SendLink
    <2> QED
      BY <1>a, <2>1, <2>3, <2>4 DEF NoLostWakeup
  <1>4. ASSUME NEW s \in Sender, SendSignal(s)
        PROVE  NoLostWakeup'
    <2>1. CASE waiting' = {}
      BY <2>1 DEF NoLostWakeup
    <2>2. CASE waiting' # {}
      <3>1. PICK r \in waiting : waiting' = waiting \ {r}
        BY <1>4, <2>2 DEF SendSignal
      <3>2. r \notin Awake /\ Awake' = Awake \cup {r}
        BY <1>4, <3>1, <1>c DEF SendSignal, Goto, Awake, Threads
      <3>3. s \notin Signalling' /\ Signalling = Signalling' \cup {s}
        BY <1>4, <1>c DEF SendSignal, Goto, Signalling, Threads
      <3>4. Cardinality(Awake') = A + 1
        BY <3>2, <1>b, OneMore
      <3>5. Signalling' \subseteq Signalling
        BY <3>3
      <3>6. IsFiniteSet(Signalling') /\ Cardinality(Signalling') \in Nat
        BY <3>5, <1>b, FS_Subset, FS_CardinalityType
      <3>7. G = Cardinality(Signalling') + 1
        BY <3>3, <3>6, OneMore
      <3>8. chain' = chain /\ waiting # {}
        BY <1>4, <3>1 DEF SendSignal, list
      <3> QED
        BY <1>a, <3>4, <3>6, <3>7, <3>8 DEF NoLostWakeup
    <2> QED
      BY <2>1, <2>2
  <1>5. ASSUME NEW r \in Receiver, RecvCall(r) \/ RecvSpurious(r)
        PROVE  NoLostWakeup'
    <2>1. r \notin Awake /\ Awake' = Awake \cup {r}
      BY <1>5, <1>c DEF RecvCall, RecvSpurious, Goto, Awake, Threads
    <2>2. /\ Signalling' = Signalling /\ chain' = chain
          /\ waiting' \subseteq waiting
      BY <1>5, <1>c DEF RecvCall, RecvSpurious, Goto, Signalling, Threads, list
    <2>3. Cardinality(Awake') = A + 1
      BY <2>1, <1>b, OneMore
    <2>4. waiting' # {} => waiting # {}
      BY <2>2
    <2> QED
      BY <1>a, <2>2, <2>3, <2>4 DEF NoLostWakeup
  <1>6. ASSUME NEW r \in Receiver,
               RecvLock(r) \/ RecvWake(r) \/ RecvUnlock(r) \/ RecvReturn(r)
        PROVE  NoLostWakeup'
    <2>1. Awake' = Awake /\ Signalling' = Signalling
      BY <1>6, <1>c DEF RecvLock, RecvWake, RecvUnlock, RecvReturn, Goto,
         Awake, Signalling, Threads
    <2>2. waiting' = waiting /\ chain' = chain
      BY <1>6 DEF RecvLock, RecvWake, RecvUnlock, RecvReturn, list
    <2> QED
      BY <1>1, <2>1, <2>2
  <1>7. ASSUME NEW r \in Receiver, RecvWait(r)
        PROVE  NoLostWakeup'
    <2>1. chain # <<>> => chain[1] \in Node
      BY <1>c, TailEntries
    <2>2. chain = <<>>
      BY <1>0, <1>7, <2>1, NodeAssumption DEF IInv, WellLinked, RecvWait
    <2>3. chain' = <<>> /\ Len(chain') = 0
      BY <1>7, <2>2 DEF RecvWait, list
    <2>4. /\ IsFiniteSet(Awake') /\ IsFiniteSet(Signalling')
          /\ Cardinality(Awake') \in Nat /\ Cardinality(Signalling') \in Nat
      BY ThreadAssumption, FS_Subset, FS_CardinalityType DEF Awake, Signalling
    <2> QED
      BY <2>3, <2>4 DEF NoLostWakeup
  <1>8. ASSUME NEW r \in Receiver, RecvUnlink(r)
        PROVE  NoLostWakeup'
    <2>1. r \notin Awake' /\ Awake = Awake' \cup {r}
      BY <1>8, <1>c DEF RecvUnlink, Goto, Awake, Threads
    <2>2. Signalling' = Signalling /\ waiting' = waiting
      BY <1>8, <1>c DEF RecvUnlink, Goto, Signalling, Threads
    <2>3. Awake' \subseteq Awake
      BY <2>1
    <2>4. IsFiniteSet(Awake') /\ Cardinality(Awake') \in Nat
      BY <2>3, <1>b, FS_Subset, FS_CardinalityType
    <2>5. A = Cardinality(Awake') + 1
      BY <2>1, <2>4, OneMore
    <2>6. chain # <<>>
      BY <1>0, <1>8 DEF IInv, WellLinked, RecvUnlink
    <2>7. Len(chain') = L - 1
      BY <1>8, <1>c, <2>6, TailEntries DEF RecvUnlink
    <2> QED
      BY <1>a, <2>2, <2>4, <2>5, <2>7 DEF NoLostWakeup
  <1>9. CASE UNCHANGED vars
    BY <1>1, <1>9 DEF vars, Awake, Signalling
  <1> QED
    BY <1>2, <1>3, <1>4, <1>5, <1>6, <1>7, <1>8, <1>9
    DEF Next, SendStep, RecvStep

\* No wake-up is lost, however many senders and receivers share the channel:
\* while a receiver sleeps in cond_wait, enough others are awake, or about to
\* be woken, to take every value in the list.
THEOREM WakeupsSuffice == Spec => []NoLostWakeup
  <1>1. Init => NoLostWakeup
    BY DEF Init, NoLostWakeup
  <1>2. IInv /\ NoLostWakeup /\ [Next]_vars => NoLostWakeup'
    BY WakeupStep
  <1> QED
    BY <1>1, <1>2, InductiveInvariant, PTL DEF Spec

-----------------------------------------------------------------------------
(* Refinement: the linked list implements the FIFO queue of ChannelQueue *)

\* The mapped queue after a step that leaves the chain and its values alone.
LEMMA SameQueue ==
  ASSUME chain' = chain,
         \A i \in 1 .. Len(chain) : value'[chain[i]] = value[chain[i]]
  PROVE  QueueValues' = QueueValues
  BY DEF QueueValues

LEMMA QueueEntries ==
  ASSUME IInv
  PROVE  /\ QueueValues \in Seq(Value)
         /\ Len(QueueValues) = Len(chain)
         /\ Len(chain) \in Nat
         /\ \A i \in 1 .. Len(chain) :
              QueueValues[i] = value[chain[i]] /\ value[chain[i]] \in Value
  <1>1. Len(chain) \in Nat
    BY DEF IInv, TypeOK
  <1>2. ASSUME NEW i \in 1 .. Len(chain)
        PROVE  value[chain[i]] \in Value
    BY DEF IInv, OneOwner, Filled
  <1> QED
    BY <1>1, <1>2 DEF QueueValues

\* The same after a step.
LEMMA QueueEntriesNext ==
  ASSUME IInv'
  PROVE  /\ QueueValues' \in Seq(Value)
         /\ Len(QueueValues') = Len(chain')
         /\ \A i \in 1 .. Len(chain') : QueueValues'[i] = value'[chain'[i]]
  <1>1. Len(chain') \in Nat
    BY DEF IInv, TypeOK
  <1>2. ASSUME NEW i \in 1 .. Len(chain')
        PROVE  value'[chain'[i]] \in Value
    BY DEF IInv, OneOwner, Filled
  <1> QED
    BY <1>1, <1>2 DEF QueueValues

\* Two sequences of the same length and entries are equal.
LEMMA SameEntries ==
  ASSUME NEW S, NEW p \in Seq(S), NEW q \in Seq(S), Len(p) = Len(q),
         \A i \in 1 .. Len(p) : p[i] = q[i]
  PROVE  p = q
  BY SeqEqual

LEMMA InitAbstract == Init => Abstract!Init
  BY DEF Init, Abstract!Init, Enqueued, QueueValues, HandValues, Taken, Threads

LEMMA StepAbstract ==
  ASSUME IInv, IInv', [Next]_vars
  PROVE  [Abstract!Next]_<<[s \in Sender |-> Enqueued(s)], QueueValues,
                           HandValues, got>>
  <1> DEFINE Enq == [s \in Sender |-> Enqueued(s)]
  <1> USE ThreadAssumption
  <1>a. IInv /\ IInv'
    OBVIOUS
  <1>c. /\ pc \in [Threads -> {"idle"} \cup SendState \cup RecvState]
        /\ node \in [Threads -> Node \cup {NULL}]
        /\ sent \in [Sender -> 0 .. MaxSends] /\ BoundAssumption
        /\ chain \in Seq(Node)
        /\ \A s \in Sender : pc[s] \in {"idle"} \cup SendState
        /\ \A r \in Receiver : pc[r] \in {"idle"} \cup RecvState
    BY BoundAssumption DEF IInv, TypeOK, SendLocals, RecvLocals
  <1>d. \A r \in Receiver : Taken(r) =>
          node[r] \in allocated /\ value[node[r]] \in Value
    BY DEF IInv, RecvLocals, Filled
  <1>e. \A i \in 1 .. Len(chain) : chain[i] \in allocated
    BY DEF IInv, OneOwner
  <1> HIDE DEF IInv
  <1>1. ASSUME NEW s \in Sender, SendAlloc(s)
        PROVE  Enq' = Enq /\ QueueValues' = QueueValues
               /\ HandValues' = HandValues /\ got' = got
    <2>1. PICK n \in Node \ allocated :
            /\ node' = [node EXCEPT ![s] = n]
            /\ value' = [value EXCEPT ![n] = <<s, sent[s] + 1>>]
      BY <1>1 DEF SendAlloc
    <2>2. pc[s] = "idle" /\ pc' = [pc EXCEPT ![s] = "send_lock"]
          /\ sent' = sent /\ chain' = chain /\ got' = got
      BY <1>1 DEF SendAlloc, Goto, list
    <2>3. Enq' = Enq
      BY <2>2, <1>c DEF Enqueued, Threads
    <2>4. QueueValues' = QueueValues
      BY <2>1, <2>2, <1>a, <1>e, SameQueue DEF IInv, TypeOK
    <2>5. ASSUME NEW r \in Receiver
          PROVE  /\ Taken(r)' <=> Taken(r)
                 /\ node'[r] = node[r]
                 /\ Taken(r) => value'[node[r]] = value[node[r]]
      BY <2>1, <2>2, <1>a, <1>c, <1>d DEF Taken, Threads, IInv, TypeOK
    <2>6. HandValues' = HandValues
      BY <2>5 DEF HandValues
    <2> QED
      BY <2>2, <2>3, <2>4, <2>6
  <1>2. ASSUME NEW s \in Sender,
               SendLock(s) \/ SendSignal(s) \/ SendUnlock(s)
        PROVE  Enq' = Enq /\ QueueValues' = QueueValues
               /\ HandValues' = HandValues /\ got' = got
    <2>1. chain' = chain /\ value' = value /\ got' = got
      BY <1>2 DEF SendLock, SendSignal, SendUnlock, list, heap
    <2>2. Enq' = Enq
      <3>1. \A u \in Sender \ {s} : pc'[u] = pc[u] /\ sent'[u] = sent[u]
        BY <1>2, <1>c DEF SendLock, SendSignal, SendUnlock, Goto, Threads
      <3>2. \/ /\ pc[s] = "send_lock" /\ pc'[s] = "send_link"
               /\ sent'[s] = sent[s]
            \/ /\ pc[s] = "send_signal" /\ pc'[s] = "send_unlock"
               /\ sent'[s] = sent[s]
            \/ /\ pc[s] = "send_unlock" /\ pc'[s] = "idle"
               /\ sent'[s] = sent[s] + 1
        BY <1>2, <1>c DEF SendLock, SendSignal, SendUnlock, Goto, Threads
      <3>3. Enqueued(s)' = Enqueued(s)
        BY <3>2, <1>c DEF Enqueued
      <3>4. \A u \in Sender : Enqueued(u)' = Enqueued(u)
        BY <3>1, <3>3 DEF Enqueued
      <3> QED
        BY <3>4
    <2>3. \A r \in Receiver : (Taken(r)' <=> Taken(r)) /\ node'[r] = node[r]
      BY <1>2, <1>c DEF SendLock, SendSignal, SendUnlock, Goto, Taken, Threads
    <2>4. HandValues' = HandValues
      BY <2>1, <2>3 DEF HandValues
    <2> QED
      BY <2>1, <2>2, <2>4, SameQueue
  <1>3. ASSUME NEW s \in Sender, SendLink(s)
        PROVE  Abstract!Enqueue(s)
    <2>1. /\ pc[s] = "send_link" /\ pc' = [pc EXCEPT ![s] = "send_signal"]
          /\ value' = value /\ node' = node /\ sent' = sent /\ got' = got
          /\ chain' = Append(chain, node[s])
      BY <1>3 DEF SendLink, Goto
    <2>2. node[s] \in Node /\ value[node[s]] = <<s, sent[s] + 1>>
          /\ <<s, sent[s] + 1>> \in Value
      BY <2>1, <1>a, <1>c DEF IInv, TypeOK, SendLocals, Value
    <2>3. Enq' = [Enq EXCEPT ![s] = @ + 1]
      <3>1. \A u \in Sender \ {s} : pc'[u] = pc[u]
        BY <2>1, <1>c DEF Threads
      <3>2. Enqueued(s)' = Enqueued(s) + 1
        BY <2>1, <1>c DEF Enqueued, Threads
      <3>3. \A u \in Sender \ {s} : Enqueued(u)' = Enqueued(u)
        BY <2>1, <3>1 DEF Enqueued
      <3> QED
        BY <3>2, <3>3
    <2>4. QueueValues' = Append(QueueValues, <<s, Enq[s] + 1>>)
      <3>1. Enq[s] = sent[s]
        BY <2>1, <1>c DEF Enqueued
      <3>2. /\ QueueValues \in Seq(Value) /\ QueueValues' \in Seq(Value)
            /\ Len(QueueValues) = Len(chain)
            /\ Len(QueueValues') = Len(chain')
            /\ Len(chain) \in Nat
            /\ \A i \in 1 .. Len(chain) : QueueValues[i] = value[chain[i]]
            /\ \A i \in 1 .. Len(chain') : QueueValues'[i] = value'[chain'[i]]
        BY <1>a, QueueEntries, QueueEntriesNext
      <3>3. /\ Len(chain') = Len(chain) + 1
            /\ \A i \in 1 .. Len(chain) : chain'[i] = chain[i]
            /\ chain'[Len(chain) + 1] = node[s]
        BY <2>1, <2>2, <1>c, AppendEntries
      <3> DEFINE Q == Append(QueueValues, <<s, sent[s] + 1>>)
      <3>4. /\ Q \in Seq(Value)
            /\ Len(Q) = Len(chain) + 1
            /\ \A i \in 1 .. Len(chain) : Q[i] = QueueValues[i]
            /\ Q[Len(chain) + 1] = <<s, sent[s] + 1>>
        BY <2>2, <3>2, AppendEntries
      <3> HIDE DEF Q
      <3>5. ASSUME NEW i \in 1 .. Len(QueueValues')
            PROVE  QueueValues'[i] = Q[i]
        <4>1. CASE i \in 1 .. Len(chain)
          BY <4>1, <2>1, <3>2, <3>3, <3>4
        <4>2. CASE i = Len(chain) + 1
          BY <4>2, <2>1, <2>2, <3>2, <3>3, <3>4
        <4> QED
          BY <4>1, <4>2, <3>2, <3>3
      <3>6. QueueValues' = Q
        BY <3>2, <3>3, <3>4, <3>5, SameEntries
      <3> QED
        BY <3>1, <3>6 DEF Q
    <2>5. \A r \in Receiver : Taken(r)' <=> Taken(r)
      BY <2>1, <1>c DEF Taken, Threads
    <2>6. HandValues' = HandValues
      BY <2>1, <2>5 DEF HandValues
    <2> QED
      BY <2>1, <2>3, <2>4, <2>6 DEF Abstract!Enqueue
  <1>4. ASSUME NEW r \in Receiver,
               \/ RecvCall(r) \/ RecvLock(r) \/ RecvWait(r)
               \/ RecvSpurious(r) \/ RecvWake(r) \/ RecvUnlock(r)
        PROVE  Enq' = Enq /\ QueueValues' = QueueValues
               /\ HandValues' = HandValues /\ got' = got
    <2>1. chain' = chain /\ value' = value /\ got' = got /\ node' = node
          /\ sent' = sent
      BY <1>4 DEF RecvCall, RecvLock, RecvWait, RecvSpurious, RecvWake,
         RecvUnlock, list, heap
    <2>2. \A s \in Sender : pc'[s] = pc[s]
      BY <1>4, <1>c DEF RecvCall, RecvLock, RecvWait, RecvSpurious, RecvWake,
         RecvUnlock, Goto, Threads
    <2>3. Enq' = Enq
      BY <2>1, <2>2 DEF Enqueued
    <2>4. \A q \in Receiver : Taken(q)' <=> Taken(q)
      BY <1>4, <1>c DEF RecvCall, RecvLock, RecvWait, RecvSpurious, RecvWake,
         RecvUnlock, Goto, Taken, Threads
    <2>5. HandValues' = HandValues
      BY <2>1, <2>4 DEF HandValues
    <2> QED
      BY <2>1, <2>3, <2>5, SameQueue
  <1>5. ASSUME NEW r \in Receiver, RecvUnlink(r)
        PROVE  Abstract!Dequeue(r)
    <2>1. /\ pc[r] = "recv_test" /\ pc' = [pc EXCEPT ![r] = "recv_unlock"]
          /\ value' = value /\ sent' = sent /\ got' = got
          /\ node' = [node EXCEPT ![r] = head]
          /\ chain' = Tail(chain) /\ head # NULL
      BY <1>5 DEF RecvUnlink, Goto, heap
    <2>2. chain # <<>> /\ head = chain[1]
      BY <2>1, <1>a DEF IInv, WellLinked
    <2>3. /\ QueueValues \in Seq(Value) /\ QueueValues' \in Seq(Value)
          /\ Len(QueueValues) = Len(chain)
          /\ Len(QueueValues') = Len(chain')
          /\ \A i \in 1 .. Len(chain) : QueueValues[i] = value[chain[i]]
          /\ \A i \in 1 .. Len(chain') : QueueValues'[i] = value'[chain'[i]]
      BY <1>a, QueueEntries, QueueEntriesNext
    <2>4. /\ Len(chain) \in Nat \ {0}
          /\ Len(chain') = Len(chain) - 1
          /\ \A i \in 1 .. Len(chain) - 1 : chain'[i] = chain[i + 1]
      BY <2>1, <2>2, <1>c, TailEntries
    <2>5. QueueValues # <<>>
      BY <2>3, <2>4, EmptySeq
    <2>6. Head(QueueValues) = value[head]
      BY <2>2, <2>3, <2>4, <2>5, TailEntries
    <2>7. QueueValues' = Tail(QueueValues)
      <3> DEFINE Q == Tail(QueueValues)
      <3>1. /\ Q \in Seq(Value)
            /\ Len(Q) = Len(chain) - 1
            /\ \A i \in 1 .. Len(chain) - 1 : Q[i] = QueueValues[i + 1]
        BY <2>3, <2>5, TailEntries
      <3> HIDE DEF Q
      <3>2. ASSUME NEW i \in 1 .. Len(QueueValues')
            PROVE  QueueValues'[i] = Q[i]
        <4>1. i \in 1 .. Len(chain) - 1 /\ i + 1 \in 1 .. Len(chain)
          BY <2>3, <2>4
        <4> QED
          BY <4>1, <2>1, <2>3, <2>4, <3>1
      <3>3. QueueValues' = Q
        BY <2>3, <2>4, <3>1, <3>2, SameEntries
      <3> QED
        BY <3>3 DEF Q
    <2>8. ~ Taken(r) /\ Taken(r)' /\ node'[r] = head
          /\ \A q \in Receiver \ {r} :
               (Taken(q)' <=> Taken(q)) /\ node'[q] = node[q]
      BY <2>1, <1>c DEF Taken, Threads
    <2>9. HandValues[r] = NULL
          /\ HandValues' = [HandValues EXCEPT ![r] = value[head]]
      <3> DEFINE H(q) == IF Taken(q) THEN value[node[q]] ELSE NULL
      <3>1. H(r) = NULL /\ H(r)' = value[head]
        BY <2>1, <2>8
      <3>2. \A q \in Receiver \ {r} : H(q)' = H(q)
        BY <2>1, <2>8
      <3>3. HandValues = [q \in Receiver |-> H(q)]
        BY DEF HandValues
      <3>4. HandValues' = [q \in Receiver |-> H(q)']
        BY DEF HandValues
      <3> HIDE DEF H
      <3> QED
        BY <3>1, <3>2, <3>3, <3>4
    <2>10. Enq' = Enq
      <3>1. \A s \in Sender : pc'[s] = pc[s]
        BY <2>1, <1>c DEF Threads
      <3> QED
        BY <2>1, <3>1 DEF Enqueued
    <2> QED
      BY <2>1, <2>5, <2>6, <2>7, <2>9, <2>10 DEF Abstract!Dequeue
  <1>6. ASSUME NEW r \in Receiver, RecvReturn(r)
        PROVE  Abstract!Return(r)
    <2>1. /\ pc[r] = "recv_read" /\ pc' = [pc EXCEPT ![r] = "idle"]
          /\ value' = value /\ sent' = sent /\ chain' = chain
          /\ node' = [node EXCEPT ![r] = NULL]
          /\ got' = [got EXCEPT ![r] = Append(@, value[node[r]])]
      BY <1>6 DEF RecvReturn, Goto, list
    <2>2. Taken(r) /\ ~ Taken(r)'
          /\ \A q \in Receiver \ {r} :
               (Taken(q)' <=> Taken(q)) /\ node'[q] = node[q]
      BY <2>1, <1>c DEF Taken, Threads
    <2>3. HandValues[r] = value[node[r]] /\ HandValues[r] # NULL
      BY <2>2, <1>d, ValueAssumption DEF HandValues, Value
    <2>4. HandValues' = [HandValues EXCEPT ![r] = NULL]
      <3> DEFINE H(q) == IF Taken(q) THEN value[node[q]] ELSE NULL
      <3>1. H(r)' = NULL
        BY <2>1, <2>2
      <3>2. \A q \in Receiver \ {r} : H(q)' = H(q)
        BY <2>1, <2>2
      <3>3. HandValues = [q \in Receiver |-> H(q)]
        BY DEF HandValues
      <3>4. HandValues' = [q \in Receiver |-> H(q)']
        BY DEF HandValues
      <3> HIDE DEF H
      <3> QED
        BY <3>1, <3>2, <3>3, <3>4
    <2>5. Enq' = Enq
      <3>1. \A s \in Sender : pc'[s] = pc[s]
        BY <2>1, <1>c DEF Threads
      <3> QED
        BY <2>1, <3>1 DEF Enqueued
    <2>6. QueueValues' = QueueValues
      BY <2>1, SameQueue
    <2> QED
      BY <2>1, <2>3, <2>4, <2>5, <2>6 DEF Abstract!Return
  <1>7. CASE UNCHANGED vars
    <2>1. Enq' = Enq /\ QueueValues' = QueueValues
          /\ HandValues' = HandValues /\ got' = got
      BY <1>7 DEF vars, Enqueued, QueueValues, HandValues, Taken
    <2> QED
      BY <2>1
  <1> QED
    BY <1>1, <1>2, <1>3, <1>4, <1>5, <1>6, <1>7
    DEF Next, SendStep, RecvStep, Abstract!Next

\* The channel is a FIFO queue: every execution of the linked list under its
\* lock is, step by step, one of the abstract queue in which a send or a
\* receive takes effect at a single instant.
THEOREM ChannelIsQueue == Spec => ImplementsQueue
  <1>1. Init => Abstract!Init
    BY InitAbstract
  <1>2. IInv /\ IInv' /\ [Next]_vars
          => [Abstract!Next]_<<[s \in Sender |-> Enqueued(s)], QueueValues,
                               HandValues, got>>
    BY StepAbstract
  <1> QED
    BY <1>1, <1>2, InductiveInvariant, PTL
    DEF Spec, ImplementsQueue, Abstract!Spec, Abstract!avars
=============================================================================
