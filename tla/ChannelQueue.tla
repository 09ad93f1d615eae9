---------------------------- MODULE ChannelQueue ----------------------------
(***************************************************************************)
(* What a Turbo channel promises, with no lock, no condition variable and  *)
(* no pointer in sight: an unbounded FIFO queue shared by senders and      *)
(* receivers.  A send takes effect at one instant (Enqueue), a receive     *)
(* takes effect at one instant (Dequeue) and answers later (Return), and a *)
(* receive on an empty queue waits.  Module Channel is shown to implement  *)
(* this.                                                                   *)
(***************************************************************************)
EXTENDS Integers, Sequences

CONSTANTS Sender, Receiver, None

VARIABLES
  enqueued,   \* enqueued[s]: how many sends of s have taken effect
  queue,      \* the values sent and not yet received, oldest first
  hand,       \* hand[r]: the value a receive of r took and has not answered
  got         \* got[r]: what the receives of r have answered, in order

avars == <<enqueued, queue, hand, got>>

\* The k-th value sender s sends.  Values are told apart by who sent them
\* and when: that is all FIFO order and exactly-once delivery can see.
Value == Sender \X (Nat \ {0})

Init ==
  /\ enqueued = [s \in Sender |-> 0]
  /\ queue = <<>>
  /\ hand = [r \in Receiver |-> None]
  /\ got = [r \in Receiver |-> <<>>]

Enqueue(s) ==
  /\ enqueued' = [enqueued EXCEPT ![s] = @ + 1]
  /\ queue' = Append(queue, <<s, enqueued[s] + 1>>)
  /\ UNCHANGED <<hand, got>>

Dequeue(r) ==
  /\ hand[r] = None
  /\ queue # <<>>
  /\ hand' = [hand EXCEPT ![r] = Head(queue)]
  /\ queue' = Tail(queue)
  /\ UNCHANGED <<enqueued, got>>

Return(r) ==
  /\ hand[r] # None
  /\ got' = [got EXCEPT ![r] = Append(@, hand[r])]
  /\ hand' = [hand EXCEPT ![r] = None]
  /\ UNCHANGED <<enqueued, queue>>

Next ==
  \/ \E s \in Sender : Enqueue(s)
  \/ \E r \in Receiver : Dequeue(r) \/ Return(r)

Spec == Init /\ [][Next]_avars
=============================================================================
