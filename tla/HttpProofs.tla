------------------------------ MODULE HttpProofs ------------------------------
(***************************************************************************)
(* Theorems about the HTTP server.  First HttpConn, for every script a     *)
(* client may send and every configured limit: the state of a connection   *)
(* keeps its shape (so reads and copies stay inside the buffer), arenas    *)
(* are paired, and an announced end of the connection is kept; then that   *)
(* requests are framed as their clients meant them.  The accept loop of    *)
(* HttpListen follows.                                                     *)
(*                                                                         *)
(* TypeOK is not inductive.  What the worker does with the buffer after    *)
(* the handler returned is in bounds because of what it measured before    *)
(* (Measured), which still holds since nothing is read in between; and the *)
(* mark NoBody is not taken for a body because no NUL is among the bytes a *)
(* client sent (Clean).  CloseKept needs the number of answers at each     *)
(* place of the worker (Counting).                                         *)
(***************************************************************************)
EXTENDS HttpConn, HttpListen, FiniteSetTheorems, SequenceTheorems,
        WellFoundedInduction, TLAPS

\* What is on the wire, and what of it is in the buffer, is what clients send.
Clean ==
  /\ unread \in Seq(Data)
  /\ \A i \in 0 .. buf_len - 1 : mem[i] \in Data
  /\ heap # NoBody => heap \in Seq(Data)

\* The request being read or handled was measured, and is all there.
Measured ==
  /\ pc = "handle" /\ heap = NoBody =>
       GoodHead /\ BodyAvailable >= ContentLength
  /\ pc = "heap" =>
       GoodHead /\ heap # NoBody /\ Len(heap) <= ContentLength

\* How many requests were answered, at each place.
Counting ==
  /\ answers \in Seq([status : {200, 400, 413, 431, 500}, request : Request, last : BOOLEAN])
  /\ \A i \in 1 .. Len(answers) - 1 : ~ answers[i].last
  /\ answers # <<>> /\ answers[Len(answers)].last => pc \in {"done", "closed"}
  /\ Len(answers) <= KeepAliveMax
  /\ pc \notin {"handle", "done", "closed"} => Len(answers) = served /\ served < KeepAliveMax
  /\ pc = "handle" =>
       /\ Len(answers) = served - 1
       /\ keep => served < KeepAliveMax

\* And since when the shutdown flag was set.
CountingDown ==
  /\ earlier \in Nat
  /\ shutdown =>
       /\ Len(answers) <= earlier + 2
       /\ pc \notin {"done", "closed"} => Len(answers) <= earlier + 1
       /\ pc = "handle" /\ keep => Len(answers) <= earlier

IInv == TypeOK /\ Clean /\ Measured /\ ArenaPaired /\ Counting /\ CountingDown

-----------------------------------------------------------------------------
(* The buffer *)

\* Where a head ends, it ends inside the buffer.
LEMMA HeadInBuffer ==
  ASSUME HasHead
  PROVE  BodyStart \in 1 .. Cap + 1
PROOF
  <1> DEFINE e == CHOOSE i \in Ends : TRUE
  <1>1. e \in Ends
    BY DEF HasHead
  <1>2. Ends \subseteq 0 .. Cap
    BY DEF Ends
  <1>3. BodyStart = 1 + e
    BY DEF BodyStart
  <1> HIDE DEF e
  <1> QED
    BY <1>1, <1>2, <1>3, ConfigAssumption

\* Cells copied out of the buffer are cells.
LEMMA CellsType ==
  ASSUME mem \in [0 .. Cap -> Cell], NEW from \in Nat, NEW count \in Nat, from + count <= Cap + 1
  PROVE  Cells(from, count) \in Seq(Cell) /\ Len(Cells(from, count)) = count
PROOF
  <1>1. \A i \in 1 .. count : mem[from + i - 1] \in Cell
    BY ConfigAssumption
  <1> QED
    BY <1>1 DEF Cells

\* A step that leaves the buffer's cells alone leaves what they say.
LEMMA SameBuffer ==
  ASSUME UNCHANGED buffer
  PROVE  /\ GoodHead' = GoodHead /\ HasHead' = HasHead
         /\ BodyAvailable' = BodyAvailable /\ ContentLength' = ContentLength
         /\ BodyStart' = BodyStart
PROOF
  BY DEF buffer, GoodHead, HasHead, BodyAvailable, ContentLength, TheHead, Cells, BodyStart, Ends
\* The smaller of two numbers, and the larger.
LEMMA MinOfTwo ==
  ASSUME NEW x \in Int, NEW y \in Int
  PROVE  Min({x, y}) \in Int /\ Min({x, y}) <= x /\ Min({x, y}) <= y
PROOF
  <1>1. \E z \in {x, y} : \A w \in {x, y} : z =< w
    OBVIOUS
  <1> QED
    BY <1>1 DEF Min

LEMMA MaxOfTwo ==
  ASSUME NEW x \in Int, NEW y \in Int
  PROVE  Max({x, y}) \in {x, y} /\ Max({x, y}) >= x /\ Max({x, y}) >= y
PROOF
  <1>1. \E z \in {x, y} : \A w \in {x, y} : z >= w
    OBVIOUS
  <1> QED
    BY <1>1 DEF Max

-----------------------------------------------------------------------------
(* Answers *)

\* The worker moves on, or gives up, without an answer.
LEMMA Unanswered ==
  ASSUME Counting, CountingDown, UNCHANGED <<answers, served, keep, shutdown, earlier>>,
         pc' # "handle",
         pc' \in {"done", "closed"} \/ pc \notin {"handle", "done", "closed"}
  PROVE  Counting' /\ CountingDown'
PROOF
  BY DEF Counting, CountingDown

\* The last answer of a connection: the worker stops where it gave it.
LEMMA AnsweredLast ==
  ASSUME TypeOK, Counting, CountingDown,
         NEW status \in {200, 400, 413, 431, 500}, NEW r \in Request,
         answers' = Append(answers, [status |-> status, request |-> r, last |-> TRUE]),
         UNCHANGED <<served, keep, shutdown, earlier>>,
         pc \notin {"done", "closed"}, pc' = "done"
  PROVE  Counting' /\ CountingDown'
PROOF
  <1> DEFINE a == [status |-> status, request |-> r, last |-> TRUE]
  <1>1. /\ Len(answers) \in Nat /\ Len(answers) < KeepAliveMax
        /\ \A i \in 1 .. Len(answers) : ~ answers[i].last
    BY ConfigAssumption DEF Counting, TypeOK
  <1>2. /\ answers' \in Seq([status : {200, 400, 413, 431, 500}, request : Request, last : BOOLEAN])
        /\ Len(answers') = Len(answers) + 1
        /\ \A i \in 1 .. Len(answers) : answers'[i] = answers[i]
    BY DEF Counting
  <1>3. Counting'
    BY <1>1, <1>2, ConfigAssumption DEF Counting
  <1>4. CountingDown'
    BY <1>1, <1>2 DEF CountingDown
  <1> QED
    BY <1>3, <1>4

\* The answer of a request that was handled.
LEMMA AnsweredHandled ==
  ASSUME TypeOK, Counting, CountingDown, pc = "handle",
         answers' = Append(answers, [status |-> 200, request |-> request, last |-> ~ keep]),
         UNCHANGED <<served, keep, shutdown, earlier>>,
         pc' = IF keep THEN pc' ELSE "done", pc' \in {"done", "process", "top"}
  PROVE  Counting' /\ CountingDown'
PROOF
  <1>1. /\ Len(answers) \in Nat /\ Len(answers) = served - 1 /\ served \in 0 .. KeepAliveMax
        /\ \A i \in 1 .. Len(answers) : ~ answers[i].last
    BY DEF Counting, TypeOK
  <1>2. /\ answers' \in Seq([status : {200, 400, 413, 431, 500}, request : Request, last : BOOLEAN])
        /\ Len(answers') = Len(answers) + 1
        /\ \A i \in 1 .. Len(answers) : answers'[i] = answers[i]
        /\ answers'[Len(answers) + 1].last = ~ keep
    BY DEF Counting, TypeOK
  <1>3. Counting'
    <2>1. CASE keep
      <3>1. ~ answers'[Len(answers) + 1].last
        BY <1>2, <2>1
      <3>2. \A i \in 1 .. Len(answers') : ~ answers'[i].last
        BY <1>1, <1>2, <3>1
      <3>3. served < KeepAliveMax
        BY <2>1 DEF Counting
      <3> QED
        BY <1>1, <1>2, <2>1, <3>2, <3>3, ConfigAssumption DEF Counting
    <2>2. CASE ~ keep
      BY <1>1, <1>2, <2>2, ConfigAssumption DEF Counting
    <2> QED
      BY <2>1, <2>2
  <1>4. CountingDown'
    BY <1>1, <1>2 DEF CountingDown
  <1> QED
    BY <1>3, <1>4

-----------------------------------------------------------------------------
(* The invariant *)

LEMMA NoBodyType == NoBody \in Seq(Cell)
PROOF
  BY DEF NoBody, Cell

LEMMA InitIInv == Init => IInv
PROOF
  <1> SUFFICES ASSUME Init PROVE IInv
    OBVIOUS
  <1> USE ConfigAssumption DEF Init
  <1>1. script \in Seq([head : Seq(Data), body : Seq(Data), waits : BOOLEAN])
    BY ScriptAssumption
  <1>2. TypeOK
    <2>1. script \in Scripts /\ sent \in 0 .. Len(script) /\ unread \in Seq(Cell)
      BY <1>1
    <2>2. mem \in [0 .. Cap -> Cell] /\ heap \in Seq(Cell) /\ heap = NoBody
      BY DEF Cell, NoBody
    <2>3. request \in Request
      BY DEF NoRequest, Request
    <2> QED
      BY <2>1, <2>2, <2>3 DEF TypeOK
  <1>3. Clean /\ Measured /\ ArenaPaired
    BY DEF Clean, Measured, ArenaPaired, NoBody
  <1>4. Counting /\ CountingDown
    BY DEF Counting, CountingDown
  <1> QED
    BY <1>2, <1>3, <1>4 DEF IInv

\* The client and the signal.
LEMMA SendIInv == IInv /\ Send => IInv'
PROOF
  <1> SUFFICES ASSUME IInv, Send PROVE IInv'
    OBVIOUS
  <1>1. script \in Seq([head : Seq(Data), body : Seq(Data), waits : BOOLEAN])
    BY ScriptAssumption DEF IInv, TypeOK
  <1>2. sent + 1 \in 1 .. Len(script) /\ sent' = sent + 1 /\ sent' \in 0 .. Len(script)
    BY <1>1 DEF Send, IInv, TypeOK
  <1>3. script[sent + 1].head \in Seq(Data) /\ script[sent + 1].body \in Seq(Data)
    <2>1. script[sent + 1] \in [head : Seq(Data), body : Seq(Data), waits : BOOLEAN]
      BY <1>1, <1>2, ElementOfSeq
    <2> QED
      BY <2>1
  <1>4. unread' = unread \o script[sent + 1].head \o script[sent + 1].body
    BY DEF Send
  <1>5. unread' \in Seq(Data)
    BY <1>3, <1>4 DEF IInv, Clean
  <1>6. unread' \in Seq(Cell)
    BY <1>5, SeqMonotonic DEF Data
  <1>7. /\ UNCHANGED <<script, shutdown, earlier, mem, buf_len, pc, arena, heap, served, request, keep, answers>>
        /\ UNCHANGED buffer
    BY DEF Send, buffer, handling
  <1>8. TypeOK'
    BY <1>2, <1>6, <1>7 DEF IInv, TypeOK
  <1>9. Clean' /\ ArenaPaired' /\ Counting' /\ CountingDown'
    BY <1>5, <1>7 DEF IInv, Clean, ArenaPaired, Counting, CountingDown
  <1>10. Measured'
    BY <1>7, SameBuffer DEF IInv, Measured
  <1> QED
    BY <1>8, <1>9, <1>10 DEF IInv

LEMMA ShutdownIInv == IInv /\ Shutdown => IInv'
PROOF
  <1> SUFFICES ASSUME IInv, Shutdown PROVE IInv'
    OBVIOUS
  <1>1. /\ UNCHANGED <<script, sent, unread, mem, buf_len, pc, arena, heap, served, request, keep, answers>>
        /\ UNCHANGED buffer /\ shutdown' = TRUE /\ earlier' = Len(answers)
    BY DEF Shutdown, buffer, handling
  <1>2. TypeOK'
    BY <1>1 DEF IInv, TypeOK
  <1>3. Clean' /\ ArenaPaired' /\ Counting' /\ CountingDown'
    BY <1>1 DEF IInv, Clean, ArenaPaired, Counting, CountingDown
  <1>4. Measured'
    BY <1>1, SameBuffer DEF IInv, Measured
  <1> QED
    BY <1>2, <1>3, <1>4 DEF IInv

\* A step of the worker that leaves the buffer, the wire and the body alone and does
\* not go where the buffer is measured.
LEMMA Elsewhere ==
  ASSUME IInv, UNCHANGED <<client, unread, buffer, request>>,
         served' = served, keep' = keep, heap' \in {heap, NoBody},
         pc' \in {"top", "read", "process", "parse", "done", "closed"}, arena' \in BOOLEAN,
         ArenaPaired', Counting', CountingDown'
  PROVE  IInv'
PROOF
  <1>1. TypeOK'
    <2>1. heap' \in Seq(Cell) /\ (Len(heap') <= MaxBody \/ heap' = NoBody)
      BY NoBodyType DEF IInv, TypeOK
    <2> QED
      BY <2>1 DEF IInv, TypeOK, client, buffer
  <1>2. Clean' /\ Measured'
    BY DEF IInv, Clean, Measured, buffer
  <1> QED
    BY <1>1, <1>2 DEF IInv

\* The steps of the read loop that read nothing, and the end of the worker.
LEMMA LoopIInv ==
  ASSUME IInv, TopShutdown \/ TopWait \/ ReadEnd \/ ArenaBegin \/ ConnDone
  PROVE  IInv'
PROOF
  <1>1. Counting' /\ CountingDown'
    BY Unanswered DEF IInv, TopShutdown, TopWait, ReadEnd, ArenaBegin, ConnDone, handling, client
  <1>2. ArenaPaired'
    BY DEF IInv, ArenaPaired, TopShutdown, TopWait, ReadEnd, ArenaBegin, ConnDone, TypeOK
  <1> QED
    BY <1>1, <1>2, Elsewhere DEF TopShutdown, TopWait, ReadEnd, ArenaBegin, ConnDone, handling, IInv, TypeOK

\* The returns of process_request that read more or give up.
LEMMA ReturnIInv ==
  ASSUME IInv, NoHead \/ NeedMore \/ HeapReadFail \/ RespondFail
  PROVE  IInv'
PROOF
  <1>1. ArenaPaired'
    BY DEF IInv, ArenaPaired, NoHead, NeedMore, HeapReadFail, RespondFail, TypeOK
  <1>2. CASE NoHead
    <2>1. CASE buf_len >= Cap
      <3>1. NoRequest \in Request
        BY DEF NoRequest, Request
      <3>2. Counting' /\ CountingDown'
        <4>1. /\ answers' = Append(answers, [status |-> 431, request |-> NoRequest, last |-> TRUE])
              /\ pc = "parse" /\ pc' = "done"
              /\ UNCHANGED <<served, keep, shutdown, earlier>>
          BY <1>2, <2>1 DEF NoHead, Answer, handling, client
        <4>2. TypeOK /\ Counting /\ CountingDown
          BY DEF IInv
        <4> QED
          BY <3>1, <4>1, <4>2, AnsweredLast
      <3> QED
        BY <1>1, <1>2, <2>1, <3>2, Elsewhere DEF NoHead, handling
    <2>2. CASE ~ (buf_len >= Cap)
      <3>1. Counting' /\ CountingDown'
        BY <1>2, <2>2, Unanswered DEF IInv, NoHead, handling, client
      <3> QED
        BY <1>1, <1>2, <2>2, <3>1, Elsewhere DEF NoHead, handling
    <2> QED
      BY <2>1, <2>2
  <1>3. CASE NeedMore \/ HeapReadFail
    <2>1. Counting' /\ CountingDown'
      BY <1>3, Unanswered DEF IInv, NeedMore, HeapReadFail, handling, client
    <2> QED
      BY <1>1, <1>3, <2>1, Elsewhere DEF NeedMore, HeapReadFail, handling
  <1>4. CASE RespondFail
    <2>1. Counting' /\ CountingDown'
      BY <1>4, Unanswered DEF IInv, RespondFail, handling, client
    <2>2. NoRequest \in Request
      BY DEF NoRequest, Request
    <2>3. TypeOK'
      BY <1>4, <2>2, NoBodyType DEF IInv, TypeOK, RespondFail, client, buffer
    <2>4. Clean' /\ Measured'
      BY <1>4 DEF IInv, Clean, Measured, RespondFail, buffer
    <2> QED
      BY <1>1, <2>1, <2>3, <2>4 DEF IInv
  <1> QED
    BY <1>2, <1>3, <1>4

\* Requests that are refused.
LEMMA RefuseIInv ==
  ASSUME IInv, BadLine \/ BadLength \/ HeapBodyFail
  PROVE  IInv'
PROOF
  <1>1. NoRequest \in Request
    BY DEF NoRequest, Request
  <1>2. ArenaPaired'
    BY DEF IInv, ArenaPaired, BadLine, BadLength, HeapBodyFail, TypeOK
  <1>3. PICK status \in {400, 413, 500} :
          answers' = Append(answers, [status |-> status, request |-> NoRequest, last |-> TRUE])
    BY DEF BadLine, BadLength, HeapBodyFail, Answer
  <1>4. Counting' /\ CountingDown'
    <2>1. /\ pc = "parse" /\ pc' = "done"
          /\ UNCHANGED <<served, keep, shutdown, earlier>>
      BY DEF BadLine, BadLength, HeapBodyFail, handling, client
    <2>2. TypeOK /\ Counting /\ CountingDown
      BY DEF IInv
    <2> QED
      BY <1>1, <1>3, <2>1, <2>2, AnsweredLast
  <1> QED
    BY <1>2, <1>4, Elsewhere DEF BadLine, BadLength, HeapBodyFail, handling, IInv, TypeOK

-----------------------------------------------------------------------------
(* Bytes *)

\* Bytes that arrived and are read into the buffer.
LEMMA ReadIInv == IInv /\ Read => IInv'
PROOF
  <1> SUFFICES ASSUME IInv, Read PROVE IInv'
    OBVIOUS
  <1>1. PICK n \in 1 .. Min({Cap - buf_len, Len(unread)}) :
          /\ mem' = [i \in 0 .. Cap |->
                       IF i \in buf_len .. buf_len + n - 1
                         THEN unread[i - buf_len + 1]
                         ELSE IF i = buf_len + n THEN "NUL" ELSE mem[i]]
          /\ buf_len' = buf_len + n
          /\ unread' = SubSeq(unread, n + 1, Len(unread))
    BY DEF Read
  <1>2. buf_len \in 0 .. Cap /\ Len(unread) \in Nat /\ unread \in Seq(Data) /\ Cap \in Nat
    BY ConfigAssumption DEF IInv, TypeOK, Clean
  <1>3. n \in Nat \ {0} /\ n <= Cap - buf_len /\ n <= Len(unread)
    <2> DEFINE m == Min({Cap - buf_len, Len(unread)})
    <2>1. m \in Int /\ m <= Cap - buf_len /\ m <= Len(unread)
      <3>1. Cap - buf_len \in Int /\ Len(unread) \in Int
        BY <1>2
      <3> QED
        BY <3>1, MinOfTwo
    <2>2. n \in 1 .. m
      BY <1>1
    <2> HIDE DEF m
    <2> QED
      BY <1>2, <2>1, <2>2
  <1>4. unread' \in Seq(Data) /\ unread' \in Seq(Cell)
    <2>1. \A i \in n + 1 .. Len(unread) : unread[i] \in Data
      BY <1>2, <1>3, ElementOfSeq
    <2>2. unread' \in Seq(Data)
      BY <1>1, <1>2, <1>3, <2>1, SubSeqProperties
    <2> QED
      BY <2>2, SeqMonotonic DEF Data
  <1>5. \A i \in buf_len .. buf_len + n - 1 : unread[i - buf_len + 1] \in Data
    BY <1>2, <1>3, ElementOfSeq
  <1>6. mem' \in [0 .. Cap -> Cell] /\ buf_len' \in 0 .. Cap
    <2>1. mem \in [0 .. Cap -> Cell] /\ "NUL" \in Cell /\ Data \subseteq Cell
      BY DEF IInv, TypeOK, Cell, Data
    <2> QED
      BY <1>1, <1>2, <1>3, <1>5, <2>1
  <1>7. \A i \in 0 .. buf_len' - 1 : mem'[i] \in Data
    BY <1>1, <1>2, <1>3, <1>5 DEF IInv, Clean
  <1>8. /\ UNCHANGED <<client, arena, heap, served, request, keep, answers>>
        /\ pc = "read" /\ pc' = "process"
    BY DEF Read, handling
  <1>9. TypeOK'
    BY <1>4, <1>6, <1>8 DEF IInv, TypeOK, client
  <1>10. Clean' /\ Measured' /\ ArenaPaired'
    BY <1>4, <1>7, <1>8 DEF IInv, Clean, Measured, ArenaPaired
  <1>11. Counting' /\ CountingDown'
    BY <1>8, Unanswered DEF IInv, client
  <1> QED
    BY <1>9, <1>10, <1>11 DEF IInv

\* Bytes of clients are not taken for the mark NoBody.
LEMMA DataIsNoMark == \A d \in Seq(Data) : d # NoBody
PROOF
  <1> SUFFICES ASSUME NEW d \in Seq(Data), d = NoBody PROVE FALSE
    OBVIOUS
  <1>1. Len(d) = 1 /\ d[1] = "NUL"
    BY DEF NoBody
  <1>2. d[1] \in Data
    BY <1>1, ElementOfSeq
  <1> QED
    BY <1>1, <1>2 DEF Data

\* The part of a long body that is in the buffer moves to the heap.
LEMMA HeapBodyIInv == IInv /\ HeapBody => IInv'
PROOF
  <1> SUFFICES ASSUME IInv, HeapBody PROVE IInv'
    OBVIOUS
  <1> DEFINE m == Max({BodyAvailable, 0})
  <1>1. /\ pc = "parse" /\ pc' = "heap" /\ GoodHead /\ BodyAvailable < ContentLength
        /\ heap' = Cells(BodyStart, m)
        /\ UNCHANGED <<client, unread, mem, buf_len, arena, served, request, keep, answers>>
        /\ UNCHANGED buffer
    BY DEF HeapBody, buffer, handling
  <1>2. BodyStart \in 1 .. Cap + 1 /\ ContentLength \in 0 .. MaxBody
    BY <1>1, HeadInBuffer DEF GoodHead
  <1>3. /\ buf_len \in 0 .. Cap /\ mem \in [0 .. Cap -> Cell] /\ Cap \in Nat /\ MaxBody \in Nat
        /\ BodyAvailable = buf_len - BodyStart
    BY ConfigAssumption DEF IInv, TypeOK, BodyAvailable
  <1>4. m \in {BodyAvailable, 0} /\ m >= 0
    <2>1. BodyAvailable \in Int /\ 0 \in Int
      BY <1>2, <1>3
    <2> QED
      BY <2>1, MaxOfTwo
  <1> HIDE DEF m
  <1>5. m \in Nat /\ BodyStart + m <= Cap + 1 /\ m <= ContentLength /\ m <= MaxBody
    BY <1>1, <1>2, <1>3, <1>4
  <1>6. heap' \in Seq(Cell) /\ Len(heap') = m
    BY <1>1, <1>2, <1>3, <1>5, CellsType
  <1>7. heap' \in Seq(Data)
    <2>1. \A i \in 1 .. m : BodyStart + i - 1 \in 0 .. buf_len - 1
      BY <1>2, <1>3, <1>4
    <2>2. \A i \in 1 .. m : mem[BodyStart + i - 1] \in Data
      BY <2>1 DEF IInv, Clean
    <2> QED
      BY <1>1, <1>5, <2>2 DEF Cells
  <1>8. TypeOK'
    BY <1>1, <1>5, <1>6 DEF IInv, TypeOK, client
  <1>9. Clean' /\ ArenaPaired'
    BY <1>1, <1>7 DEF IInv, Clean, ArenaPaired
  <1>10. Measured'
    BY <1>1, <1>5, <1>6, <1>7, DataIsNoMark, SameBuffer DEF Measured
  <1>11. Counting' /\ CountingDown'
    BY <1>1, Unanswered DEF IInv, client
  <1> QED
    BY <1>8, <1>9, <1>10, <1>11 DEF IInv

\* The rest of it is read behind.
LEMMA HeapReadIInv == IInv /\ HeapRead => IInv'
PROOF
  <1> SUFFICES ASSUME IInv, HeapRead PROVE IInv'
    OBVIOUS
  <1>1. PICK n \in 1 .. Min({ContentLength - Len(heap), Len(unread)}) :
          /\ heap' = heap \o SubSeq(unread, 1, n)
          /\ unread' = SubSeq(unread, n + 1, Len(unread))
    BY DEF HeapRead
  <1>2. /\ pc = "heap"
        /\ UNCHANGED <<client, mem, buf_len, pc, arena, served, request, keep, answers>>
        /\ UNCHANGED buffer
    BY DEF HeapRead, buffer, handling
  <1>3. /\ GoodHead /\ ContentLength \in 0 .. MaxBody /\ Len(heap) <= ContentLength
        /\ heap \in Seq(Data) /\ unread \in Seq(Data) /\ MaxBody \in Nat
        /\ Len(heap) \in Nat /\ Len(unread) \in Nat
    BY <1>2, ConfigAssumption DEF IInv, Measured, Clean, GoodHead
  <1>4. n \in Nat \ {0} /\ n <= ContentLength - Len(heap) /\ n <= Len(unread)
    <2> DEFINE m == Min({ContentLength - Len(heap), Len(unread)})
    <2>1. m \in Int /\ m <= ContentLength - Len(heap) /\ m <= Len(unread)
      <3>1. ContentLength - Len(heap) \in Int /\ Len(unread) \in Int
        BY <1>3
      <3> QED
        BY <3>1, MinOfTwo
    <2>2. n \in 1 .. m
      BY <1>1
    <2> HIDE DEF m
    <2> QED
      BY <1>3, <2>1, <2>2
  <1>5. /\ SubSeq(unread, 1, n) \in Seq(Data) /\ Len(SubSeq(unread, 1, n)) = n
        /\ unread' \in Seq(Data)
    <2>1. \A i \in 1 .. Len(unread) : unread[i] \in Data
      BY <1>3, ElementOfSeq
    <2>2. SubSeq(unread, 1, n) \in Seq(Data) /\ Len(SubSeq(unread, 1, n)) = n
      BY <1>3, <1>4, <2>1, SubSeqProperties
    <2>3. SubSeq(unread, n + 1, Len(unread)) \in Seq(Data)
      <3>1. \A i \in n + 1 .. Len(unread) : unread[i] \in Data
        BY <1>3, <1>4, <2>1
      <3> QED
        BY <1>3, <1>4, <3>1, SubSeqProperties
    <2> QED
      BY <1>1, <2>2, <2>3
  <1>6. heap' \in Seq(Data) /\ Len(heap') = Len(heap) + n
    BY <1>1, <1>3, <1>5, ConcatProperties
  <1>7. heap' \in Seq(Cell) /\ unread' \in Seq(Cell)
    BY <1>5, <1>6, SeqMonotonic DEF Data
  <1>8. TypeOK'
    BY <1>2, <1>3, <1>4, <1>6, <1>7 DEF IInv, TypeOK, client
  <1>9. Clean' /\ ArenaPaired'
    BY <1>2, <1>5, <1>6 DEF IInv, Clean, ArenaPaired
  <1>10. Measured'
    BY <1>2, <1>3, <1>4, <1>6, DataIsNoMark, SameBuffer DEF Measured
  <1>11. Counting' /\ CountingDown'
    BY <1>2, Unanswered DEF IInv, client
  <1> QED
    BY <1>8, <1>9, <1>10, <1>11 DEF IInv

\* A whole request is handed to the handler.
LEMMA DispatchIInv == IInv /\ Dispatch => IInv'
PROOF
  <1> SUFFICES ASSUME IInv, Dispatch PROVE IInv'
    OBVIOUS
  <1>1. /\ pc' = "handle" /\ served' = served + 1 /\ keep' = ~ LastRequest(TheHead)
        /\ UNCHANGED <<client, unread, mem, buf_len, arena, heap, answers>>
        /\ UNCHANGED buffer
        /\ request' = [head |-> TheHead,
                       body |-> IF pc = "heap" THEN heap ELSE Cells(BodyStart, ContentLength)]
        /\ \/ pc = "parse" /\ GoodHead /\ BodyAvailable >= ContentLength
           \/ pc = "heap" /\ Len(heap) = ContentLength
    BY DEF Dispatch, buffer
  <1>2. GoodHead /\ (pc = "parse" => heap = NoBody) /\ (pc = "heap" => heap # NoBody)
    BY <1>1 DEF IInv, Measured, ArenaPaired
  <1>3. /\ BodyStart \in 1 .. Cap + 1 /\ ContentLength \in 0 .. MaxBody
        /\ Cap \in Nat /\ MaxBody \in Nat /\ buf_len \in 0 .. Cap
        /\ mem \in [0 .. Cap -> Cell] /\ BodyAvailable = buf_len - BodyStart
    BY <1>2, HeadInBuffer, ConfigAssumption DEF GoodHead, IInv, TypeOK, BodyAvailable
  <1>4. TheHead \in Seq(Cell)
    BY <1>3, CellsType DEF TheHead
  <1>5. request' \in Request
    <2>1. CASE pc = "heap"
      BY <1>1, <1>4, <2>1 DEF Request, IInv, TypeOK
    <2>2. CASE pc = "parse"
      <3>1. BodyStart + ContentLength <= Cap + 1 /\ BodyStart \in Nat /\ ContentLength \in Nat
        BY <1>1, <1>3, <2>2
      <3>2. Cells(BodyStart, ContentLength) \in Seq(Cell)
        BY <1>3, <3>1, CellsType
      <3> QED
        BY <1>1, <1>4, <2>2, <3>2 DEF Request
    <2> QED
      BY <1>1, <2>1, <2>2
  <1>6. /\ served \in Nat /\ served < KeepAliveMax /\ Len(answers) = served
        /\ KeepAliveMax \in Nat
    BY <1>1, ConfigAssumption DEF IInv, Counting, TypeOK
  <1>7. /\ keep' \in BOOLEAN
        /\ keep' => served + 1 < KeepAliveMax
        /\ keep' => ~ shutdown
    <2>1. keep' \in BOOLEAN
      BY <1>1, Zenon DEF LastRequest
    <2>2. keep' => ~ LastRequest(TheHead)
      BY <1>1
    <2>3. keep' => ~ (served + 1 >= KeepAliveMax) /\ ~ shutdown
      BY <2>2 DEF LastRequest
    <2> QED
      BY <1>6, <2>1, <2>3
  <1>8. TypeOK'
    BY <1>1, <1>5, <1>6, <1>7 DEF IInv, TypeOK, client
  <1>9. Clean' /\ ArenaPaired'
    BY <1>1 DEF IInv, Clean, ArenaPaired
  <1>10. Measured'
    BY <1>1, <1>2, SameBuffer DEF Measured
  <1>11. Counting'
    BY <1>1, <1>6, <1>7 DEF IInv, Counting
  <1>12. CountingDown'
    BY <1>1, <1>7 DEF IInv, CountingDown, client
  <1> QED
    BY <1>8, <1>9, <1>10, <1>11, <1>12 DEF IInv

\* The response is written and the request's bytes leave the buffer.
LEMMA RespondIInv == IInv /\ Respond => IInv'
PROOF
  <1> SUFFICES ASSUME IInv, Respond PROVE IInv'
    OBVIOUS
  <1> DEFINE n == BodyStart + ContentLength
  <1>1. /\ pc = "handle"
        /\ answers' = Append(answers, [status |-> 200, request |-> request, last |-> ~ keep])
        /\ heap' = NoBody /\ request' = NoRequest /\ arena' = FALSE
        /\ UNCHANGED <<client, unread, served, keep>>
    BY DEF Respond, Answer
  <1>2. pc' = (IF keep THEN pc' ELSE "done") /\ pc' \in {"done", "process", "top"}
    BY DEF Respond, GoOn
  <1>3. buf_len \in 0 .. Cap /\ mem \in [0 .. Cap -> Cell] /\ Cap \in Nat
    BY ConfigAssumption DEF IInv, TypeOK
  <1>4. /\ buf_len' \in 0 .. Cap /\ mem' \in [0 .. Cap -> Cell]
        /\ \A i \in 0 .. buf_len' - 1 : mem'[i] \in Data
    <2>1. CASE heap = NoBody
      <3>1. GoodHead /\ BodyAvailable >= ContentLength
        BY <1>1, <2>1 DEF IInv, Measured
      <3>2. n \in Nat /\ n <= buf_len
        BY <1>3, <3>1, HeadInBuffer, ConfigAssumption DEF GoodHead, BodyAvailable
      <3>3. /\ mem' = [i \in 0 .. Cap |-> IF i < buf_len - n THEN mem[i + n] ELSE mem[i]]
            /\ buf_len' = buf_len - n
        BY <2>1 DEF Respond, Consume
      <3> HIDE DEF n
      <3>4. \A i \in 0 .. Cap : i < buf_len - n => i + n \in 0 .. Cap /\ i + n \in 0 .. buf_len - 1
        BY <1>3, <3>2
      <3>5. buf_len' \in 0 .. Cap /\ mem' \in [0 .. Cap -> Cell]
        BY <1>3, <3>2, <3>3, <3>4
      <3>6. ASSUME NEW i \in 0 .. buf_len' - 1
            PROVE  mem'[i] \in Data
        <4>1. i \in 0 .. Cap /\ i < buf_len - n
          BY <1>3, <3>2, <3>3
        <4>2. mem'[i] = mem[i + n] /\ i + n \in 0 .. buf_len - 1
          BY <3>3, <3>4, <4>1
        <4> QED
          BY <4>2 DEF IInv, Clean
      <3> QED
        BY <3>5, <3>6
    <2>2. CASE heap # NoBody
      <3>1. buf_len' = 0 /\ mem' = mem
        BY <2>2 DEF Respond
      <3> QED
        BY <1>3, <3>1
    <2> QED
      BY <2>1, <2>2
  <1>5. NoRequest \in Request
    BY DEF NoRequest, Request
  <1>6. TypeOK'
    BY <1>1, <1>2, <1>4, <1>5, NoBodyType DEF IInv, TypeOK, client
  <1>7. Clean' /\ Measured' /\ ArenaPaired'
    BY <1>1, <1>2, <1>4 DEF IInv, Clean, Measured, ArenaPaired
  <1>8. Counting' /\ CountingDown'
    BY <1>1, <1>2, AnsweredHandled DEF IInv, client
  <1> QED
    BY <1>6, <1>7, <1>8 DEF IInv

-----------------------------------------------------------------------------
(* Theorems *)

LEMMA NextIInv == IInv /\ [Next]_vars => IInv'
PROOF
  <1> SUFFICES ASSUME IInv, [Next]_vars PROVE IInv'
    OBVIOUS
  <1>1. CASE UNCHANGED vars
    <2>1. UNCHANGED buffer
      BY <1>1 DEF vars, buffer
    <2>2. TypeOK' /\ Clean' /\ ArenaPaired'
      BY <1>1 DEF vars, IInv, TypeOK, Clean, ArenaPaired
    <2>3. Measured'
      BY <1>1, <2>1, SameBuffer DEF vars, IInv, Measured
    <2>4. Counting' /\ CountingDown'
      BY <1>1 DEF vars, IInv, Counting, CountingDown
    <2> QED
      BY <2>2, <2>3, <2>4 DEF IInv
  <1>2. CASE Send \/ Shutdown
    BY <1>2, SendIInv, ShutdownIInv
  <1>3. CASE Worker
    BY <1>3, LoopIInv, ReturnIInv, RefuseIInv, ReadIInv, HeapBodyIInv, HeapReadIInv,
       DispatchIInv, RespondIInv DEF Worker
  <1> QED
    BY <1>1, <1>2, <1>3 DEF Next

LEMMA Inductive == Spec => []IInv
PROOF
  BY InitIInv, NextIInv, PTL DEF Spec

\* The worker's variables keep their types: handle_http_conn never moves, copies or
\* appends past its buffer, whatever a client sends.
THEOREM TypeCorrect == Spec => []TypeOK
PROOF
  <1>1. IInv => TypeOK
    BY DEF IInv
  <1> QED
    BY Inductive, <1>1, PTL

\* Every path of process_request that installs an arena removes it, and frees the
\* body it read to the heap.
THEOREM ArenasArePaired == Spec => []ArenaPaired
PROOF
  <1>1. IInv => ArenaPaired
    BY DEF IInv
  <1> QED
    BY Inductive, <1>1, PTL

\* "Connection: close" is kept, keepalive_max_requests is never passed, and after the
\* shutdown flag at most two more requests are answered.
THEOREM CloseIsKept == Spec => []CloseKept
PROOF
  <1>1. IInv => CloseKept
    <2> SUFFICES ASSUME IInv PROVE CloseKept
      OBVIOUS
    <2>1. /\ answers \in Seq([status : {200, 400, 413, 431, 500}, request : Request, last : BOOLEAN])
          /\ Len(answers) \in Nat
      BY DEF IInv, Counting
    <2>2. \A i \in 1 .. Len(answers) : answers[i].last => i = Len(answers)
      BY <2>1 DEF IInv, Counting
    <2>3. answers # <<>> => Last(answers) = answers[Len(answers)]
      BY DEF Last
    <2> QED
      BY <2>1, <2>2, <2>3 DEF CloseKept, IInv, Counting, CountingDown
  <1> QED
    BY Inductive, <1>1, PTL

-----------------------------------------------------------------------------
(***************************************************************************)
(* Framing: the answer to each request, for clients that are orderly.      *)
(*                                                                         *)
(* What the worker holds of the requests not yet answered, in the buffer   *)
(* or on the heap, and what is on the wire behind it, is these requests    *)
(* one after the other (Split).  That a head is taken for complete only    *)
(* when it is needs more, because strstr() does not stop at buf_len: what  *)
(* may lie behind the data and before a NUL (Stale) is the end of a head   *)
(* that was answered, and what it declares fits in the buffer, so that the *)
(* worker reads on.  It never lies behind a request with a Content-Length, *)
(* since that one waited until the buffer was empty (Behind, TagsFirst).   *)
(***************************************************************************)

\* What the worker has of the requests not yet answered, and what is on the wire.
Held == IF heap = NoBody THEN Cells(0, buf_len) ELSE Cells(0, BodyStart) \o heap
Fed == Held \o unread

Size(r) == Len(r.head) + Len(r.body)

\* The cells of request r follow position p of F.
Placed(F, p, r) ==
  /\ \A i \in 1 .. Len(r.head) : F[p + i] = r.head[i]
  /\ \A i \in 1 .. Len(r.body) : F[p + Len(r.head) + i] = r.body[i]

\* F is the requests k + 1 to m of script s, one after the other.
Splits(s, F, k, m) ==
  \E at \in [k + 1 .. m + 1 -> Nat] :
    /\ at[k + 1] = 0 /\ at[m + 1] = Len(F)
    /\ \A i \in k + 1 .. m : Placed(F, at[i], s[i])
    /\ \A i \in k + 1 .. m : \A j \in i + 1 .. m + 1 : at[i] + Size(s[i]) <= at[j]
    /\ \A i \in k + 1 .. m : at[i + 1] = at[i] + Size(s[i])

Script == Seq([head : Seq(Data), body : Seq(Data), waits : BOOLEAN])

\* The parts of a request of a script.
LEMMA ScriptParts ==
  ASSUME NEW s \in Script, NEW i \in 1 .. Len(s)
  PROVE  /\ s[i].head \in Seq(Data) /\ s[i].body \in Seq(Data) /\ s[i].waits \in BOOLEAN
         /\ Len(s[i].head) \in Nat /\ Len(s[i].body) \in Nat /\ Size(s[i]) \in Nat
PROOF
  <1>1. s[i] \in [head : Seq(Data), body : Seq(Data), waits : BOOLEAN]
    BY ElementOfSeq DEF Script
  <1>2. PICK h \in Seq(Data), b \in Seq(Data) : h = s[i].head /\ b = s[i].body
    BY <1>1
  <1>3. Len(h) \in Nat /\ Len(b) \in Nat /\ Len(h) + Len(b) \in Nat
    BY LenProperties
  <1>4. Size(s[i]) = Len(h) + Len(b)
    BY <1>2 DEF Size
  <1> QED
    BY <1>1, <1>2, <1>3, <1>4

\* The first of them comes first.
LEMMA SplitFirst ==
  ASSUME NEW s \in Script, NEW F \in Seq(Data), NEW k \in Nat, NEW m \in Nat,
         k < m, m <= Len(s), Splits(s, F, k, m)
  PROVE  /\ Size(s[k + 1]) <= Len(F)
         /\ \A i \in 1 .. Len(s[k + 1].head) : F[i] = s[k + 1].head[i]
         /\ \A i \in 1 .. Len(s[k + 1].body) : F[Len(s[k + 1].head) + i] = s[k + 1].body[i]
PROOF
  <1>1. PICK at \in [k + 1 .. m + 1 -> Nat] :
          /\ at[k + 1] = 0 /\ at[m + 1] = Len(F)
          /\ \A i \in k + 1 .. m : Placed(F, at[i], s[i])
          /\ \A i \in k + 1 .. m : \A j \in i + 1 .. m + 1 : at[i] + Size(s[i]) <= at[j]
    BY DEF Splits
  <1>2. k + 1 \in k + 1 .. m /\ m + 1 \in k + 1 + 1 .. m + 1 /\ k + 1 \in 1 .. Len(s)
    OBVIOUS
  <1>3. Size(s[k + 1]) \in Nat /\ Len(s[k + 1].head) \in Nat /\ Len(s[k + 1].body) \in Nat
    BY <1>2, ScriptParts
  <1>4. 0 + Size(s[k + 1]) <= Len(F) /\ Placed(F, 0, s[k + 1])
    BY <1>1, <1>2
  <1>5. \A i \in 1 .. Len(s[k + 1].head) : F[i] = s[k + 1].head[i]
    <2> SUFFICES ASSUME NEW i \in 1 .. Len(s[k + 1].head) PROVE F[i] = s[k + 1].head[i]
      OBVIOUS
    <2>1. 0 + i = i
      BY <1>3
    <2>2. F[0 + i] = s[k + 1].head[i]
      BY <1>4 DEF Placed
    <2> QED
      BY <2>1, <2>2
  <1>6. \A i \in 1 .. Len(s[k + 1].body) : F[Len(s[k + 1].head) + i] = s[k + 1].body[i]
    <2> SUFFICES ASSUME NEW i \in 1 .. Len(s[k + 1].body)
                 PROVE  F[Len(s[k + 1].head) + i] = s[k + 1].body[i]
      OBVIOUS
    <2>1. 0 + Len(s[k + 1].head) + i = Len(s[k + 1].head) + i
      BY <1>3
    <2>2. F[0 + Len(s[k + 1].head) + i] = s[k + 1].body[i]
      BY <1>4 DEF Placed
    <2> QED
      BY <2>1, <2>2
  <1> QED
    BY <1>3, <1>4, <1>5, <1>6

\* No request, no cell.
LEMMA SplitNone ==
  ASSUME NEW s, NEW F, NEW k \in Nat, Splits(s, F, k, k)
  PROVE  Len(F) = 0
PROOF
  BY DEF Splits

\* At the start nothing was sent.
LEMMA SplitStart ==
  ASSUME NEW s
  PROVE  Splits(s, << >>, 0, 0)
PROOF
  <1> DEFINE at == [i \in 0 + 1 .. 0 + 1 |-> 0]
  <1>1. at \in [0 + 1 .. 0 + 1 -> Nat] /\ at[0 + 1] = 0
    OBVIOUS
  <1> HIDE DEF at
  <1>2. 0 + 1 .. 0 = {} /\ Len(<< >>) = 0
    OBVIOUS
  <1> QED
    BY <1>1, <1>2 DEF Splits

\* One more request is sent.
LEMMA SplitMore ==
  ASSUME NEW s \in Script, NEW F \in Seq(Data), NEW k \in Nat, NEW m \in Nat,
         k <= m, m + 1 <= Len(s), Splits(s, F, k, m),
         NEW G, G = F \o s[m + 1].head \o s[m + 1].body
  PROVE  Splits(s, G, k, m + 1)
PROOF
  <1>1. PICK at \in [k + 1 .. m + 1 -> Nat] :
          /\ at[k + 1] = 0 /\ at[m + 1] = Len(F)
          /\ \A i \in k + 1 .. m : Placed(F, at[i], s[i])
          /\ \A i \in k + 1 .. m : \A j \in i + 1 .. m + 1 : at[i] + Size(s[i]) <= at[j]
          /\ \A i \in k + 1 .. m : at[i + 1] = at[i] + Size(s[i])
    BY DEF Splits
  <1>2. PICK h, b : h = s[m + 1].head /\ b = s[m + 1].body
    OBVIOUS
  <1>3. /\ h \in Seq(Data) /\ b \in Seq(Data) /\ Size(s[m + 1]) = Len(h) + Len(b)
        /\ Len(h) \in Nat /\ Len(b) \in Nat /\ Len(F) \in Nat
    <2>1. m + 1 \in 1 .. Len(s)
      OBVIOUS
    <2>2. h \in Seq(Data) /\ b \in Seq(Data)
      BY <1>2, <2>1, ScriptParts
    <2> QED
      BY <1>2, <2>2 DEF Size
  <1>4. /\ Len(G) = Len(F) + Len(h) + Len(b)
        /\ \A i \in 1 .. Len(F) : G[i] = F[i]
        /\ \A i \in 1 .. Len(h) : G[Len(F) + i] = h[i]
        /\ \A i \in 1 .. Len(b) : G[Len(F) + Len(h) + i] = b[i]
    <2>1. G = F \o h \o b
      BY <1>2
    <2>2. PICK H : H = F \o h
      OBVIOUS
    <2>3. /\ H \in Seq(Data) /\ Len(H) = Len(F) + Len(h)
          /\ \A i \in 1 .. Len(F) : H[i] = F[i]
          /\ \A i \in 1 .. Len(h) : H[Len(F) + i] = h[i]
      BY <1>3, <2>2, ConcatProperties
    <2>4. /\ Len(G) = Len(H) + Len(b)
          /\ \A i \in 1 .. Len(H) : G[i] = H[i]
          /\ \A i \in 1 .. Len(b) : G[Len(H) + i] = b[i]
      BY <1>3, <2>1, <2>2, <2>3, ConcatProperties
    <2>5. /\ \A i \in 1 .. Len(F) : i \in 1 .. Len(H)
          /\ \A i \in 1 .. Len(h) : Len(F) + i \in 1 .. Len(H)
      BY <1>3, <2>3
    <2> QED
      BY <1>3, <2>3, <2>4, <2>5
  <1> DEFINE to == [i \in k + 1 .. m + 1 + 1 |-> IF i = m + 1 + 1 THEN Len(G) ELSE at[i]]
  <1>5. /\ to \in [k + 1 .. m + 1 + 1 -> Nat]
        /\ to[m + 1 + 1] = Len(G) /\ \A i \in k + 1 .. m + 1 : to[i] = at[i]
    BY <1>3, <1>4
  <1> HIDE DEF to
  <1>6. to[k + 1] = 0
    BY <1>1, <1>5
  <1>7. ASSUME NEW i \in k + 1 .. m + 1 PROVE Placed(G, to[i], s[i])
    <2>1. CASE i = m + 1
      <3>1. to[i] = Len(F) /\ s[i].head = h /\ s[i].body = b
        BY <1>1, <1>2, <1>5, <2>1
      <3> QED
        BY <1>4, <3>1 DEF Placed
    <2>2. CASE i # m + 1
      <3>1. /\ i \in k + 1 .. m /\ i \in 1 .. Len(s) /\ to[i] = at[i] /\ at[i] \in Nat
            /\ at[i] + Size(s[i]) <= Len(F) /\ Placed(F, at[i], s[i])
        <4>1. i \in k + 1 .. m /\ m + 1 \in i + 1 .. m + 1
          BY <2>2
        <4> QED
          BY <1>1, <1>5, <4>1
      <3>2. PICK x \in Nat, y \in Nat : x = Len(s[i].head) /\ y = Len(s[i].body)
        BY <3>1, ScriptParts
      <3>5. PICK p \in Nat, q \in Nat : p = at[i] /\ q = Len(F)
        BY <1>3, <3>1
      <3>6. p + x + y <= q
        <4>1. Size(s[i]) = x + y
          BY <3>2 DEF Size
        <4>2. p + Size(s[i]) <= q
          BY <3>1, <3>5
        <4>3. p + (x + y) <= q
          BY <4>1, <4>2
        <4> QED
          BY <4>3
      <3>7. \A j \in 1 .. x : p + j \in 1 .. q
        BY <3>6
      <3>8. \A j \in 1 .. y : p + x + j \in 1 .. q
        BY <3>6
      <3>3. \A j \in 1 .. Len(s[i].head) : at[i] + j \in 1 .. Len(F)
        BY <3>2, <3>5, <3>7
      <3>4. \A j \in 1 .. Len(s[i].body) : at[i] + Len(s[i].head) + j \in 1 .. Len(F)
        BY <3>2, <3>5, <3>8
      <3> QED
        BY <1>4, <3>1, <3>3, <3>4 DEF Placed
    <2> QED
      BY <2>1, <2>2
  <1>8. ASSUME NEW i \in k + 1 .. m + 1, NEW j \in i + 1 .. m + 1 + 1
        PROVE  to[i] + Size(s[i]) <= to[j]
    <2>1. i \in 1 .. Len(s) /\ Size(s[i]) \in Nat
      BY ScriptParts
    <2>2. CASE i = m + 1
      BY <1>1, <1>3, <1>4, <1>5, <2>2
    <2>3. CASE i # m + 1 /\ j = m + 1 + 1
      <3>1. i \in k + 1 .. m /\ m + 1 \in i + 1 .. m + 1
        BY <2>3
      <3>2. at[i] + Size(s[i]) <= Len(F) /\ to[i] = at[i] /\ at[i] \in Nat /\ Len(F) \in Nat
        BY <1>1, <1>5, <3>1
      <3> QED
        BY <1>3, <1>4, <1>5, <2>1, <2>3, <3>2
    <2>4. CASE i # m + 1 /\ j # m + 1 + 1
      <3>1. i \in k + 1 .. m /\ j \in i + 1 .. m + 1 /\ j \in k + 1 .. m + 1
        BY <2>4
      <3> QED
        BY <1>1, <1>5, <3>1
    <2> QED
      BY <2>2, <2>3, <2>4
  <1>9. ASSUME NEW i \in k + 1 .. m + 1 PROVE to[i + 1] = to[i] + Size(s[i])
    <2>1. CASE i = m + 1
      <3>1. to[i] = Len(F) /\ to[i + 1] = Len(G)
        BY <1>1, <1>5, <2>1
      <3> QED
        BY <1>3, <1>4, <2>1, <3>1
    <2>2. CASE i # m + 1
      <3>1. i \in k + 1 .. m /\ i + 1 \in k + 1 .. m + 1
        BY <2>2
      <3> QED
        BY <1>1, <1>5, <3>1
    <2> QED
      BY <2>1, <2>2
  <1> QED
    BY <1>5, <1>6, <1>7, <1>8, <1>9 DEF Splits

\* A request that lies behind the first n cells.
LEMMA Within ==
  ASSUME NEW p \in Nat, NEW n \in Nat, NEW x \in Nat, NEW y \in Nat, NEW f \in Nat,
         p + n + x + y <= f
  PROVE  /\ \A j \in 1 .. x : p + j \in 1 .. f - n /\ n + (p + j) = p + n + j
         /\ \A j \in 1 .. y : p + x + j \in 1 .. f - n /\ n + (p + x + j) = p + n + x + j
PROOF
  OBVIOUS

\* The first request leaves.
LEMMA SplitLess ==
  ASSUME NEW s \in Script, NEW F \in Seq(Data), NEW k \in Nat, NEW m \in Nat,
         k < m, m <= Len(s), Splits(s, F, k, m),
         NEW n, n = Size(s[k + 1]),
         NEW G \in Seq(Data), Len(G) = Len(F) - n,
         \A i \in 1 .. Len(G) : G[i] = F[n + i]
  PROVE  Splits(s, G, k + 1, m)
PROOF
  <1>1. PICK at \in [k + 1 .. m + 1 -> Nat] :
          /\ at[k + 1] = 0 /\ at[m + 1] = Len(F)
          /\ \A i \in k + 1 .. m : Placed(F, at[i], s[i])
          /\ \A i \in k + 1 .. m : \A j \in i + 1 .. m + 1 : at[i] + Size(s[i]) <= at[j]
          /\ \A i \in k + 1 .. m : at[i + 1] = at[i] + Size(s[i])
    BY DEF Splits
  <1>2. k + 1 \in k + 1 .. m /\ k + 1 \in 1 .. Len(s) /\ n \in Nat
    BY ScriptParts
  <1>3. \A j \in k + 1 + 1 .. m + 1 : n <= at[j] /\ at[j] \in Nat
    BY <1>1, <1>2
  <1> DEFINE to == [i \in k + 1 + 1 .. m + 1 |-> at[i] - n]
  <1>4. /\ to \in [k + 1 + 1 .. m + 1 -> Nat]
        /\ \A i \in k + 1 + 1 .. m + 1 : to[i] = at[i] - n
    BY <1>2, <1>3
  <1> HIDE DEF to
  <1>5. to[k + 1 + 1] = 0 /\ to[m + 1] = Len(G)
    <2>1. k + 1 + 1 \in k + 1 + 1 .. m + 1 /\ m + 1 \in k + 1 + 1 .. m + 1
      OBVIOUS
    <2>2. at[k + 1 + 1] = n
      BY <1>1, <1>2
    <2>3. to[k + 1 + 1] = n - n /\ to[m + 1] = Len(F) - n
      BY <1>1, <1>4, <2>1, <2>2
    <2> QED
      BY <1>2, <2>3
  <1>6. ASSUME NEW i \in k + 1 + 1 .. m PROVE Placed(G, to[i], s[i])
    <2>1. /\ i \in k + 1 .. m /\ i \in 1 .. Len(s) /\ i \in k + 1 + 1 .. m + 1
          /\ m + 1 \in i + 1 .. m + 1
      OBVIOUS
    <2>2. PICK p \in Nat : p = to[i] /\ at[i] = p + n
      <3>1. to[i] \in Nat /\ to[i] = at[i] - n /\ at[i] \in Nat
        BY <1>3, <1>4, <2>1
      <3>2. PICK c \in Nat, p \in Nat, d \in Nat : c = at[i] /\ p = to[i] /\ d = n
        BY <1>2, <3>1
      <3>3. p = c - d
        BY <3>1, <3>2
      <3>4. c = p + d
        BY <3>3
      <3>5. at[i] = to[i] + n
        BY <3>2, <3>4
      <3> QED
        BY <3>1, <3>5
    <2>3. PICK x \in Nat, y \in Nat : x = Len(s[i].head) /\ y = Len(s[i].body)
      BY <2>1, ScriptParts
    <2>4. p + n + x + y <= Len(F) /\ Placed(F, p + n, s[i])
      <3>1. p + n + Size(s[i]) <= Len(F) /\ Placed(F, p + n, s[i])
        BY <1>1, <2>1, <2>2
      <3>2. Size(s[i]) = x + y
        BY <2>3 DEF Size
      <3>3. p + n + (x + y) <= Len(F)
        BY <3>1, <3>2
      <3>4. p + n + (x + y) = p + n + x + y
        BY <1>2
      <3> QED
        BY <3>1, <3>3, <3>4
    <2>7. PICK f \in Nat : f = Len(F) /\ f - n = Len(G) /\ p + n + x + y <= f
      BY <2>4
    <2>10. PICK d \in Nat : d = n /\ p + d + x + y <= f
      BY <1>2, <2>7
    <2>11. p + d + x + y <= f
      BY <2>10
    <2>12. /\ \A j \in 1 .. x : p + j \in 1 .. f - d /\ d + (p + j) = p + d + j
           /\ \A j \in 1 .. y : p + x + j \in 1 .. f - d /\ d + (p + x + j) = p + d + x + j
      BY <2>11, Within
    <2>8. \A j \in 1 .. x : p + j \in 1 .. f - n /\ n + (p + j) = p + n + j
      BY <2>10, <2>12
    <2>9. \A j \in 1 .. y : p + x + j \in 1 .. f - n /\ n + (p + x + j) = p + n + x + j
      BY <2>10, <2>12
    <2>5. ASSUME NEW j \in 1 .. Len(s[i].head) PROVE G[p + j] = s[i].head[j]
      <3>1. p + j \in 1 .. Len(G) /\ n + (p + j) = p + n + j
        BY <2>3, <2>7, <2>8
      <3> QED
        BY <2>4, <3>1 DEF Placed
    <2>6. ASSUME NEW j \in 1 .. Len(s[i].body) PROVE G[p + Len(s[i].head) + j] = s[i].body[j]
      <3>1. /\ p + Len(s[i].head) + j \in 1 .. Len(G)
            /\ n + (p + Len(s[i].head) + j) = p + n + Len(s[i].head) + j
        BY <2>3, <2>7, <2>9
      <3> QED
        BY <2>4, <3>1 DEF Placed
    <2> QED
      BY <2>2, <2>5, <2>6 DEF Placed
  <1>7. ASSUME NEW i \in k + 1 + 1 .. m, NEW j \in i + 1 .. m + 1
        PROVE  to[i] + Size(s[i]) <= to[j]
    <2>1. i \in k + 1 .. m /\ i \in 1 .. Len(s) /\ i \in k + 1 + 1 .. m + 1 /\ j \in k + 1 + 1 .. m + 1
      OBVIOUS
    <2>4. i + 1 .. m + 1 \subseteq k + 1 .. m + 1
      OBVIOUS
    <2>2. Size(s[i]) \in Nat
      BY <2>1, ScriptParts
    <2>3. at[i] + Size(s[i]) <= at[j] /\ at[i] \in Nat /\ at[j] \in Nat
      BY <1>1, <1>3, <2>1, <2>4
    <2>5. to[i] = at[i] - n /\ to[j] = at[j] - n
      BY <1>4, <2>1
    <2>6. PICK x \in Nat, y \in Nat, z \in Nat : x = at[i] /\ y = at[j] /\ z = Size(s[i])
      BY <2>2, <2>3
    <2>7. x + z <= y
      BY <2>3, <2>6
    <2>8. x - n + z <= y - n
      BY <1>2, <2>7
    <2> QED
      BY <2>5, <2>6, <2>8
  <1>8. ASSUME NEW i \in k + 1 + 1 .. m PROVE to[i + 1] = to[i] + Size(s[i])
    <2>1. i \in k + 1 .. m /\ i \in 1 .. Len(s) /\ i \in k + 1 + 1 .. m + 1
          /\ i + 1 \in k + 1 + 1 .. m + 1
      OBVIOUS
    <2>2. Size(s[i]) \in Nat
      BY <2>1, ScriptParts
    <2>3. at[i + 1] = at[i] + Size(s[i]) /\ at[i] \in Nat
      BY <1>1, <1>3, <2>1
    <2>4. to[i] = at[i] - n /\ to[i + 1] = at[i + 1] - n
      BY <1>4, <2>1
    <2>5. PICK c \in Nat, z \in Nat, d \in Nat : c = at[i] /\ z = Size(s[i]) /\ d = n
      BY <1>2, <2>2, <2>3
    <2>6. c + z - d = c - d + z
      BY <2>5
    <2> QED
      BY <2>3, <2>4, <2>5, <2>6
  <1> QED
    BY <1>4, <1>5, <1>6, <1>7, <1>8 DEF Splits

-----------------------------------------------------------------------------
(* The invariant of framing *)

\* The request that is being read or handled.
Current == script[Len(answers) + 1]
Open == Len(answers) < sent

Split == Len(answers) <= sent /\ Splits(script, Fed, Len(answers), sent)

\* Nothing that was sent behind it waits, and so nothing of it is a Content-Length.
Behind == \A j \in Len(answers) + 2 .. sent : ~ script[j].waits
TagsFirst == \A i \in 1 .. Len(Fed) : Fed[i] = "tag" => Open /\ i <= Len(Current.head)

\* From cell t on, the buffer still holds the end of a head that was answered.
Leftover(t) ==
  \E i \in 1 .. Len(script) :
    /\ t < Len(script[i].head)
    /\ Declared(script[i].head) \in 0 .. MaxBody
    /\ Len(script[i].head) + Declared(script[i].head) <= Cap
    /\ \A q \in t .. Len(script[i].head) - 1 : mem[q] = script[i].head[q + 1]

\* What is behind the data, and no NUL before it: leftovers, but never behind a
\* request with a Content-Length.
Stale ==
  /\ buf_len > 0 => \A t \in buf_len .. Cap :
                      mem[t] = "tag" /\ (\A q \in 0 .. t : mem[q] # "NUL") => Leftover(t)
  /\ Open /\ (\E i \in 1 .. Len(Current.head) : Current.head[i] = "tag")
       => buf_len = 0 \/ mem[buf_len] = "NUL"
  /\ mem[Cap] = "NUL"

AtHand ==
  /\ pc \in {"process", "parse"} => buf_len > 0
  /\ pc \in {"heap", "handle"} =>
       Open /\ GoodHead /\ TheHead = Current.head /\ BodyStart = Len(Current.head)
  /\ pc = "handle" =>
       /\ request = [head |-> Current.head, body |-> Current.body]
       /\ heap # NoBody => Len(heap) = ContentLength

Frame == pc \notin {"done", "closed"} => Split /\ Behind /\ TagsFirst /\ Stale /\ AtHand

FInv == IInv /\ AnsweredAsSent /\ Frame

AllOrderly == \A s \in Scripts : Orderly(s)

\* The types of what the framing is about.
LEMMA StateTypes ==
  ASSUME IInv
  PROVE  /\ script \in Script /\ script \in Scripts /\ Len(answers) \in Nat /\ sent \in Nat
         /\ sent <= Len(script) /\ Len(script) \in Nat
         /\ buf_len \in 0 .. Cap /\ Cap \in Nat \ {0} /\ MaxBody \in Nat
         /\ mem \in [0 .. Cap -> Cell] /\ unread \in Seq(Data) /\ Len(unread) \in Nat
         /\ \A q \in 0 .. buf_len - 1 : mem[q] \in Data
PROOF
  <1>1. script \in Script /\ script \in Scripts
    BY ScriptAssumption DEF IInv, TypeOK, Script
  <1>2. Len(script) \in Nat
    BY <1>1 DEF Script
  <1>3. answers \in Seq([status : {200, 400, 413, 431, 500}, request : Request, last : BOOLEAN])
    BY DEF IInv, Counting
  <1>4. Len(answers) \in Nat
    BY <1>3
  <1>5. sent \in 0 .. Len(script) /\ buf_len \in 0 .. Cap /\ mem \in [0 .. Cap -> Cell]
    BY DEF IInv, TypeOK
  <1>6. unread \in Seq(Data) /\ \A q \in 0 .. buf_len - 1 : mem[q] \in Data
    BY DEF IInv, Clean
  <1> QED
    BY <1>1, <1>2, <1>4, <1>5, <1>6, ConfigAssumption

\* The cells of two sequences, one behind the other.
LEMMA Joined ==
  ASSUME NEW S, NEW f \in Seq(S), NEW g \in Seq(S)
  PROVE  /\ f \o g \in Seq(S) /\ Len(f \o g) = Len(f) + Len(g)
         /\ \A i \in 1 .. Len(f) : (f \o g)[i] = f[i]
         /\ \A i \in 1 .. Len(g) : (f \o g)[Len(f) + i] = g[i]
PROOF
  <1>1. Len(f) \in Nat /\ Len(g) \in Nat
    OBVIOUS
  <1>2. /\ f \o g \in Seq(S) /\ Len(f \o g) = Len(f) + Len(g)
        /\ \A i \in 1 .. Len(f) + Len(g) :
             (f \o g)[i] = IF i <= Len(f) THEN f[i] ELSE g[i - Len(f)]
    BY ConcatProperties
  <1> QED
    BY <1>1, <1>2

\* What the worker was fed while nothing was moved to the heap.
LEMMA FedBuffer ==
  ASSUME IInv, heap = NoBody
  PROVE  /\ Fed \in Seq(Data) /\ Len(Fed) = buf_len + Len(unread)
         /\ \A i \in 1 .. buf_len : Fed[i] = mem[i - 1]
         /\ \A i \in 1 .. Len(unread) : Fed[buf_len + i] = unread[i]
PROOF
  <1>1. PICK C : C = Cells(0, buf_len)
    OBVIOUS
  <1>2. buf_len \in Nat /\ unread \in Seq(Data) /\ \A q \in 0 .. buf_len - 1 : mem[q] \in Data
    BY StateTypes
  <1>3. \A i \in 1 .. buf_len : i - 1 \in 0 .. buf_len - 1 /\ 0 + i - 1 = i - 1
    BY <1>2
  <1>4. C = [i \in 1 .. buf_len |-> mem[i - 1]]
    BY <1>1, <1>3 DEF Cells
  <1>5. C \in Seq(Data) /\ Len(C) = buf_len /\ \A i \in 1 .. buf_len : C[i] = mem[i - 1]
    BY <1>2, <1>3, <1>4
  <1>6. PICK F : F = C \o unread
    OBVIOUS
  <1>7. /\ F \in Seq(Data) /\ Len(F) = Len(C) + Len(unread)
        /\ \A i \in 1 .. Len(C) : F[i] = C[i]
        /\ \A i \in 1 .. Len(unread) : F[Len(C) + i] = unread[i]
    <2>1. C \in Seq(Data) /\ unread \in Seq(Data)
      BY <1>2, <1>5
    <2>2. /\ C \o unread \in Seq(Data) /\ Len(C \o unread) = Len(C) + Len(unread)
          /\ \A i \in 1 .. Len(C) : (C \o unread)[i] = C[i]
          /\ \A i \in 1 .. Len(unread) : (C \o unread)[Len(C) + i] = unread[i]
      BY <2>1, Joined
    <2> QED
      BY <1>6, <2>2
  <1>8. Fed = F
    BY <1>1, <1>6 DEF Fed, Held
  <1> QED
    BY <1>5, <1>7, <1>8

\* And after that.
LEMMA FedHeap ==
  ASSUME heap # NoBody, TheHead \in Seq(Data), heap \in Seq(Data), unread \in Seq(Data)
  PROVE  /\ Held = TheHead \o heap /\ Held \in Seq(Data) /\ Fed = Held \o unread
         /\ Fed \in Seq(Data) /\ Len(Fed) = Len(TheHead) + Len(heap) + Len(unread)
         /\ \A i \in 1 .. Len(heap) : Fed[Len(TheHead) + i] = heap[i]
         /\ \A i \in 1 .. Len(unread) : Fed[Len(TheHead) + Len(heap) + i] = unread[i]
PROOF
  <1>1. PICK C \in Seq(Data), B \in Seq(Data), U \in Seq(Data) :
          C = TheHead /\ B = heap /\ U = unread
    OBVIOUS
  <1>2. Held = C \o B /\ Fed = Held \o U
    BY <1>1 DEF Held, Fed, TheHead
  <1>3. Len(C) \in Nat /\ Len(B) \in Nat /\ Len(U) \in Nat
    OBVIOUS
  <1>4. /\ C \o B \in Seq(Data) /\ Len(C \o B) = Len(C) + Len(B)
        /\ \A i \in 1 .. Len(B) : (C \o B)[Len(C) + i] = B[i]
    BY Joined
  <1>5. PICK H \in Seq(Data) : H = Held
    BY <1>2, <1>4
  <1>6. Len(H) = Len(C) + Len(B) /\ \A i \in 1 .. Len(B) : H[Len(C) + i] = B[i]
    BY <1>2, <1>4, <1>5
  <1>7. /\ H \o U \in Seq(Data) /\ Len(H \o U) = Len(H) + Len(U)
        /\ \A i \in 1 .. Len(H) : (H \o U)[i] = H[i]
        /\ \A i \in 1 .. Len(U) : (H \o U)[Len(H) + i] = U[i]
    BY Joined
  <1>8. \A i \in 1 .. Len(B) : Len(C) + i \in 1 .. Len(H)
    BY <1>3, <1>6
  <1>9. PICK F \in Seq(Data) : F = Fed /\ F = H \o U
    BY <1>2, <1>5, <1>7
  <1>10. /\ Len(F) = Len(C) + Len(B) + Len(U)
         /\ \A i \in 1 .. Len(B) : F[Len(C) + i] = B[i]
         /\ \A i \in 1 .. Len(U) : F[Len(C) + Len(B) + i] = U[i]
    BY <1>6, <1>7, <1>8, <1>9
  <1> QED
    BY <1>1, <1>2, <1>5, <1>9, <1>10

\* The request at hand, as its client means it.
LEMMA CurrentHead ==
  ASSUME IInv, AllOrderly, Open
  PROVE  /\ Current.head \in Seq(Data) /\ Current.body \in Seq(Data)
         /\ Len(Current.head) \in Nat \ {0} /\ Len(Current.body) \in Nat
         /\ WellFormed(Current) /\ Polite(Current)
         /\ Current.head[Len(Current.head)] = "end"
         /\ \A i \in 1 .. Len(Current.head) - 1 : Current.head[i] \notin {"NUL", "end"}
         /\ \A i \in 1 .. Len(Current.head) : Current.head[i] \in Data
PROOF
  <1>1. PICK n \in 1 .. Len(script) : n = Len(answers) + 1
    BY StateTypes DEF Open
  <1>2. /\ script[n].head \in Seq(Data) /\ script[n].body \in Seq(Data)
        /\ Len(script[n].head) \in Nat /\ Len(script[n].body) \in Nat
    BY StateTypes, ScriptParts
  <1>3. WellFormed(script[n]) /\ Polite(script[n])
    BY StateTypes DEF AllOrderly, Orderly
  <1>4. PICK r : r = script[n]
    OBVIOUS
  <1>5. r.head \in Seq(Data) /\ Len(r.head) \in Nat /\ WellFormed(r)
    BY <1>2, <1>3, <1>4
  <1>6. Len(r.head) # 0
    BY <1>5, EmptySeq DEF WellFormed
  <1>7. /\ r.head[Len(r.head)] = "end"
        /\ \A i \in 1 .. Len(r.head) : r.head[i] = "end" => i = Len(r.head)
    BY <1>5, <1>6 DEF WellFormed
  <1>8. \A i \in 1 .. Len(r.head) : r.head[i] \in Data
    BY <1>5, ElementOfSeq
  <1>9. \A i \in 1 .. Len(r.head) - 1 : r.head[i] \notin {"NUL", "end"}
    BY <1>5, <1>7, <1>8 DEF Data
  <1>10. Current = r
    BY <1>1, <1>4 DEF Current
  <1> QED
    BY <1>2, <1>3, <1>4, <1>5, <1>6, <1>7, <1>8, <1>9, <1>10

-----------------------------------------------------------------------------
(* Parsing *)

\* strstr finds one end.
LEMMA OneEnd ==
  ASSUME NEW e \in Ends, IInv
  PROVE  /\ Ends = {e} /\ HasHead /\ BodyStart = e + 1 /\ mem[e] = "end"
         /\ \A j \in 0 .. e - 1 : mem[j] \notin {"NUL", "end"}
         /\ e \in 0 .. Cap
PROOF
  <1>1. /\ e \in 0 .. Cap /\ mem[e] = "end"
        /\ \A j \in 0 .. e - 1 : mem[j] \notin {"NUL", "end"}
    BY DEF Ends
  <1>2. ASSUME NEW d \in Ends PROVE d = e
    <2>1. /\ d \in 0 .. Cap /\ mem[d] = "end"
          /\ \A j \in 0 .. d - 1 : mem[j] \notin {"NUL", "end"}
      BY DEF Ends
    <2>2. ~ (d < e)
      <3>1. d < e => d \in 0 .. e - 1
        BY <1>1, <2>1, StateTypes
      <3> QED
        BY <1>1, <2>1, <3>1
    <2>3. ~ (e < d)
      <3>1. e < d => e \in 0 .. d - 1
        BY <1>1, <2>1, StateTypes
      <3> QED
        BY <1>1, <2>1, <3>1
    <2> QED
      BY <1>1, <2>1, <2>2, <2>3, StateTypes
  <1>3. Ends = {e}
    BY <1>2
  <1>4. BodyStart = e + 1
    <2>1. PICK c : c = CHOOSE i \in Ends : TRUE
      OBVIOUS
    <2>2. c = e
      BY <1>2, <2>1
    <2>3. BodyStart = 1 + c
      BY <2>1 DEF BodyStart
    <2> QED
      BY <1>1, <2>2, <2>3, StateTypes
  <1> QED
    BY <1>1, <1>3, <1>4 DEF HasHead

\* What is in the buffer of the request at hand.
LEMMA InBuffer ==
  ASSUME IInv, AllOrderly, Open, Split, heap = NoBody
  PROVE  /\ \A q \in 0 .. Len(Current.head) - 1 : q < buf_len => mem[q] = Current.head[q + 1]
         /\ \A i \in 1 .. Len(Current.body) :
              LET q == Len(Current.head) + i - 1
              IN  q < buf_len => mem[q] = Current.body[i]
         /\ Size(Current) <= buf_len + Len(unread)
PROOF
  <1>1. PICK F, k : F = Fed /\ k = Len(answers)
    OBVIOUS
  <1>2. /\ F \in Seq(Data) /\ Len(F) = buf_len + Len(unread)
        /\ \A i \in 1 .. buf_len : F[i] = mem[i - 1]
    BY <1>1, FedBuffer
  <1>3. /\ script \in Script /\ k \in Nat /\ sent \in Nat /\ k < sent /\ sent <= Len(script)
        /\ Splits(script, F, k, sent)
    BY <1>1, StateTypes DEF Open, Split
  <1>4. /\ Size(script[k + 1]) <= Len(F)
        /\ \A i \in 1 .. Len(script[k + 1].head) : F[i] = script[k + 1].head[i]
        /\ \A i \in 1 .. Len(script[k + 1].body) :
             F[Len(script[k + 1].head) + i] = script[k + 1].body[i]
    BY <1>2, <1>3, SplitFirst
  <1>5. PICK r : r = Current /\ r = script[k + 1]
    BY <1>1 DEF Current
  <1>6. /\ Size(r) <= Len(F)
        /\ \A i \in 1 .. Len(r.head) : F[i] = r.head[i]
        /\ \A i \in 1 .. Len(r.body) : F[Len(r.head) + i] = r.body[i]
    BY <1>4, <1>5
  <1>7. Len(r.head) \in Nat \ {0} /\ Len(r.body) \in Nat /\ buf_len \in Nat
    BY <1>5, CurrentHead, StateTypes
  <1>8. ASSUME NEW q \in 0 .. Len(r.head) - 1, q < buf_len PROVE mem[q] = r.head[q + 1]
    <2>1. q + 1 \in 1 .. buf_len /\ q + 1 \in 1 .. Len(r.head) /\ q + 1 - 1 = q
      BY <1>7, <1>8
    <2> QED
      BY <1>2, <1>6, <2>1
  <1>9. ASSUME NEW i \in 1 .. Len(r.body), Len(r.head) + i - 1 < buf_len
        PROVE  mem[Len(r.head) + i - 1] = r.body[i]
    <2>1. PICK p \in 1 .. buf_len : p = Len(r.head) + i /\ p - 1 = Len(r.head) + i - 1
      BY <1>7, <1>9
    <2>2. F[p] = mem[p - 1] /\ F[p] = r.body[i]
      BY <1>2, <1>6, <2>1
    <2> QED
      BY <2>1, <2>2
  <1> QED
    BY <1>2, <1>5, <1>6, <1>8, <1>9

\* A head that is all there is found.
LEMMA HeadWhole ==
  ASSUME IInv, AllOrderly, Open, Split, heap = NoBody, Len(Current.head) <= buf_len
  PROVE  HasHead /\ BodyStart = Len(Current.head) /\ TheHead = Current.head
PROOF
  <1>1. PICK h, n : h = Current.head /\ n = Len(Current.head)
    OBVIOUS
  <1>2. /\ n \in Nat \ {0} /\ n = Len(h) /\ h \in Seq(Data) /\ h[n] = "end"
        /\ \A i \in 1 .. n - 1 : h[i] \notin {"NUL", "end"}
    BY <1>1, CurrentHead
  <1>3. buf_len \in 0 .. Cap /\ Cap \in Nat /\ n <= buf_len
    BY <1>1, StateTypes
  <1>4. \A q \in 0 .. n - 1 : mem[q] = h[q + 1]
    <2>1. \A q \in 0 .. n - 1 : q < buf_len
      BY <1>2, <1>3
    <2> QED
      BY <1>1, <2>1, InBuffer
  <1>5. n - 1 \in Ends
    <2>1. n - 1 \in 0 .. Cap /\ n - 1 \in 0 .. n - 1 /\ n - 1 + 1 = n
      BY <1>2, <1>3
    <2>2. \A j \in 0 .. n - 1 - 1 : j \in 0 .. n - 1 /\ j + 1 \in 1 .. n - 1
      BY <1>2
    <2>3. mem[n - 1] = "end" /\ \A j \in 0 .. n - 1 - 1 : mem[j] \notin {"NUL", "end"}
      BY <1>2, <1>4, <2>1, <2>2
    <2> QED
      BY <2>1, <2>3 DEF Ends
  <1>6. HasHead /\ BodyStart = n
    BY <1>2, <1>5, OneEnd
  <1>7. TheHead = h
    <2>1. TheHead = [i \in 1 .. n |-> mem[0 + i - 1]]
      BY <1>6 DEF TheHead, Cells
    <2>2. \A i \in 1 .. n : 0 + i - 1 \in 0 .. n - 1 /\ 0 + i - 1 + 1 = i
      BY <1>2
    <2>3. \A i \in 1 .. n : mem[0 + i - 1] = h[i]
      BY <1>4, <2>2
    <2>4. TheHead = [i \in 1 .. n |-> h[i]]
      BY <2>1, <2>3
    <2>5. h = [i \in 1 .. n |-> h[i]]
      BY <1>2
    <2> QED
      BY <2>4, <2>5
  <1> QED
    BY <1>1, <1>6, <1>7

\* A set of numbers that is not empty has a smallest.
LEMMA Smallest ==
  ASSUME NEW S \in SUBSET Nat, S # {}
  PROVE  \E m \in S : \A k \in S : m <= k
PROOF
  <1> DEFINE R == {ss \in Nat \X Nat : ss[1] < ss[2]}
  <1>1. IsWellFoundedOn(R, Nat)
    BY NatLessThanWellFounded DEF OpToRel
  <1>2. \A x, y \in Nat : <<y, x>> \in R <=> y < x
    OBVIOUS
  <1> HIDE DEF R
  <1>3. PICK x \in S : \A y \in S : ~ (<<y, x>> \in R)
    BY <1>1, WFMin
  <1>4. ASSUME NEW y \in S PROVE x <= y
    <2>1. x \in Nat /\ y \in Nat
      BY <1>3
    <2>2. ~ (y < x)
      BY <1>2, <1>3, <2>1
    <2> QED
      BY <2>1, <2>2
  <1> QED
    BY <1>3, <1>4

\* Two heads that differ before their only Content-Length declare the same.
LEMMA SameDeclared ==
  ASSUME NEW g \in Seq(Cell), NEW h \in Seq(Cell), NEW n \in Nat, Len(g) = n, Len(h) = n, NEW t \in 1 .. n,
         g[t] = "tag", h[t] = "tag",
         \A i \in 1 .. n : g[i] = "tag" => i >= t,
         \A i \in 1 .. n : h[i] = "tag" => i = t,
         \A i \in t .. n : g[i] = h[i]
  PROVE  Declared(g) = Declared(h)
PROOF
  <1>1. \A i \in 1 .. n : g[i] = "tag" => i = t
    <2> SUFFICES ASSUME NEW i \in 1 .. n, g[i] = "tag" PROVE i = t
      OBVIOUS
    <2>1. i \in t .. n
      OBVIOUS
    <2> QED
      BY <2>1
  <1>2. {i \in 1 .. Len(g) : g[i] = "tag"} = {t} /\ {i \in 1 .. Len(h) : h[i] = "tag"} = {t}
    BY <1>1
  <1>3. DigitsAfter(g, t) = DigitsAfter(h, t)
    <2>1. ASSUME NEW j \in t .. n
          PROVE  (/\ \A k \in t + 1 .. j : g[k] \in DOMAIN Digit
                  /\ j = n \/ g[j + 1] \notin DOMAIN Digit) <=>
                 (/\ \A k \in t + 1 .. j : h[k] \in DOMAIN Digit
                  /\ j = n \/ h[j + 1] \notin DOMAIN Digit)
      <3>1. \A k \in t + 1 .. j : k \in t .. n
        OBVIOUS
      <3>2. j # n => j + 1 \in t .. n
        OBVIOUS
      <3> QED
        BY <3>1, <3>2
    <2> DEFINE P(x) == CHOOSE j \in t .. n : /\ \A k \in t + 1 .. j : x[k] \in DOMAIN Digit
                                             /\ j = n \/ x[j + 1] \notin DOMAIN Digit
    <2>2. P(g) = P(h)
      BY <2>1, Zenon
    <2>4. P(g) \in t .. n
      <3> DEFINE D == {j \in t .. n : j = n \/ g[j + 1] \notin DOMAIN Digit}
      <3>1. n \in D /\ D \in SUBSET Nat
        OBVIOUS
      <3>2. PICK m \in D : \A k \in D : m <= k
        BY <3>1, Smallest
      <3>3. ASSUME NEW k \in t + 1 .. m PROVE g[k] \in DOMAIN Digit
        <4>1. m \in t .. n
          OBVIOUS
        <4>2. k - 1 \in t .. n /\ k - 1 < m /\ k - 1 # n /\ k - 1 + 1 = k
          BY <4>1
        <4>3. k - 1 \notin D
          <5> HIDE DEF D
          <5>1. k - 1 \in D => m <= k - 1
            BY <3>2
          <5> QED
            BY <4>1, <4>2, <5>1
        <4> QED
          BY <4>2, <4>3
      <3>4. m \in t .. n /\ (m = n \/ g[m + 1] \notin DOMAIN Digit)
        OBVIOUS
      <3> HIDE DEF D
      <3> QED
        BY <3>3, <3>4, Zenon
    <2>3. DigitsAfter(g, t) = SubSeq(g, t + 1, P(g)) /\ DigitsAfter(h, t) = SubSeq(h, t + 1, P(h))
      BY DEF DigitsAfter
    <2> HIDE DEF P
    <2>5. \A a, b \in t .. n : a = b => SubSeq(g, t + 1, a) = SubSeq(h, t + 1, b)
      <3> SUFFICES ASSUME NEW a \in t .. n PROVE SubSeq(g, t + 1, a) = SubSeq(h, t + 1, a)
        OBVIOUS
      <3>1. \A i \in t + 1 .. a : i \in t .. n /\ g[i] \in Cell /\ h[i] \in Cell
        BY ElementOfSeq
      <3>2. PICK x, y : x = SubSeq(g, t + 1, a) /\ y = SubSeq(h, t + 1, a)
        OBVIOUS
      <3>3. /\ x \in Seq(Cell) /\ y \in Seq(Cell)
            /\ Len(x) = (IF t + 1 <= a THEN a - (t + 1) + 1 ELSE 0) /\ Len(y) = Len(x)
            /\ \A i \in 1 .. a - (t + 1) + 1 : x[i] = g[t + 1 + i - 1] /\ y[i] = h[t + 1 + i - 1]
        BY <3>1, <3>2, SubSeqProperties
      <3>4. \A i \in 1 .. Len(x) : x[i] = y[i]
        <4> SUFFICES ASSUME NEW i \in 1 .. Len(x) PROVE x[i] = y[i]
          OBVIOUS
        <4>1. i \in 1 .. a - (t + 1) + 1 /\ t + 1 + i - 1 \in t .. n
          BY <3>3
        <4> QED
          BY <3>3, <4>1
      <3> QED
        BY <3>2, <3>3, <3>4, SeqEqual
    <2> QED
      BY <2>2, <2>3, <2>4, <2>5
  <1>4. PICK G, H : G = {i \in 1 .. Len(g) : g[i] = "tag"} /\ H = {i \in 1 .. Len(h) : h[i] = "tag"}
    OBVIOUS
  <1>5. \A T : T = {t} => (CHOOSE i \in T : \A j \in T : i <= j) = t
    OBVIOUS
  <1> QED
    BY <1>2, <1>3, <1>5 DEF Declared

\* When only a part of the head is there, an end that is found is a leftover, and
\* what it declares makes the worker read more.
LEMMA HeadPart ==
  ASSUME IInv, AllOrderly, Open, Split, Stale, heap = NoBody,
         buf_len > 0, buf_len < Len(Current.head), HasHead
  PROVE  /\ BodyStart > buf_len /\ ContentLength \in 0 .. MaxBody
         /\ BodyStart + ContentLength <= Cap /\ mem[0] = Current.head[1]
PROOF
  <1>1. PICK e \in Ends : TRUE
    BY DEF HasHead
  <1>2. /\ BodyStart = e + 1 /\ mem[e] = "end" /\ e \in 0 .. Cap
        /\ \A j \in 0 .. e - 1 : mem[j] \notin {"NUL", "end"}
    BY OneEnd
  <1>3. PICK h, n : h = Current.head /\ n = Len(Current.head)
    OBVIOUS
  <1>4. /\ n \in Nat \ {0} /\ n = Len(h) /\ h \in Seq(Data)
        /\ \A i \in 1 .. n - 1 : h[i] \notin {"NUL", "end"}
    BY <1>3, CurrentHead
  <1>5. buf_len \in 1 .. Cap /\ Cap \in Nat /\ buf_len < n /\ MaxBody \in Nat
    BY <1>3, StateTypes
  <1>6. \A q \in 0 .. buf_len - 1 : mem[q] = h[q + 1] /\ q + 1 \in 1 .. n - 1
    <2> SUFFICES ASSUME NEW q \in 0 .. buf_len - 1 PROVE mem[q] = h[q + 1] /\ q + 1 \in 1 .. n - 1
      OBVIOUS
    <2>1. q \in 0 .. n - 1 /\ q < buf_len /\ q + 1 \in 1 .. n - 1
      BY <1>4, <1>5
    <2> QED
      BY <1>3, <2>1, InBuffer
  <1>7. e >= buf_len
    <2>1. ~ (e \in 0 .. buf_len - 1)
      BY <1>2, <1>4, <1>6
    <2> QED
      BY <1>2, <1>5, <2>1
  <1>8. mem[buf_len] # "NUL"
    <2>1. buf_len = e \/ buf_len \in 0 .. e - 1
      BY <1>2, <1>5, <1>7
    <2> QED
      BY <1>2, <2>1
  <1>9. \A i \in 1 .. n : h[i] # "tag"
    BY <1>3, <1>5, <1>8 DEF Stale
  <1>10. e < Cap
    <2>1. mem[Cap] = "NUL"
      BY DEF Stale
    <2>2. e # Cap
      BY <1>2, <2>1
    <2> QED
      BY <1>2, <1>5, <2>2
  <1>11. mem[0] = h[1]
    BY <1>5, <1>6
  <1>12. PICK g : g = TheHead
    OBVIOUS
  <1>13. /\ g \in Seq(Cell) /\ Len(g) = e + 1
         /\ \A i \in 1 .. e + 1 : g[i] = mem[i - 1]
    <2>1. mem \in [0 .. Cap -> Cell] /\ e + 1 \in Nat /\ 0 + (e + 1) <= Cap + 1
      BY <1>2, <1>5, <1>10, StateTypes
    <2>2. PICK c : c = Cells(0, e + 1)
      OBVIOUS
    <2>3. c \in Seq(Cell) /\ Len(c) = e + 1
      BY <2>1, <2>2, CellsType
    <2>4. \A i \in 1 .. e + 1 : c[i] = mem[0 + i - 1] /\ 0 + i - 1 = i - 1
      BY <2>2 DEF Cells
    <2>5. g = c
      BY <1>2, <1>12, <2>2 DEF TheHead
    <2> QED
      BY <2>3, <2>4, <2>5
  <1>14. ContentLength = Declared(g)
    BY <1>12 DEF ContentLength
  <1>15. CASE \A i \in 1 .. Len(g) : g[i] # "tag"
    <2>1. Declared(g) = 0
      <3>1. {i \in 1 .. Len(g) : g[i] = "tag"} = {}
        BY <1>15
      <3> QED
        BY <3>1 DEF Declared
    <2> QED
      BY <1>2, <1>3, <1>5, <1>7, <1>10, <1>11, <1>14, <2>1
  <1>16. CASE \E i \in 1 .. Len(g) : g[i] = "tag"
    <2>1. PICK t \in 1 .. e + 1 : g[t] = "tag" /\ \A i \in 1 .. e + 1 : g[i] = "tag" => i >= t
      <3> DEFINE T == {i \in 1 .. e + 1 : g[i] = "tag"}
      <3>1. T \in SUBSET Nat /\ T # {}
        BY <1>13, <1>16
      <3>2. PICK m \in T : \A k \in T : m <= k
        <4> HIDE DEF T
        <4> QED
          BY <3>1, Smallest
      <3>3. m \in 1 .. e + 1 /\ g[m] = "tag"
        OBVIOUS
      <3>4. \A i \in 1 .. e + 1 : g[i] = "tag" => m <= i
        BY <3>2
      <3> QED
        BY <3>3, <3>4
    <2>2. t - 1 \in buf_len .. Cap /\ mem[t - 1] = "tag" /\ t - 1 \in 0 .. e /\ t - 1 + 1 = t
      <3>1. mem[t - 1] = "tag" /\ t - 1 \in 0 .. e
        BY <1>2, <1>13, <2>1
      <3>2. ~ (t - 1 \in 0 .. buf_len - 1)
        <4>1. t - 1 \in 0 .. buf_len - 1 => t - 1 + 1 \in 1 .. n /\ mem[t - 1] = h[t - 1 + 1]
          BY <1>4, <1>5, <1>6
        <4> QED
          BY <1>9, <3>1, <4>1
      <3> QED
        BY <1>2, <1>5, <3>1, <3>2
    <2>3. \A q \in 0 .. t - 1 : mem[q] # "NUL"
      <3> SUFFICES ASSUME NEW q \in 0 .. t - 1 PROVE mem[q] # "NUL"
        OBVIOUS
      <3>1. q = e \/ q \in 0 .. e - 1
        BY <1>2, <2>2
      <3> QED
        BY <1>2, <3>1
    <2>4. Leftover(t - 1)
      BY <1>5, <2>2, <2>3 DEF Stale
    <2>11. PICK i \in 1 .. Len(script) :
             /\ t - 1 < Len(script[i].head)
             /\ Declared(script[i].head) \in 0 .. MaxBody
             /\ Len(script[i].head) + Declared(script[i].head) <= Cap
             /\ \A q \in t - 1 .. Len(script[i].head) - 1 : mem[q] = script[i].head[q + 1]
      BY <2>4 DEF Leftover
    <2>5. PICK k :
            /\ k = script[i].head
            /\ t - 1 < Len(k) /\ Declared(k) \in 0 .. MaxBody /\ Len(k) + Declared(k) <= Cap
            /\ \A q \in t - 1 .. Len(k) - 1 : mem[q] = k[q + 1]
      BY <2>11
    <2>6. /\ k \in Seq(Data) /\ Len(k) \in Nat
          /\ \A j \in 1 .. Len(k) : k[j] = "end" <=> j = Len(k)
          /\ \A j, l \in 1 .. Len(k) : k[j] = "tag" /\ k[l] = "tag" => j = l
      <3>1. script[i].head \in Seq(Data) /\ Len(script[i].head) \in Nat
        BY StateTypes, ScriptParts
      <3>2. WellFormed(script[i])
        BY StateTypes DEF AllOrderly, Orderly
      <3> QED
        BY <2>5, <3>1, <3>2 DEF WellFormed
    <2>7. Len(k) = e + 1
      <3>1. Len(k) - 1 \in t - 1 .. Len(k) - 1 /\ Len(k) - 1 + 1 = Len(k) /\ Len(k) \in 1 .. Len(k)
        BY <2>1, <2>2, <2>5, <2>6
      <3>2. mem[Len(k) - 1] = "end"
        BY <2>5, <2>6, <3>1
      <3>3. ~ (Len(k) - 1 \in 0 .. e - 1)
        BY <1>2, <3>2
      <3>4. e <= Len(k) - 1
        <4>1. PICK x \in Int : x = Len(k) - 1 /\ x >= 0 /\ ~ (x \in 0 .. e - 1)
          <5>1. PICK x \in Int : x = Len(k) - 1
            BY <2>6
          <5>2. ~ (x \in 0 .. e - 1)
            BY <3>3, <5>1
          <5>3. x \in t - 1 .. x
            BY <3>1, <5>1
          <5>4. t - 1 >= 0 /\ t - 1 \in Int
            BY <2>1
          <5>5. x >= 0
            BY <5>3, <5>4
          <5> QED
            BY <5>1, <5>2, <5>5
        <4>2. x >= 0 /\ ~ (x \in 0 .. e - 1) /\ e \in Int
          BY <1>2, <1>5, <4>1
        <4>3. e <= x
          BY <4>2
        <4> QED
          BY <4>1, <4>3
      <3>5. e \in t - 1 .. Len(k) - 1 /\ e + 1 \in 1 .. Len(k)
        BY <1>2, <2>2, <2>6, <3>4
      <3>6. k[e + 1] = "end"
        BY <1>2, <2>5, <3>5
      <3> QED
        BY <2>6, <3>5, <3>6
    <2>8. \A j \in t .. e + 1 : g[j] = k[j]
      <3> SUFFICES ASSUME NEW j \in t .. e + 1 PROVE g[j] = k[j]
        OBVIOUS
      <3>1. j - 1 \in t - 1 .. Len(k) - 1 /\ j - 1 + 1 = j /\ j \in 1 .. e + 1
        BY <1>2, <2>1, <2>7
      <3> QED
        BY <1>13, <2>5, <3>1
    <2>9. k[t] = "tag" /\ \A j \in 1 .. e + 1 : k[j] = "tag" => j = t
      <3>1. t \in t .. e + 1
        BY <1>2, <2>1
      <3>2. k[t] = "tag"
        BY <2>1, <2>8, <3>1
      <3> QED
        BY <2>1, <2>6, <2>7, <3>2
    <2>10. Declared(g) = Declared(k)
      <3>1. k \in Seq(Cell)
        BY <2>6, SeqMonotonic DEF Data
      <3>2. e + 1 \in Nat
        BY <1>2
      <3>3. g \in Seq(Cell) /\ Len(g) = e + 1 /\ g[t] = "tag"
        BY <1>13, <2>1
      <3>4. \A j \in 1 .. e + 1 : g[j] = "tag" => j >= t
        BY <2>1
      <3> QED
        BY <2>7, <2>8, <2>9, <3>1, <3>2, <3>3, <3>4, SameDeclared
    <2> QED
      BY <1>2, <1>3, <1>5, <1>7, <1>11, <1>14, <2>5, <2>7, <2>10
  <1> QED
    BY <1>15, <1>16

\* Every parse is of one or the other kind.
LEMMA Parsed ==
  ASSUME IInv, AllOrderly, Frame, pc = "parse"
  PROVE  /\ Open /\ heap = NoBody
         /\ ~ HasHead => buf_len < Len(Current.head)
         /\ HasHead =>
              \/ /\ Len(Current.head) <= buf_len
                 /\ BodyStart = Len(Current.head) /\ TheHead = Current.head
              \/ /\ BodyStart > buf_len /\ ContentLength \in 0 .. MaxBody
                 /\ BodyStart + ContentLength <= Cap
         /\ mem[0] = Current.head[1]
PROOF
  <1>1. Split /\ Stale /\ buf_len > 0 /\ heap = NoBody
    BY DEF Frame, AtHand, IInv, ArenaPaired
  <1>2. Open
    <2>1. Len(answers) <= sent /\ Splits(script, Fed, Len(answers), sent)
      BY <1>1 DEF Split
    <2>2. PICK F : F = Fed
      OBVIOUS
    <2>3. Len(F) = buf_len + Len(unread)
      BY <1>1, <2>2, FedBuffer
    <2>4. Len(F) > 0
      BY <1>1, <2>3, StateTypes
    <2>5. Len(answers) # sent
      BY <2>1, <2>2, <2>4, StateTypes, SplitNone
    <2> QED
      BY <2>1, <2>5, StateTypes DEF Open
  <1>3. Len(Current.head) \in Nat \ {0} /\ buf_len \in Nat
    BY <1>2, CurrentHead, StateTypes
  <1>4. mem[0] = Current.head[1]
    <2>1. 0 \in 0 .. Len(Current.head) - 1 /\ 0 < buf_len /\ 0 + 1 = 1
      BY <1>1, <1>3
    <2>2. mem[0] = Current.head[0 + 1]
      BY <1>1, <1>2, <2>1, InBuffer
    <2> QED
      BY <2>1, <2>2
  <1>5. CASE Len(Current.head) <= buf_len
    BY <1>1, <1>2, <1>3, <1>4, <1>5, HeadWhole
  <1>6. CASE buf_len < Len(Current.head)
    BY <1>1, <1>2, <1>4, <1>6, HeadPart
  <1> QED
    BY <1>3, <1>5, <1>6

-----------------------------------------------------------------------------
(* Steps *)

\* What the framing says when none of its cells moves.
LEMMA SameFrame ==
  ASSUME UNCHANGED <<script, sent, unread, mem, buf_len, heap, answers>>
  PROVE  /\ Split' = Split /\ Behind' = Behind /\ TagsFirst' = TagsFirst /\ Stale' = Stale
         /\ Open' = Open /\ Current' = Current /\ AnsweredAsSent' = AnsweredAsSent
         /\ TheHead' = TheHead /\ BodyStart' = BodyStart /\ GoodHead' = GoodHead
         /\ ContentLength' = ContentLength
PROOF
  <1>1. /\ GoodHead' = GoodHead /\ ContentLength' = ContentLength /\ BodyStart' = BodyStart
    BY SameBuffer DEF buffer
  <1>2. TheHead' = TheHead /\ \A x, y : Cells(x, y)' = Cells(x, y)
    BY <1>1 DEF TheHead, Cells
  <1>3. Current' = Current /\ Open' = Open
    BY DEF Current, Open
  <1>4. Fed' = Fed
    BY <1>1 DEF Fed, Held, Cells
  <1>5. Split' = Split
    BY <1>4 DEF Split, Splits
  <1>6. TagsFirst' = TagsFirst /\ Behind' = Behind
    BY <1>3, <1>4 DEF TagsFirst, Behind
  <1>7. Stale' = Stale
    BY <1>3 DEF Stale, Leftover
  <1>8. AnsweredAsSent' = AnsweredAsSent
    BY DEF AnsweredAsSent
  <1> QED
    BY <1>1, <1>2, <1>3, <1>5, <1>6, <1>7, <1>8

\* The worker moves on, and nothing else.
LEMMA MoveFrame ==
  ASSUME Frame, AnsweredAsSent,
         UNCHANGED <<script, sent, unread, mem, buf_len, heap, answers>>,
         \/ pc' \in {"done", "closed"}
         \/ /\ pc \notin {"done", "closed"} /\ pc' \notin {"heap", "handle"}
            /\ pc' \in {"process", "parse"} => pc \in {"process", "parse"}
         \/ pc' = pc /\ request' = request
  PROVE  Frame' /\ AnsweredAsSent'
PROOF
  BY SameFrame DEF Frame, AtHand

\* One more answer, to the request at hand.
LEMMA Answered ==
  ASSUME IInv, AnsweredAsSent, Open, UNCHANGED <<script, sent>>,
         NEW status, NEW r, NEW last,
         answers' = Append(answers, [status |-> status, request |-> r, last |-> last]),
         \/ status = 500
         \/ /\ status = Deserved(Current)
            /\ status = 200 => r.head = Current.head /\ r.body = Current.body
  PROVE  AnsweredAsSent'
PROOF
  <1>1. PICK a : a = [status |-> status, request |-> r, last |-> last]
    OBVIOUS
  <1>2. /\ answers' = Append(answers, a) /\ a.status = status /\ a.request = r
    BY <1>1
  <1>3. \E S : answers \in Seq(S)
    BY DEF IInv, Counting
  <1>4. PICK k \in Nat : k = Len(answers)
    BY StateTypes
  <1>5. PICK S : answers \in Seq(S)
    BY <1>3
  <1>6. /\ Len(answers') = k + 1 /\ answers'[k + 1] = a
        /\ \A i \in 1 .. k : answers'[i] = answers[i]
    BY <1>2, <1>4, <1>5
  <1>7. k + 1 <= sent /\ sent' = sent /\ script' = script /\ Current = script[k + 1]
    BY <1>4, StateTypes DEF Open, Current
  <1>8. ASSUME NEW i \in 1 .. k + 1
        PROVE  /\ i <= sent'
               /\ \/ answers'[i].status = 500
                  \/ /\ answers'[i].status = Deserved(script'[i])
                     /\ answers'[i].status = 200 =>
                          /\ answers'[i].request.head = script'[i].head
                          /\ answers'[i].request.body = script'[i].body
    <2>1. CASE i = k + 1
      <3>1. a.status = 500 \/ (/\ a.status = Deserved(script[k + 1])
                               /\ a.status = 200 => /\ a.request.head = script[k + 1].head
                                                    /\ a.request.body = script[k + 1].body)
        BY <1>2, <1>7
      <3> QED
        BY <1>6, <1>7, <2>1, <3>1
    <2>2. CASE i # k + 1
      <3>1. i \in 1 .. Len(answers) /\ i \in 1 .. k
        BY <1>4, <2>2
      <3>2. /\ i <= sent
            /\ \/ answers[i].status = 500
               \/ /\ answers[i].status = Deserved(script[i])
                  /\ answers[i].status = 200 =>
                       /\ answers[i].request.head = script[i].head
                       /\ answers[i].request.body = script[i].body
        BY <3>1 DEF AnsweredAsSent
      <3> QED
        BY <1>6, <1>7, <3>1, <3>2
    <2> QED
      BY <2>1, <2>2
  <1> QED
    BY <1>6, <1>8 DEF AnsweredAsSent, Deserved

\* The read loop.
LEMMA LoopFrame ==
  ASSUME FInv, TopShutdown \/ TopWait \/ ReadEnd \/ ArenaBegin \/ NeedMore \/ ConnDone \/ Shutdown
  PROVE  Frame' /\ AnsweredAsSent'
PROOF
  <1>1. UNCHANGED <<script, sent, unread, mem, buf_len, heap, answers>>
    BY DEF TopShutdown, TopWait, ReadEnd, ArenaBegin, NeedMore, ConnDone, Shutdown, client, buffer
  <1>2. \/ pc' \in {"done", "closed"}
        \/ /\ pc \notin {"done", "closed"} /\ pc' \notin {"heap", "handle"}
           /\ pc' \in {"process", "parse"} => pc \in {"process", "parse"}
        \/ pc' = pc /\ request' = request
    BY DEF TopShutdown, TopWait, ReadEnd, ArenaBegin, NeedMore, ConnDone, Shutdown, handling
  <1> QED
    BY <1>1, <1>2, MoveFrame DEF FInv

\* The worker gives up without an answer.
LEMMA DropFrame ==
  ASSUME FInv, HeapReadFail \/ RespondFail
  PROVE  Frame' /\ AnsweredAsSent'
PROOF
  <1>1. UNCHANGED <<script, sent, answers>> /\ pc' = "done"
    BY DEF HeapReadFail, RespondFail, client
  <1> QED
    BY <1>1 DEF FInv, Frame, AnsweredAsSent

\* No end of a head was found: more is read, or the head does not fit.
LEMMA NoHeadFrame ==
  ASSUME FInv, AllOrderly, NoHead
  PROVE  Frame' /\ AnsweredAsSent'
PROOF
  <1>1. /\ pc = "parse" /\ ~ HasHead
        /\ UNCHANGED <<script, sent, unread, mem, buf_len, heap>>
    BY DEF NoHead, client, buffer
  <1>2. CASE buf_len >= Cap
    <2>1. pc' = "done" /\ answers' = Append(answers, [status |-> 431, request |-> NoRequest, last |-> TRUE])
      BY <1>2 DEF NoHead, Answer
    <2>2. Open /\ buf_len < Len(Current.head)
      BY <1>1, Parsed DEF FInv
    <2>3. 431 = Deserved(Current)
      <3>1. buf_len \in 0 .. Cap /\ Cap \in Nat /\ Len(Current.head) \in Nat
        BY <2>2, StateTypes, CurrentHead DEF FInv
      <3>2. Len(Current.head) > Cap
        BY <1>2, <2>2, <3>1
      <3> QED
        BY <3>2 DEF Deserved
    <2> QED
      BY <1>1, <2>1, <2>2, <2>3, Answered DEF FInv, Frame
  <1>3. CASE ~ (buf_len >= Cap)
    <2>1. pc' = "top" /\ answers' = answers
      BY <1>3 DEF NoHead
    <2> QED
      BY <1>1, <2>1, MoveFrame DEF FInv
  <1> QED
    BY <1>2, <1>3

\* A request is refused.
LEMMA RefuseFrame ==
  ASSUME FInv, AllOrderly, BadLine \/ BadLength \/ HeapBodyFail
  PROVE  Frame' /\ AnsweredAsSent'
PROOF
  <1>1. /\ pc = "parse" /\ pc' = "done" /\ HasHead
        /\ UNCHANGED <<script, sent>>
    BY DEF BadLine, BadLength, HeapBodyFail, client, GoodHead
  <1>2. Frame'
    BY <1>1 DEF Frame
  <1>3. IInv /\ AnsweredAsSent /\ Frame
    BY DEF FInv
  <1>4. /\ Open /\ mem[0] = Current.head[1]
        /\ \/ /\ Len(Current.head) <= buf_len /\ BodyStart = Len(Current.head)
              /\ TheHead = Current.head
           \/ ContentLength \in 0 .. MaxBody
    BY <1>1, <1>3, Parsed
  <1>5. PICK r : r = Current
    OBVIOUS
  <1>6. Len(r.head) \in Nat /\ WellFormed(r) /\ buf_len \in 0 .. Cap /\ Cap \in Nat /\ MaxBody \in Nat
    BY <1>3, <1>4, <1>5, StateTypes, CurrentHead
  <1>7. CASE BadLine
    <2>1. answers' = Append(answers, [status |-> 400, request |-> NoRequest, last |-> TRUE]) /\ mem[0] # "line"
      BY <1>7 DEF BadLine, Answer
    <2>2. 400 = Deserved(r)
      BY <1>4, <1>5, <1>6, <2>1 DEF Deserved, WellFormed
    <2> QED
      BY <1>1, <1>2, <1>3, <1>4, <1>5, <2>1, <2>2, Answered
  <1>8. CASE BadLength
    <2>1. \/ /\ ContentLength < 0
             /\ answers' = Append(answers, [status |-> 400, request |-> NoRequest, last |-> TRUE])
          \/ /\ ContentLength > MaxBody
             /\ answers' = Append(answers, [status |-> 413, request |-> NoRequest, last |-> TRUE])
      BY <1>8 DEF BadLength, Answer
    <2>2. mem[0] = "line" /\ ~ (ContentLength \in 0 .. MaxBody)
      <3>1. ContentLength \in 0 .. MaxBody => ~ (ContentLength < 0) /\ ~ (ContentLength > MaxBody)
        BY <1>6
      <3> QED
        BY <1>8, <2>1, <3>1 DEF BadLength
    <2>3. PICK d \in Int : d = ContentLength /\ d = Declared(r.head) /\ Len(r.head) <= Cap
      BY <1>4, <1>5, <1>6, <2>2 DEF ContentLength, WellFormed
    <2>4. d < 0 => 400 = Deserved(r)
      BY <1>4, <1>5, <1>6, <2>2, <2>3 DEF Deserved
    <2>5. d > MaxBody => 413 = Deserved(r)
      BY <1>4, <1>5, <1>6, <2>2, <2>3 DEF Deserved
    <2>6. CASE d < 0
      <3>1. ~ (d > MaxBody)
        BY <1>6, <2>6
      <3> QED
        BY <1>1, <1>2, <1>3, <1>4, <1>5, <2>1, <2>3, <2>4, <2>6, <3>1, Answered
    <2>7. CASE d > MaxBody
      <3>1. ~ (d < 0)
        BY <1>6, <2>7
      <3> QED
        BY <1>1, <1>2, <1>3, <1>4, <1>5, <2>1, <2>3, <2>5, <2>7, <3>1, Answered
    <2> QED
      BY <2>1, <2>3, <2>6, <2>7
  <1>9. CASE HeapBodyFail
    <2>1. answers' = Append(answers, [status |-> 500, request |-> NoRequest, last |-> TRUE])
      BY <1>9 DEF HeapBodyFail, Answer
    <2> QED
      BY <1>1, <1>2, <1>3, <1>4, <2>1, Answered
  <1> QED
    BY <1>7, <1>8, <1>9

\* The body of the request at hand is as long as its head declares.
LEMMA BodyLength ==
  ASSUME IInv, AllOrderly, Open, GoodHead, TheHead = Current.head, BodyStart = Len(Current.head)
  PROVE  /\ ContentLength \in Nat /\ Len(Current.body) = ContentLength
         /\ Size(Current) = BodyStart + ContentLength
         /\ Current.head[1] = "line" /\ Len(Current.head) <= Cap => Deserved(Current) = 200
PROOF
  <1>1. PICK r : r = Current
    OBVIOUS
  <1>2. WellFormed(r) /\ Len(r.head) \in Nat /\ MaxBody \in Nat
    BY <1>1, CurrentHead, StateTypes
  <1>3. PICK d \in 0 .. MaxBody : d = ContentLength /\ d = Declared(r.head)
    BY <1>1 DEF GoodHead, ContentLength
  <1>4. Len(r.body) = d
    BY <1>2, <1>3 DEF WellFormed
  <1>5. d \in Nat /\ ~ (d < 0) /\ ~ (d > MaxBody)
    BY <1>2, <1>3
  <1>6. Cap \in Nat
    BY StateTypes
  <1>7. r.head[1] = "line" /\ Len(r.head) <= Cap => Deserved(r) = 200
    <2> SUFFICES ASSUME r.head[1] = "line", Len(r.head) <= Cap PROVE Deserved(r) = 200
      OBVIOUS
    <2>1. ~ (Len(r.head) > Cap)
      BY <1>2, <1>6
    <2> QED
      BY <1>3, <1>5, <2>1 DEF Deserved
  <1> QED
    BY <1>1, <1>2, <1>3, <1>4, <1>5, <1>7 DEF Size

\* The request handed to the handler is the one its client sent.
LEMMA DispatchFrame ==
  ASSUME FInv, AllOrderly, Dispatch
  PROVE  Frame' /\ AnsweredAsSent'
PROOF
  <1>1. /\ pc' = "handle"
        /\ UNCHANGED <<script, sent, unread, mem, buf_len, heap, answers>>
        /\ request' = [head |-> TheHead,
                       body |-> IF pc = "heap" THEN heap ELSE Cells(BodyStart, ContentLength)]
        /\ \/ pc = "parse" /\ GoodHead /\ BodyAvailable >= ContentLength
           \/ pc = "heap" /\ Len(heap) = ContentLength
    BY DEF Dispatch, client, buffer
  <1>2. IInv /\ AnsweredAsSent /\ Split /\ Behind /\ TagsFirst /\ Stale /\ AtHand /\ Frame
    BY <1>1 DEF FInv, Frame
  <1>3. ASSUME Open, GoodHead, TheHead = Current.head, BodyStart = Len(Current.head),
               request' = [head |-> Current.head, body |-> Current.body],
               heap # NoBody => Len(heap) = ContentLength
        PROVE  Frame' /\ AnsweredAsSent'
    <2>1. /\ Split' = Split /\ Behind' = Behind /\ TagsFirst' = TagsFirst /\ Stale' = Stale
          /\ Open' = Open /\ Current' = Current /\ AnsweredAsSent' = AnsweredAsSent
          /\ TheHead' = TheHead /\ BodyStart' = BodyStart /\ GoodHead' = GoodHead
          /\ ContentLength' = ContentLength /\ heap' = heap
      BY <1>1, SameFrame
    <2>2. (heap # NoBody => Len(heap) = ContentLength)'
      BY <1>3, <2>1
    <2>3. (/\ pc = "handle" => /\ request = [head |-> Current.head, body |-> Current.body]
                               /\ heap # NoBody => Len(heap) = ContentLength
           /\ pc \in {"heap", "handle"} =>
                Open /\ GoodHead /\ TheHead = Current.head /\ BodyStart = Len(Current.head))'
      BY <1>3, <2>1, <2>2
    <2>4. AtHand'
      BY <1>1, <2>3 DEF AtHand
    <2> QED
      BY <1>2, <2>1, <2>4 DEF Frame
  <1>4. CASE pc = "parse"
    <2>1. GoodHead /\ BodyAvailable >= ContentLength /\ HasHead
      BY <1>1, <1>4 DEF GoodHead
    <2>2. BodyStart \in Nat /\ buf_len \in Nat /\ ContentLength \in Nat /\ BodyAvailable = buf_len - BodyStart
      BY <1>2, <2>1, HeadInBuffer, StateTypes DEF GoodHead, BodyAvailable
    <2>3. /\ Open /\ heap = NoBody
          /\ \/ /\ Len(Current.head) <= buf_len
                /\ BodyStart = Len(Current.head) /\ TheHead = Current.head
             \/ BodyStart > buf_len
      BY <1>2, <1>4, <2>1, Parsed
    <2>4. ~ (BodyStart > buf_len)
      BY <2>1, <2>2
    <2>5. BodyStart = Len(Current.head) /\ TheHead = Current.head
      BY <2>3, <2>4
    <2>6. Len(Current.body) = ContentLength /\ Current.body \in Seq(Data) /\ Len(Current.head) \in Nat
      BY <1>2, <2>1, <2>3, <2>5, BodyLength, CurrentHead
    <2>7. PICK n \in Nat, p \in Nat, b \in Seq(Data) :
            n = ContentLength /\ p = BodyStart /\ b = Current.body
      BY <2>2, <2>6
    <2>8. \A i \in 1 .. n : mem[p + i - 1] = b[i]
      <3> SUFFICES ASSUME NEW i \in 1 .. n PROVE mem[p + i - 1] = b[i]
        OBVIOUS
      <3>1. p + n <= buf_len
        BY <2>1, <2>2, <2>7
      <3>2. p + i - 1 < buf_len
        BY <2>2, <3>1
      <3>3. i \in 1 .. Len(Current.body) /\ Len(Current.head) + i - 1 = p + i - 1
        BY <2>5, <2>6, <2>7
      <3> QED
        BY <1>2, <2>3, <2>7, <3>2, <3>3, InBuffer
    <2>9. Cells(p, n) = b
      <3>1. Len(b) = n
        BY <2>6, <2>7
      <3>2. b = [i \in 1 .. n |-> b[i]]
        BY <3>1
      <3>3. Cells(p, n) = [i \in 1 .. n |-> b[i]]
        BY <2>8 DEF Cells
      <3> QED
        BY <3>2, <3>3
    <2>10. request' = [head |-> Current.head, body |-> Current.body]
      BY <1>1, <1>4, <2>5, <2>7, <2>9
    <2> QED
      BY <1>3, <2>1, <2>3, <2>5, <2>10
  <1>5. CASE pc = "heap"
    <2>1. Len(heap) = ContentLength /\ heap # NoBody /\ heap \in Seq(Data)
      BY <1>1, <1>2, <1>5 DEF IInv, Measured, Clean
    <2>2. Open /\ GoodHead /\ TheHead = Current.head /\ BodyStart = Len(Current.head)
      BY <1>2, <1>5 DEF AtHand
    <2>3. PICK b \in Seq(Data), h \in Seq(Data) : b = Current.body /\ h = Current.head
      BY <1>2, <2>2, CurrentHead
    <2>4. Len(b) = ContentLength
      BY <1>2, <2>2, <2>3, BodyLength
    <2>5. PICK F \in Seq(Data) : F = Fed /\ \A i \in 1 .. Len(heap) : F[Len(h) + i] = heap[i]
      <3>1. TheHead \in Seq(Data) /\ TheHead = h /\ unread \in Seq(Data)
        BY <1>2, <2>2, <2>3, StateTypes
      <3> QED
        BY <2>1, <3>1, FedHeap
    <2>6. \A i \in 1 .. Len(b) : F[Len(h) + i] = b[i]
      <3>1. PICK k \in Nat : k = Len(answers)
        BY <1>2, StateTypes
      <3>2. /\ script \in Script /\ sent \in Nat /\ k < sent /\ sent <= Len(script)
            /\ Splits(script, F, k, sent) /\ Current = script[k + 1]
        BY <1>2, <2>2, <2>5, <3>1, StateTypes DEF Open, Split, Current
      <3>3. \A i \in 1 .. Len(script[k + 1].body) :
              F[Len(script[k + 1].head) + i] = script[k + 1].body[i]
        BY <3>2, SplitFirst
      <3> QED
        BY <2>3, <3>2, <3>3
    <2>7. heap = b
      <3>1. Len(heap) = Len(b)
        BY <2>1, <2>4
      <3>2. \A i \in 1 .. Len(heap) : heap[i] = b[i]
        BY <2>5, <2>6, <3>1
      <3> QED
        BY <2>1, <3>1, <3>2, SeqEqual
    <2>8. request' = [head |-> Current.head, body |-> Current.body]
      BY <1>1, <1>5, <2>2, <2>3, <2>7
    <2> QED
      BY <1>3, <2>1, <2>2, <2>8
  <1> QED
    BY <1>1, <1>4, <1>5

\* What the worker has of the requests is cells that clients sent.
LEMMA HeldType ==
  ASSUME IInv, AllOrderly, AtHand
  PROVE  /\ Held \in Seq(Data) /\ Fed = Held \o unread /\ Fed \in Seq(Data)
         /\ heap # NoBody => Open /\ TheHead \in Seq(Data) /\ heap \in Seq(Data)
                             /\ Held = TheHead \o heap
PROOF
  <1>1. unread \in Seq(Data) /\ Fed = Held \o unread
    BY StateTypes DEF Fed
  <1>2. CASE heap = NoBody
    <2>1. Held = Cells(0, buf_len)
      BY <1>2 DEF Held
    <2>2. buf_len \in Nat /\ \A q \in 0 .. buf_len - 1 : mem[q] \in Data
      BY StateTypes
    <2>3. \A i \in 1 .. buf_len : 0 + i - 1 \in 0 .. buf_len - 1
      BY <2>2
    <2>4. Held \in Seq(Data)
      BY <2>1, <2>2, <2>3 DEF Cells
    <2> QED
      BY <1>1, <1>2, <2>4, FedBuffer
  <1>3. CASE heap # NoBody
    <2>1. pc \in {"heap", "handle"} /\ heap \in Seq(Data)
      BY <1>3 DEF IInv, ArenaPaired, Clean
    <2>2. Open /\ TheHead = Current.head
      BY <2>1 DEF AtHand
    <2>3. TheHead \in Seq(Data)
      BY <2>2, CurrentHead
    <2> QED
      BY <1>1, <1>3, <2>1, <2>2, <2>3, FedHeap
  <1> QED
    BY <1>2, <1>3

\* When every request was answered nothing is held.
LEMMA NothingHeld ==
  ASSUME IInv, AllOrderly, AtHand, Split, ~ Open
  PROVE  /\ Len(answers) = sent /\ Len(Fed) = 0 /\ heap = NoBody /\ buf_len = 0
PROOF
  <1>1. PICK k \in Nat : k = Len(answers) /\ sent \in Nat /\ k <= sent
    BY StateTypes DEF Split
  <1>2. k = sent
    BY <1>1 DEF Open
  <1>3. Len(Fed) = 0
    BY <1>1, <1>2, SplitNone DEF Split
  <1>4. heap = NoBody
    BY HeldType
  <1>5. Len(Fed) = buf_len + Len(unread)
    BY <1>4, FedBuffer
  <1>6. PICK x \in Nat, y \in Nat : x = buf_len /\ y = Len(unread)
    BY StateTypes
  <1>7. x + y = 0
    BY <1>3, <1>5, <1>6
  <1>8. x = 0
    BY <1>7
  <1> QED
    BY <1>1, <1>2, <1>3, <1>4, <1>6, <1>8

\* Where the cells of a concatenation come from.
LEMMA CellOf ==
  ASSUME NEW S, NEW f \in Seq(S), NEW h \in Seq(S), NEW b \in Seq(S),
         NEW w, w = f \o h \o b, NEW i \in 1 .. Len(w)
  PROVE  \/ i \in 1 .. Len(f) /\ w[i] = f[i]
         \/ \E j \in 1 .. Len(h) : i = Len(f) + j /\ w[i] = h[j]
         \/ \E j \in 1 .. Len(b) : w[i] = b[j]
PROOF
  <1>1. PICK l \in Nat, m \in Nat, n \in Nat : l = Len(f) /\ m = Len(h) /\ n = Len(b)
    OBVIOUS
  <1>2. PICK g \in Seq(S) :
          /\ g = f \o h /\ Len(g) = l + m
          /\ \A p \in 1 .. l : g[p] = f[p]
          /\ \A p \in 1 .. m : g[l + p] = h[p]
    <2>1. /\ f \o h \in Seq(S) /\ Len(f \o h) = Len(f) + Len(h)
          /\ \A p \in 1 .. Len(f) : (f \o h)[p] = f[p]
          /\ \A p \in 1 .. Len(h) : (f \o h)[Len(f) + p] = h[p]
      BY Joined
    <2> QED
      BY <1>1, <2>1
  <1>3. w = g \o b
    BY <1>2
  <1>4. /\ Len(w) = l + m + n
        /\ \A p \in 1 .. l + m : w[p] = g[p]
        /\ \A p \in 1 .. n : w[l + m + p] = b[p]
    BY <1>1, <1>2, <1>3, Joined
  <1>5. i \in 1 .. l + m + n /\ w = f \o h \o b
    BY <1>2, <1>3, <1>4
  <1>6. CASE i \in 1 .. l
    <2>1. w[i] = f[i]
      BY <1>1, <1>2, <1>4, <1>6
    <2> QED
      BY <1>1, <1>5, <1>6, <2>1
  <1>7. CASE i \in l + 1 .. l + m
    <2>1. PICK j \in 1 .. m : i = l + j
      <3>1. i - l \in 1 .. m /\ i = l + (i - l)
        BY <1>7
      <3> QED
        BY <3>1
    <2>2. w[i] = h[j]
      <3>1. i \in 1 .. l + m
        BY <1>7
      <3>2. w[i] = g[i]
        BY <1>4, <3>1
      <3>3. g[l + j] = h[j]
        BY <1>2
      <3> QED
        BY <2>1, <3>2, <3>3
    <2> QED
      BY <1>1, <1>5, <2>1, <2>2
  <1>8. CASE i \in l + m + 1 .. l + m + n
    <2>1. PICK j \in 1 .. n : i = l + m + j
      <3>1. i - (l + m) \in 1 .. n /\ i = l + m + (i - (l + m))
        BY <1>8
      <3> QED
        BY <3>1
    <2>2. w[i] = b[j]
      BY <1>4, <2>1
    <2> QED
      BY <1>1, <1>5, <2>2
  <1> QED
    BY <1>5, <1>6, <1>7, <1>8

\* Joining is associative.
LEMMA Associative ==
  ASSUME NEW S, NEW e \in Seq(S), NEW u \in Seq(S), NEW y \in Seq(S),
         NEW p, p = e \o u, NEW q, q = u \o y
  PROVE  e \o q = p \o y
PROOF
  <1>1. PICK l \in Nat, m \in Nat, n \in Nat : l = Len(e) /\ m = Len(u) /\ n = Len(y)
    OBVIOUS
  <1>2. /\ p \in Seq(S) /\ Len(p) = l + m
        /\ \A i \in 1 .. l : p[i] = e[i]
        /\ \A i \in 1 .. m : p[l + i] = u[i]
    BY <1>1, Joined
  <1>3. /\ q \in Seq(S) /\ Len(q) = m + n
        /\ \A i \in 1 .. m : q[i] = u[i]
        /\ \A i \in 1 .. n : q[m + i] = y[i]
    BY <1>1, Joined
  <1>4. PICK v, w : v = e \o q /\ w = p \o y
    OBVIOUS
  <1>5. /\ v \in Seq(S) /\ Len(v) = l + (m + n)
        /\ \A i \in 1 .. l : v[i] = e[i]
        /\ \A i \in 1 .. m + n : v[l + i] = q[i]
    BY <1>1, <1>3, <1>4, Joined
  <1>6. /\ w \in Seq(S) /\ Len(w) = l + m + n
        /\ \A i \in 1 .. l + m : w[i] = p[i]
        /\ \A i \in 1 .. n : w[l + m + i] = y[i]
    BY <1>1, <1>2, <1>4, Joined
  <1>7. ASSUME NEW i \in 1 .. l + m + n PROVE v[i] = w[i]
    <2>1. CASE i \in 1 .. l
      <3>1. i \in 1 .. l + m
        BY <2>1
      <3> QED
        BY <1>2, <1>5, <1>6, <2>1, <3>1
    <2>2. CASE i \in l + 1 .. l + m
      <3>1. PICK j \in 1 .. m : i = l + j /\ j \in 1 .. m + n /\ i \in 1 .. l + m
        <4>1. i - l \in 1 .. m /\ i = l + (i - l) /\ i - l \in 1 .. m + n /\ i \in 1 .. l + m
          BY <2>2
        <4> QED
          BY <4>1
      <3>2. v[i] = q[j] /\ w[i] = p[i]
        BY <1>5, <1>6, <3>1
      <3>3. q[j] = u[j] /\ p[i] = u[j]
        BY <1>2, <1>3, <3>1
      <3> QED
        BY <3>2, <3>3
    <2>3. CASE i \in l + m + 1 .. l + m + n
      <3>1. PICK j \in 1 .. n : i = l + m + j /\ i = l + (m + j) /\ m + j \in 1 .. m + n
        <4>1. i - (l + m) \in 1 .. n
          BY <2>3
        <4>2. PICK j \in 1 .. n : j = i - (l + m)
          BY <4>1
        <4>3. i = l + m + j /\ i = l + (m + j) /\ m + j \in 1 .. m + n
          BY <4>2
        <4> QED
          BY <4>3
      <3>2. v[i] = q[m + j] /\ w[i] = y[j]
        BY <1>5, <1>6, <3>1
      <3> QED
        BY <1>3, <3>2
    <2> QED
      BY <2>1, <2>2, <2>3
  <1>8. Len(v) = Len(w) /\ \A i \in 1 .. Len(v) : v[i] = w[i]
    BY <1>5, <1>6, <1>7
  <1> QED
    BY <1>4, <1>5, <1>6, <1>8, SeqEqual

\* The client sends its next request.
LEMMA SendFrame ==
  ASSUME FInv, AllOrderly, Send
  PROVE  Frame' /\ AnsweredAsSent'
PROOF
  <1>15. PICK k \in Nat : k = Len(answers)
    BY StateTypes DEF FInv
  <1>16. PICK r, h, b : r = script[sent + 1] /\ h = r.head /\ b = r.body
    OBVIOUS
  <1>1. k = Len(answers) /\ r = script[sent + 1] /\ h = r.head /\ b = r.body
    BY <1>15, <1>16
  <1>2. /\ sent < Len(script) /\ sent' = sent + 1 /\ unread' = unread \o h \o b
        /\ r.waits => k = sent
        /\ UNCHANGED <<script, mem, buf_len, pc, heap, request, answers>>
    BY <1>1 DEF Send, client, buffer, handling
  <1>3. AnsweredAsSent'
    <2>1. IInv /\ sent \in Nat /\ AnsweredAsSent /\ Len(answers) \in Nat
      BY StateTypes DEF FInv
    <2>2. \A i \in 1 .. Len(answers) : i <= sent => i <= sent + 1
      BY <2>1
    <2> QED
      BY <1>2, <2>1, <2>2 DEF AnsweredAsSent, Deserved
  <1>4. SUFFICES ASSUME pc \notin {"done", "closed"}
                 PROVE  Split' /\ Behind' /\ TagsFirst' /\ Stale' /\ AtHand'
    BY <1>2, <1>3 DEF Frame
  <1>5. IInv /\ AnsweredAsSent /\ Split /\ Behind /\ TagsFirst /\ Stale /\ AtHand
    BY <1>4 DEF FInv, Frame
  <1>6. /\ script \in Script /\ Len(script) \in Nat /\ sent \in Nat /\ sent + 1 <= Len(script)
        /\ k <= sent /\ sent + 1 \in 1 .. Len(script)
    BY <1>1, <1>2, <1>5, StateTypes DEF Split
  <1>7. /\ h \in Seq(Data) /\ b \in Seq(Data) /\ WellFormed(r) /\ Polite(r)
        /\ Len(h) \in Nat /\ Len(b) \in Nat
    BY <1>1, <1>5, <1>6, StateTypes, ScriptParts DEF AllOrderly, Orderly
  <1>8. PICK F \in Seq(Data) : F = Fed /\ F = Held \o unread /\ Held \in Seq(Data) /\ unread \in Seq(Data)
    BY <1>5, HeldType, StateTypes
  <1>9. PICK G : G = Fed' /\ G = F \o h \o b
    <2>1. Held' = Held
      <3>1. BodyStart' = BodyStart
        BY <1>2, SameBuffer DEF buffer
      <3> QED
        BY <1>2, <3>1 DEF Held, Cells
    <2>2. Fed' = Held \o (unread \o h \o b)
      BY <1>2, <2>1 DEF Fed
    <2>3. PICK e \in Seq(Data), v \in Seq(Data), x \in Seq(Data), y \in Seq(Data) :
            e = Held /\ v = unread /\ x = h /\ y = b
      BY <1>7, <1>8
    <2>4. PICK c, d, f : c = e \o v /\ d = v \o x /\ f = c \o x
      OBVIOUS
    <2>5. f = e \o d /\ d \in Seq(Data)
      <3>1. e \o d = c \o x
        BY <2>3, <2>4, Associative
      <3> QED
        BY <2>3, <2>4, <3>1, Joined
    <2>6. PICK g : g = d \o y
      OBVIOUS
    <2>7. e \o g = f \o y
      BY <2>3, <2>5, <2>6, Associative
    <2>8. F = c
      BY <1>8, <2>3, <2>4
    <2> QED
      BY <1>8, <2>2, <2>3, <2>4, <2>6, <2>7, <2>8
  <1>10. Split'
    <2>1. Splits(script, F, k, sent)
      BY <1>1, <1>5, <1>8 DEF Split
    <2>2. Splits(script, G, k, sent + 1)
      BY <1>1, <1>6, <1>8, <1>9, <2>1, SplitMore
    <2>3. Split' <=> Len(answers') <= sent' /\ Splits(script', Fed', Len(answers'), sent')
      BY DEF Split, Splits, Placed, Size
    <2> QED
      BY <1>1, <1>2, <1>6, <1>9, <2>2, <2>3
  <1>11. Behind'
    <2> SUFFICES ASSUME NEW j \in k + 2 .. sent + 1 PROVE ~ script[j].waits
      BY <1>1, <1>2 DEF Behind
    <2>1. CASE j = sent + 1
      <3>1. ~ (k = sent)
        BY <1>6, <2>1
      <3> QED
        BY <1>1, <1>2, <2>1, <3>1
    <2>2. CASE j # sent + 1
      <3>1. j \in k + 2 .. sent
        BY <1>6, <2>2
      <3> QED
        BY <1>1, <1>5, <3>1 DEF Behind
    <2> QED
      BY <2>1, <2>2
  <1>12. Open' /\ Current' = Current
    BY <1>1, <1>2, <1>6 DEF Open, Current
  <1>13. CASE Open
    <2>1. k < sent /\ k # sent
      BY <1>1, <1>6, <1>13 DEF Open
    <2>2. ~ r.waits /\ \A j \in 1 .. Len(h) : h[j] # "tag"
      BY <1>1, <1>2, <1>7, <2>1 DEF Polite
    <2>3. TagsFirst'
      <3> SUFFICES ASSUME NEW i \in 1 .. Len(G), G[i] = "tag" PROVE i <= Len(Current.head)
        BY <1>9, <1>12 DEF TagsFirst
      <3>1. \A j \in 1 .. Len(b) : b[j] # "tag"
        BY <1>1, <1>7 DEF WellFormed
      <3>2. \/ i \in 1 .. Len(F) /\ G[i] = F[i]
            \/ \E j \in 1 .. Len(h) : i = Len(F) + j /\ G[i] = h[j]
            \/ \E j \in 1 .. Len(b) : G[i] = b[j]
        <4>1. G = F \o h \o b /\ F \in Seq(Data) /\ h \in Seq(Data) /\ b \in Seq(Data)
          BY <1>7, <1>8, <1>9
        <4> QED
          BY <4>1, CellOf
      <3>3. i \in 1 .. Len(F) /\ F[i] = "tag"
        BY <1>9, <2>2, <3>1, <3>2
      <3> QED
        BY <1>5, <1>8, <3>3 DEF TagsFirst
    <2>4. Stale'
      BY <1>2, <1>5, <1>12, <1>13 DEF Stale, Leftover
    <2>5. AtHand'
      <3>1. /\ GoodHead' = GoodHead /\ BodyStart' = BodyStart /\ ContentLength' = ContentLength
        BY <1>2, SameBuffer DEF buffer
      <3>2. TheHead' = TheHead
        BY <1>2, <3>1 DEF TheHead, Cells
      <3> QED
        BY <1>2, <1>5, <1>12, <3>1, <3>2 DEF AtHand
    <2> QED
      BY <1>10, <1>11, <2>3, <2>4, <2>5
  <1>14. CASE ~ Open
    <2>1. k = sent /\ Len(F) = 0 /\ heap = NoBody /\ buf_len = 0 /\ Current = r
      BY <1>1, <1>5, <1>8, <1>14, NothingHeld DEF Current
    <2>2. TagsFirst'
      <3> SUFFICES ASSUME NEW i \in 1 .. Len(G), G[i] = "tag" PROVE i <= Len(Current.head)
        BY <1>9, <1>12 DEF TagsFirst
      <3>1. \A j \in 1 .. Len(b) : b[j] # "tag"
        BY <1>1, <1>7 DEF WellFormed
      <3>2. \/ i \in 1 .. Len(F) /\ G[i] = F[i]
            \/ \E j \in 1 .. Len(h) : i = Len(F) + j /\ G[i] = h[j]
            \/ \E j \in 1 .. Len(b) : G[i] = b[j]
        <4>1. G = F \o h \o b /\ F \in Seq(Data) /\ h \in Seq(Data) /\ b \in Seq(Data)
          BY <1>7, <1>8, <1>9
        <4> QED
          BY <4>1, CellOf
      <3>3. PICK j \in 1 .. Len(h) : i = Len(F) + j
        BY <1>9, <2>1, <3>1, <3>2
      <3>4. i <= Len(h)
        BY <1>7, <2>1, <3>3
      <3> QED
        BY <1>1, <2>1, <3>4
    <2>3. Stale'
      BY <1>2, <1>5, <2>1 DEF Stale
    <2>4. AtHand'
      <3>1. ~ (buf_len > 0)
        BY <2>1
      <3>2. pc \notin {"process", "parse", "heap", "handle"}
        BY <1>5, <1>14, <3>1 DEF AtHand
      <3> QED
        BY <1>2, <3>2 DEF AtHand
    <2> QED
      BY <1>10, <1>11, <2>2, <2>3, <2>4
  <1> QED
    BY <1>13, <1>14

\* Cells move from the wire to the buffer or to the heap.
LEMMA SameFed ==
  ASSUME Fed' = Fed, UNCHANGED <<script, sent, answers>>
  PROVE  /\ Split' = Split /\ Behind' = Behind /\ TagsFirst' = TagsFirst
         /\ Open' = Open /\ Current' = Current /\ AnsweredAsSent' = AnsweredAsSent
PROOF
  <1>1. Current' = Current /\ Open' = Open
    BY DEF Current, Open
  <1>2. Split' = Split
    BY DEF Split, Splits
  <1>3. TagsFirst' = TagsFirst /\ Behind' = Behind
    BY <1>1 DEF TagsFirst, Behind
  <1>4. AnsweredAsSent' = AnsweredAsSent
    BY DEF AnsweredAsSent
  <1> QED
    BY <1>1, <1>2, <1>3, <1>4

\* The first l cells of a buffer, and behind them what is on the wire.
LEMMA Laid ==
  ASSUME NEW l \in Nat, NEW m, NEW u \in Seq(Data), \A q \in 0 .. l - 1 : m[q] \in Data,
         NEW F, F = [i \in 1 .. l |-> m[0 + i - 1]] \o u
  PROVE  /\ F \in Seq(Data) /\ Len(F) = l + Len(u)
         /\ \A i \in 1 .. l : F[i] = m[i - 1]
         /\ \A i \in 1 .. Len(u) : F[l + i] = u[i]
PROOF
  <1>1. PICK C : C = [i \in 1 .. l |-> m[0 + i - 1]]
    OBVIOUS
  <1>2. \A i \in 1 .. l : i - 1 \in 0 .. l - 1 /\ 0 + i - 1 = i - 1
    OBVIOUS
  <1>3. C = [i \in 1 .. l |-> m[i - 1]]
    BY <1>1, <1>2
  <1>4. C \in Seq(Data) /\ Len(C) = l /\ \A i \in 1 .. l : C[i] = m[i - 1]
    BY <1>2, <1>3
  <1>5. F = C \o u
    BY <1>1
  <1>6. /\ C \o u \in Seq(Data) /\ Len(C \o u) = Len(C) + Len(u)
        /\ \A i \in 1 .. Len(C) : (C \o u)[i] = C[i]
        /\ \A i \in 1 .. Len(u) : (C \o u)[Len(C) + i] = u[i]
    <2>1. C \in Seq(Data) /\ u \in Seq(Data)
      BY <1>4
    <2> QED
      BY <2>1, Joined
  <1> QED
    BY <1>4, <1>5, <1>6

\* A read moves cells from the wire to the buffer and puts a NUL behind them.
LEMMA ReadFrame ==
  ASSUME FInv, Read
  PROVE  Frame' /\ AnsweredAsSent'
PROOF
  <1>1. PICK n \in 1 .. Min({Cap - buf_len, Len(unread)}) :
          /\ mem' = [i \in 0 .. Cap |->
                       IF i \in buf_len .. buf_len + n - 1
                         THEN unread[i - buf_len + 1]
                         ELSE IF i = buf_len + n THEN "NUL" ELSE mem[i]]
          /\ buf_len' = buf_len + n
          /\ unread' = SubSeq(unread, n + 1, Len(unread))
    BY DEF Read
  <1>2. /\ pc = "read" /\ pc' = "process"
        /\ UNCHANGED <<script, sent, heap, answers>>
    BY DEF Read, client
  <1>3. IInv /\ AnsweredAsSent /\ Split /\ Behind /\ TagsFirst /\ Stale
    BY <1>2 DEF FInv, Frame
  <1>4. heap = NoBody
    BY <1>2, <1>3 DEF IInv, ArenaPaired
  <1>5. PICK l \in Nat, c \in Nat \ {0} :
          /\ l = buf_len /\ c = Cap /\ l <= c /\ unread \in Seq(Data) /\ Len(unread) \in Nat
          /\ \A q \in 0 .. l - 1 : mem[q] \in Data
    BY <1>3, StateTypes
  <1>6. n \in Nat \ {0} /\ n <= c - l /\ n <= Len(unread) /\ l + n \in 0 .. c
    <2> DEFINE m == Min({Cap - buf_len, Len(unread)})
    <2>1. m \in Int /\ m <= Cap - buf_len /\ m <= Len(unread)
      <3>1. Cap - buf_len \in Int /\ Len(unread) \in Int
        BY <1>5
      <3> QED
        BY <3>1, MinOfTwo
    <2>2. n \in 1 .. m
      BY <1>1
    <2> HIDE DEF m
    <2> QED
      BY <1>5, <2>1, <2>2
  <1>7. /\ \A q \in 0 .. l - 1 : mem'[q] = mem[q]
        /\ \A j \in 1 .. n : mem'[l + j - 1] = unread[j]
        /\ mem'[l + n] = "NUL"
        /\ \A q \in l + n + 1 .. c : mem'[q] = mem[q]
    <2>1. ASSUME NEW q \in 0 .. l - 1 PROVE mem'[q] = mem[q]
      <3>1. q \in 0 .. c /\ ~ (q \in l .. l + n - 1) /\ q # l + n
        BY <1>5, <1>6
      <3> QED
        BY <1>1, <1>5, <3>1
    <2>2. ASSUME NEW j \in 1 .. n PROVE mem'[l + j - 1] = unread[j]
      <3>1. l + j - 1 \in 0 .. c /\ l + j - 1 \in l .. l + n - 1 /\ l + j - 1 - l + 1 = j
        BY <1>5, <1>6
      <3> QED
        BY <1>1, <1>5, <3>1
    <2>3. mem'[l + n] = "NUL"
      <3>1. l + n \in 0 .. c /\ ~ (l + n \in l .. l + n - 1)
        BY <1>5, <1>6
      <3> QED
        BY <1>1, <1>5, <3>1
    <2>4. ASSUME NEW q \in l + n + 1 .. c PROVE mem'[q] = mem[q]
      <3>1. q \in 0 .. c /\ ~ (q \in l .. l + n - 1) /\ q # l + n
        BY <1>5, <1>6
      <3> QED
        BY <1>1, <1>5, <3>1
    <2> QED
      BY <2>1, <2>2, <2>3, <2>4
  <1>8. PICK u \in Seq(Data) :
          /\ u = unread' /\ Len(u) = Len(unread) - n
          /\ \A i \in 1 .. Len(u) : u[i] = unread[n + i]
    <2>1. \A i \in n + 1 .. Len(unread) : unread[i] \in Data
      BY <1>5, <1>6, ElementOfSeq
    <2>2. PICK u : u = SubSeq(unread, n + 1, Len(unread))
      OBVIOUS
    <2>3. /\ u \in Seq(Data)
          /\ Len(u) = (IF n + 1 <= Len(unread) THEN Len(unread) - (n + 1) + 1 ELSE 0)
          /\ \A i \in 1 .. Len(unread) - (n + 1) + 1 : u[i] = unread[n + 1 + i - 1]
      BY <1>5, <1>6, <2>1, <2>2, SubSeqProperties
    <2>4. Len(u) = Len(unread) - n
      BY <1>5, <1>6, <2>3
    <2>5. ASSUME NEW i \in 1 .. Len(u) PROVE u[i] = unread[n + i]
      <3>1. i \in 1 .. Len(unread) - (n + 1) + 1 /\ n + 1 + i - 1 = n + i
        BY <1>5, <1>6, <2>4
      <3> QED
        BY <2>3, <3>1
    <2> QED
      BY <1>1, <2>2, <2>3, <2>4, <2>5
  <1>9. Fed' = Fed
    <2>1. PICK F : F = Fed
      OBVIOUS
    <2>2. /\ F \in Seq(Data) /\ Len(F) = l + Len(unread)
          /\ \A i \in 1 .. l : F[i] = mem[i - 1]
          /\ \A i \in 1 .. Len(unread) : F[l + i] = unread[i]
      BY <1>3, <1>4, <1>5, <2>1, FedBuffer
    <2>3. PICK m, G : m = mem' /\ G = Fed'
      OBVIOUS
    <2>4. G = [i \in 1 .. l + n |-> m[0 + i - 1]] \o u
      <3>1. heap' = NoBody
        BY <1>2, <1>4
      <3>2. Fed' = (IF heap' = NoBody THEN Cells(0, buf_len)' ELSE (Cells(0, BodyStart) \o heap)') \o unread'
        BY DEF Fed, Held, NoBody
      <3>3. Cells(0, buf_len)' = [i \in 1 .. buf_len' |-> mem'[0 + i - 1]]
        BY DEF Cells
      <3>4. buf_len' = l + n
        BY <1>1, <1>5
      <3>5. G = [i \in 1 .. buf_len' |-> mem'[0 + i - 1]] \o unread'
        BY <2>3, <3>1, <3>2, <3>3
      <3> QED
        BY <1>8, <2>3, <3>4, <3>5
    <2>5. \A q \in 0 .. l + n - 1 : m[q] \in Data
      <3> SUFFICES ASSUME NEW q \in 0 .. l + n - 1 PROVE m[q] \in Data
        OBVIOUS
      <3>1. CASE q \in 0 .. l - 1
        BY <1>5, <1>7, <2>3, <3>1
      <3>2. CASE q \in l .. l + n - 1
        <4>1. PICK j \in 1 .. n : q = l + j - 1 /\ j \in 1 .. Len(unread)
          <5>1. q - l + 1 \in 1 .. n /\ q = l + (q - l + 1) - 1 /\ q - l + 1 \in 1 .. Len(unread)
            BY <1>5, <1>6, <3>2
          <5> QED
            BY <5>1
        <4>2. unread[j] \in Data
          BY <1>5, <4>1, ElementOfSeq
        <4> QED
          BY <1>7, <2>3, <4>1, <4>2
      <3> QED
        BY <3>1, <3>2
    <2>6. /\ G \in Seq(Data) /\ Len(G) = l + n + Len(u)
          /\ \A i \in 1 .. l + n : G[i] = m[i - 1]
          /\ \A i \in 1 .. Len(u) : G[l + n + i] = u[i]
      <3>1. PICK d \in Nat : d = l + n
        BY <1>6
      <3>2. G = [i \in 1 .. d |-> m[0 + i - 1]] \o u
        BY <2>4, <3>1
      <3>3. \A q \in 0 .. d - 1 : m[q] \in Data
        BY <2>5, <3>1
      <3>4. /\ G \in Seq(Data) /\ Len(G) = d + Len(u)
            /\ \A i \in 1 .. d : G[i] = m[i - 1]
            /\ \A i \in 1 .. Len(u) : G[d + i] = u[i]
        BY <3>2, <3>3, Laid
      <3> QED
        BY <3>1, <3>4
    <2>7. PICK e \in Nat : e = Len(unread) /\ n <= e /\ Len(F) = l + e /\ Len(G) = l + n + (e - n) /\ Len(u) = e - n
      BY <1>5, <1>6, <1>8, <2>2, <2>6
    <2>8. ASSUME NEW i \in 1 .. l + e PROVE G[i] = F[i]
      <3>1. CASE i \in 1 .. l
        <4>1. i \in 1 .. l + n /\ i - 1 \in 0 .. l - 1
          BY <1>6, <3>1
        <4> QED
          BY <1>7, <2>2, <2>3, <2>6, <3>1, <4>1
      <3>2. CASE i \in l + 1 .. l + n
        <4>1. PICK j \in 1 .. n : i = l + j /\ i - 1 = l + j - 1 /\ j \in 1 .. e
          <5>1. i - l \in 1 .. n /\ i = l + (i - l) /\ i - 1 = l + (i - l) - 1 /\ i - l \in 1 .. e
            BY <1>6, <2>7, <3>2
          <5> QED
            BY <5>1
        <4>2. i \in 1 .. l + n
          BY <1>6, <3>2
        <4>3. G[i] = m[l + j - 1] /\ m[l + j - 1] = unread[j] /\ F[i] = unread[j]
          BY <1>7, <2>2, <2>3, <2>6, <2>7, <4>1, <4>2
        <4> QED
          BY <4>3
      <3>3. CASE i \in l + n + 1 .. l + e
        <4>1. PICK j \in 1 .. e - n : i = l + n + j /\ i = l + (n + j) /\ n + j \in 1 .. e
          <5>1. i - (l + n) \in 1 .. e - n
            BY <1>6, <2>7, <3>3
          <5>2. PICK j \in 1 .. e - n : j = i - (l + n)
            BY <5>1
          <5>3. i = l + n + j /\ i = l + (n + j) /\ n + j \in 1 .. e
            BY <1>6, <2>7, <5>2
          <5> QED
            BY <5>3
        <4>2. G[i] = u[j] /\ u[j] = unread[n + j] /\ F[i] = unread[n + j]
          BY <1>8, <2>2, <2>6, <2>7, <4>1
        <4> QED
          BY <4>2
      <3> QED
        BY <1>6, <2>7, <3>1, <3>2, <3>3
    <2>9. Len(G) = Len(F) /\ \A i \in 1 .. Len(G) : G[i] = F[i]
      <3>1. l + n + (e - n) = l + e
        BY <1>6, <2>7
      <3>2. Len(G) = l + e /\ Len(F) = l + e
        BY <2>7, <3>1
      <3> QED
        BY <2>8, <3>2
    <2> QED
      BY <2>1, <2>2, <2>3, <2>6, <2>9, SeqEqual
  <1>10. /\ Split' = Split /\ Behind' = Behind /\ TagsFirst' = TagsFirst
         /\ Open' = Open /\ Current' = Current /\ AnsweredAsSent' = AnsweredAsSent
    BY <1>2, <1>9, SameFed
  <1>11. Stale'
    <2>1. /\ buf_len' = l + n /\ mem'[buf_len'] = "NUL" /\ l + n \in Nat
      BY <1>1, <1>5, <1>6, <1>7
    <2>2. ASSUME NEW t \in buf_len' .. Cap PROVE ~ (\A q \in 0 .. t : mem'[q] # "NUL")
      <3>1. buf_len' \in 0 .. t
        BY <2>1
      <3> QED
        BY <2>1, <3>1
    <2>3. mem'[Cap] = "NUL"
      <3>1. c = l + n \/ c \in l + n + 1 .. c
        BY <1>5, <1>6
      <3> QED
        BY <1>3, <1>5, <1>7, <3>1 DEF Stale
    <2> QED
      BY <2>1, <2>2, <2>3 DEF Stale
  <1>12. AtHand'
    <2>1. buf_len' > 0
      BY <1>1, <1>5, <1>6
    <2> QED
      BY <1>2, <2>1 DEF AtHand
  <1> QED
    BY <1>3, <1>10, <1>11, <1>12 DEF Frame

\* A sequence cut in two.
LEMMA Cut ==
  ASSUME NEW u \in Seq(Data), NEW n \in Nat, n <= Len(u),
         NEW x, x = SubSeq(u, 1, n), NEW y, y = SubSeq(u, n + 1, Len(u))
  PROVE  x \in Seq(Data) /\ y \in Seq(Data) /\ u = x \o y
PROOF
  <1>1. PICK l \in Nat : l = Len(u) /\ n <= l
    OBVIOUS
  <1>2. \A i \in 1 .. l : u[i] \in Data
    BY <1>1, ElementOfSeq
  <1>3. /\ x \in Seq(Data) /\ Len(x) = (IF 1 <= n THEN n - 1 + 1 ELSE 0)
        /\ \A i \in 1 .. n - 1 + 1 : x[i] = u[1 + i - 1]
    <2>1. \A i \in 1 .. n : u[i] \in Data
      BY <1>1, <1>2
    <2> QED
      BY <2>1, SubSeqProperties
  <1>4. /\ y \in Seq(Data) /\ Len(y) = (IF n + 1 <= l THEN l - (n + 1) + 1 ELSE 0)
        /\ \A i \in 1 .. l - (n + 1) + 1 : y[i] = u[n + 1 + i - 1]
    <2>1. \A i \in n + 1 .. l : u[i] \in Data
      BY <1>1, <1>2
    <2> QED
      BY <1>1, <2>1, SubSeqProperties
  <1>5. Len(x) = n /\ Len(y) = l - n
    BY <1>1, <1>3, <1>4
  <1>6. \A i \in 1 .. n : x[i] = u[i]
    <2> SUFFICES ASSUME NEW i \in 1 .. n PROVE x[i] = u[i]
      OBVIOUS
    <2>1. i \in 1 .. n - 1 + 1 /\ 1 + i - 1 = i
      OBVIOUS
    <2> QED
      BY <1>3, <2>1
  <1>7. \A i \in 1 .. l - n : y[i] = u[n + i]
    <2> SUFFICES ASSUME NEW i \in 1 .. l - n PROVE y[i] = u[n + i]
      OBVIOUS
    <2>1. i \in 1 .. l - (n + 1) + 1 /\ n + 1 + i - 1 = n + i
      BY <1>1
    <2> QED
      BY <1>4, <2>1
  <1>8. PICK a \in Seq(Data), b \in Seq(Data) : a = x /\ b = y
    BY <1>3, <1>4
  <1>9. PICK w : w = a \o b
    OBVIOUS
  <1>10. /\ w \in Seq(Data) /\ Len(w) = Len(a) + Len(b)
         /\ \A i \in 1 .. Len(a) : w[i] = a[i]
         /\ \A i \in 1 .. Len(b) : w[Len(a) + i] = b[i]
    BY <1>9, Joined
  <1>11. /\ Len(a) = n /\ Len(b) = l - n
         /\ \A i \in 1 .. n : a[i] = u[i]
         /\ \A i \in 1 .. l - n : b[i] = u[n + i]
    BY <1>5, <1>6, <1>7, <1>8
  <1>12. u = w
    <2>1. ASSUME NEW i \in 1 .. l PROVE u[i] = w[i]
      <3>1. CASE i \in 1 .. n
        BY <1>10, <1>11, <3>1
      <3>2. CASE i \in n + 1 .. l
        <4>1. PICK j \in 1 .. l - n : i = n + j
          <5>1. i - n \in 1 .. l - n /\ i = n + (i - n)
            BY <1>1, <3>2
          <5> QED
            BY <5>1
        <4> QED
          BY <1>10, <1>11, <4>1
      <3> QED
        BY <1>1, <3>1, <3>2
    <2>2. n + (l - n) = l
      BY <1>1
    <2>3. Len(w) = l
      BY <1>10, <1>11, <2>2
    <2>4. Len(u) = Len(w) /\ \A i \in 1 .. Len(u) : u[i] = w[i]
      BY <1>1, <2>1, <2>3
    <2> QED
      BY <1>10, <2>4, SeqEqual
  <1> QED
    BY <1>3, <1>4, <1>8, <1>9, <1>12

\* The part of a long body that is in the buffer moves to the heap.
LEMMA HeapBodyFrame ==
  ASSUME FInv, AllOrderly, HeapBody
  PROVE  Frame' /\ AnsweredAsSent'
PROOF
  <1>1. /\ pc = "parse" /\ pc' = "heap" /\ GoodHead /\ HasHead
        /\ BodyAvailable < ContentLength /\ BodyStart + ContentLength > Cap
        /\ heap' = Cells(BodyStart, Max({BodyAvailable, 0}))
        /\ UNCHANGED <<script, sent, unread, mem, buf_len, answers>> /\ UNCHANGED buffer
    BY DEF HeapBody, client, buffer, GoodHead
  <1>2. IInv /\ AnsweredAsSent /\ Split /\ Behind /\ TagsFirst /\ Stale /\ Frame
    BY <1>1 DEF FInv, Frame
  <1>3. /\ Open /\ heap = NoBody
        /\ \/ /\ Len(Current.head) <= buf_len
              /\ BodyStart = Len(Current.head) /\ TheHead = Current.head
           \/ BodyStart + ContentLength <= Cap
    BY <1>1, <1>2, Parsed
  <1>4. Len(Current.head) <= buf_len /\ BodyStart = Len(Current.head) /\ TheHead = Current.head
    <2>1. ~ (BodyStart + ContentLength <= Cap)
      <3>1. BodyStart \in Nat /\ ContentLength \in Nat /\ Cap \in Nat
        BY <1>1, <1>2, HeadInBuffer, StateTypes DEF GoodHead
      <3> QED
        BY <1>1, <3>1
    <2> QED
      BY <1>3, <2>1
  <1>5. PICK s \in Nat, l \in Nat : s = BodyStart /\ l = buf_len /\ s <= l /\ l - s \in Nat
    <2>1. BodyStart \in Nat /\ buf_len \in Nat
      BY <1>1, <1>2, HeadInBuffer, StateTypes
    <2>2. buf_len - BodyStart \in Nat
      BY <1>4, <2>1
    <2> QED
      BY <1>4, <2>1, <2>2
  <1>6. heap' = Cells(s, l - s)
    <2>1. BodyAvailable = l - s
      BY <1>5 DEF BodyAvailable
    <2>2. PICK a \in Nat : a = BodyAvailable /\ a = l - s
      BY <1>5, <2>1
    <2>3. Max({a, 0}) = a
      <3>1. a \in Int /\ 0 \in Int
        OBVIOUS
      <3>2. Max({a, 0}) \in {a, 0} /\ Max({a, 0}) >= a
        BY <3>1, MaxOfTwo
      <3>3. \A x \in {a, 0} : x >= a => x = a
        OBVIOUS
      <3> QED
        BY <3>2, <3>3
    <2> QED
      BY <1>1, <1>5, <2>2, <2>3
  <1>7. \A q \in 0 .. l - 1 : mem[q] \in Data
    BY <1>2, <1>5, StateTypes
  <1>8. PICK h, b, c : /\ h = [i \in 1 .. s |-> mem[0 + i - 1]]
                       /\ b = [i \in 1 .. l - s |-> mem[s + i - 1]]
                       /\ c = [i \in 1 .. l |-> mem[0 + i - 1]]
    OBVIOUS
  <1>9. /\ h \in Seq(Data) /\ Len(h) = s /\ \A i \in 1 .. s : h[i] = mem[i - 1]
        /\ b \in Seq(Data) /\ Len(b) = l - s /\ \A i \in 1 .. l - s : b[i] = mem[s + i - 1]
        /\ c \in Seq(Data) /\ Len(c) = l /\ \A i \in 1 .. l : c[i] = mem[i - 1]
    <2>1. /\ \A i \in 1 .. s : 0 + i - 1 \in 0 .. l - 1 /\ 0 + i - 1 = i - 1
          /\ \A i \in 1 .. l - s : s + i - 1 \in 0 .. l - 1
          /\ \A i \in 1 .. l : 0 + i - 1 \in 0 .. l - 1 /\ 0 + i - 1 = i - 1
      BY <1>5
    <2>2. h \in Seq(Data) /\ Len(h) = s /\ \A i \in 1 .. s : h[i] = mem[i - 1]
      BY <1>7, <1>8, <2>1
    <2>3. b \in Seq(Data) /\ Len(b) = l - s /\ \A i \in 1 .. l - s : b[i] = mem[s + i - 1]
      BY <1>5, <1>7, <1>8, <2>1
    <2>4. c \in Seq(Data) /\ Len(c) = l /\ \A i \in 1 .. l : c[i] = mem[i - 1]
      BY <1>7, <1>8, <2>1
    <2> QED
      BY <2>2, <2>3, <2>4
  <1>10. h \o b = c
    <2>1. PICK w : w = h \o b
      OBVIOUS
    <2>2. /\ w \in Seq(Data) /\ Len(w) = s + (l - s)
          /\ \A i \in 1 .. s : w[i] = h[i]
          /\ \A i \in 1 .. l - s : w[s + i] = b[i]
      <3>1. h \in Seq(Data) /\ b \in Seq(Data)
        BY <1>9
      <3>2. /\ h \o b \in Seq(Data) /\ Len(h \o b) = Len(h) + Len(b)
            /\ \A i \in 1 .. Len(h) : (h \o b)[i] = h[i]
            /\ \A i \in 1 .. Len(b) : (h \o b)[Len(h) + i] = b[i]
        BY <3>1, Joined
      <3> QED
        BY <1>9, <2>1, <3>2
    <2>3. s + (l - s) = l
      BY <1>5
    <2>4. ASSUME NEW i \in 1 .. l PROVE w[i] = c[i]
      <3>1. CASE i \in 1 .. s
        BY <1>9, <2>2, <3>1
      <3>2. CASE i \in s + 1 .. l
        <4>1. PICK j \in 1 .. l - s : i = s + j /\ s + j - 1 = i - 1
          <5>1. i - s \in 1 .. l - s /\ i = s + (i - s) /\ s + (i - s) - 1 = i - 1
            BY <1>5, <3>2
          <5> QED
            BY <5>1
        <4>2. w[i] = b[j] /\ b[j] = mem[s + j - 1] /\ c[i] = mem[i - 1]
          BY <1>9, <2>2, <4>1
        <4> QED
          BY <4>1, <4>2
      <3> QED
        BY <1>5, <3>1, <3>2
    <2>5. Len(w) = Len(c) /\ \A i \in 1 .. Len(w) : w[i] = c[i]
      BY <1>9, <2>2, <2>3, <2>4
    <2> QED
      BY <1>9, <2>1, <2>2, <2>5, SeqEqual
  <1>11. BodyStart' = BodyStart /\ GoodHead' = GoodHead /\ ContentLength' = ContentLength /\ TheHead' = TheHead
    <2>1. BodyStart' = BodyStart /\ GoodHead' = GoodHead /\ ContentLength' = ContentLength
      BY <1>1, SameBuffer
    <2> QED
      BY <1>1, <2>1 DEF TheHead, Cells
  <1>12. Fed' = Fed
    <2>1. heap' = b /\ heap' # NoBody
      BY <1>6, <1>8, <1>9, DataIsNoMark DEF Cells
    <2>2. Held' = h \o b
      <3>1. Held' = Cells(0, BodyStart)' \o heap'
        BY <2>1 DEF Held, NoBody
      <3>2. Cells(0, BodyStart)' = [i \in 1 .. BodyStart' |-> mem'[0 + i - 1]]
        BY DEF Cells
      <3>3. Cells(0, BodyStart)' = h
        BY <1>1, <1>5, <1>8, <1>11, <3>2
      <3> QED
        BY <2>1, <3>1, <3>3
    <2>3. Held = c
      BY <1>3, <1>5, <1>8 DEF Held, Cells
    <2>4. Held' = Held
      BY <1>10, <2>2, <2>3
    <2> QED
      BY <1>1, <2>4 DEF Fed
  <1>13. /\ Split' = Split /\ Behind' = Behind /\ TagsFirst' = TagsFirst
         /\ Open' = Open /\ Current' = Current /\ AnsweredAsSent' = AnsweredAsSent
    BY <1>1, <1>12, SameFed
  <1>14. Stale'
    BY <1>1, <1>2, <1>13 DEF Stale, Leftover
  <1>15. AtHand'
    BY <1>1, <1>3, <1>4, <1>11, <1>13 DEF AtHand
  <1> QED
    BY <1>2, <1>13, <1>14, <1>15 DEF Frame

\* Four sequences joined in two orders.
SameJoined(g, e, x, y) == (g \o (e \o x)) \o y = (g \o e) \o (x \o y)

LEMMA Regrouped ==
  ASSUME NEW g \in Seq(Data), NEW e \in Seq(Data), NEW x \in Seq(Data), NEW y \in Seq(Data)
  PROVE  SameJoined(g, e, x, y)
PROOF
  <1>1. PICK p, q : p = e \o x /\ q = g \o e
    OBVIOUS
  <1>2. g \o p = q \o x
    BY <1>1, Associative
  <1>3. q \in Seq(Data)
    BY <1>1, Joined
  <1>4. PICK r, w : r = q \o x /\ w = x \o y
    OBVIOUS
  <1>5. q \o w = r \o y
    BY <1>3, <1>4, Associative
  <1>6. (g \o (e \o x)) \o y = (g \o e) \o (x \o y)
    BY <1>1, <1>2, <1>4, <1>5, Zenon
  <1> QED
    BY <1>6 DEF SameJoined

\* The rest of it is read behind.
LEMMA HeapReadFrame ==
  ASSUME FInv, AllOrderly, HeapRead
  PROVE  Frame' /\ AnsweredAsSent'
PROOF
  <1>1. PICK n \in 1 .. Min({ContentLength - Len(heap), Len(unread)}) :
          /\ heap' = heap \o SubSeq(unread, 1, n)
          /\ unread' = SubSeq(unread, n + 1, Len(unread))
    BY DEF HeapRead
  <1>2. /\ pc = "heap" /\ pc' = "heap"
        /\ UNCHANGED <<script, sent, mem, buf_len, answers>> /\ UNCHANGED buffer
    BY DEF HeapRead, client, buffer
  <1>3. IInv /\ AnsweredAsSent /\ Split /\ Behind /\ TagsFirst /\ Stale /\ AtHand
    BY <1>2 DEF FInv, Frame
  <1>4. /\ Open /\ GoodHead /\ TheHead = Current.head /\ BodyStart = Len(Current.head)
    BY <1>2, <1>3 DEF AtHand
  <1>5. heap # NoBody /\ heap \in Seq(Data)
    BY <1>2, <1>3 DEF IInv, Measured, Clean
  <1>6. TheHead \in Seq(Data) /\ unread \in Seq(Data) /\ Len(unread) \in Nat /\ Len(heap) \in Nat
    BY <1>3, <1>4, <1>5, CurrentHead, StateTypes
  <1>7. n \in Nat \ {0} /\ n <= Len(unread)
    <2> DEFINE m == Min({ContentLength - Len(heap), Len(unread)})
    <2>1. m \in Int /\ m <= Len(unread)
      <3>1. ContentLength \in Nat
        BY <1>3, <1>4, StateTypes DEF GoodHead
      <3>2. ContentLength - Len(heap) \in Int /\ Len(unread) \in Int
        BY <1>6, <3>1
      <3> QED
        BY <3>2, MinOfTwo
    <2>2. n \in 1 .. m
      BY <1>1
    <2> HIDE DEF m
    <2> QED
      BY <1>6, <2>1, <2>2
  <1>8. PICK x, y : x = SubSeq(unread, 1, n) /\ y = SubSeq(unread, n + 1, Len(unread))
    OBVIOUS
  <1>9. x \in Seq(Data) /\ y \in Seq(Data) /\ unread = x \o y
    BY <1>6, <1>7, <1>8, Cut
  <1>10. PICK g \in Seq(Data), e \in Seq(Data) : g = TheHead /\ e = heap
    BY <1>5, <1>6
  <1>11. PICK a \in Seq(Data), b \in Seq(Data) : a = x /\ b = y
    BY <1>9
  <1>12. SameJoined(g, e, a, b)
    <2>1. g \in Seq(Data) /\ e \in Seq(Data) /\ a \in Seq(Data) /\ b \in Seq(Data)
      BY <1>10, <1>11
    <2> QED
      BY <2>1, Regrouped
  <1>13. e \o a \in Seq(Data)
    BY Joined
  <1>16. BodyStart' = BodyStart /\ GoodHead' = GoodHead /\ ContentLength' = ContentLength /\ TheHead' = TheHead
    <2>1. BodyStart' = BodyStart /\ GoodHead' = GoodHead /\ ContentLength' = ContentLength
      BY <1>2, SameBuffer
    <2> QED
      BY <1>2, <2>1 DEF TheHead, Cells
  <1>17. Fed' = Fed
    <2>1. heap' = e \o a /\ heap' # NoBody
      BY <1>1, <1>8, <1>10, <1>11, <1>13, DataIsNoMark
    <2>2. Held' = TheHead' \o heap'
      BY <2>1 DEF Held, TheHead, NoBody
    <2>3. Held = g \o e
      BY <1>5, <1>10 DEF Held, TheHead
    <2>4. Held' = g \o (e \o a)
      BY <1>10, <1>16, <2>1, <2>2
    <2>5. Fed' = (g \o (e \o a)) \o b
      BY <1>1, <1>8, <1>11, <2>4 DEF Fed
    <2>6. Fed = (g \o e) \o (a \o b)
      BY <1>9, <1>11, <2>3 DEF Fed
    <2> QED
      BY <1>12, <2>5, <2>6 DEF SameJoined
  <1>18. /\ Split' = Split /\ Behind' = Behind /\ TagsFirst' = TagsFirst
         /\ Open' = Open /\ Current' = Current /\ AnsweredAsSent' = AnsweredAsSent
    BY <1>2, <1>17, SameFed
  <1>19. Stale'
    BY <1>2, <1>3, <1>18 DEF Stale, Leftover
  <1>20. AtHand'
    BY <1>2, <1>4, <1>16, <1>18 DEF AtHand
  <1> QED
    BY <1>3, <1>18, <1>19, <1>20 DEF Frame

\* What a worker that is about to respond has in hand.
LEMMA InHandler ==
  ASSUME FInv, AllOrderly, pc = "handle"
  PROVE  /\ IInv /\ AnsweredAsSent /\ Split /\ Behind /\ TagsFirst /\ Stale /\ AtHand
         /\ Open /\ TheHead = Current.head /\ BodyStart = Len(Current.head)
         /\ request = [head |-> Current.head, body |-> Current.body]
         /\ BodyStart \in 1 .. Cap /\ ContentLength \in 0 .. MaxBody /\ ContentLength \in Nat
         /\ Size(Current) = BodyStart + ContentLength
         /\ Deserved(Current) = 200
         /\ heap = NoBody => BodyStart + ContentLength <= buf_len
         /\ heap # NoBody => heap \in Seq(Data) /\ Len(heap) = ContentLength
PROOF
  <1>1. IInv /\ AnsweredAsSent /\ Split /\ Behind /\ TagsFirst /\ Stale /\ AtHand
    BY DEF FInv, Frame
  <1>2. /\ Open /\ GoodHead /\ TheHead = Current.head /\ BodyStart = Len(Current.head)
        /\ request = [head |-> Current.head, body |-> Current.body]
        /\ heap # NoBody => Len(heap) = ContentLength
    BY <1>1 DEF AtHand
  <1>3. PICK e \in Ends : TRUE
    BY <1>2 DEF GoodHead, HasHead
  <1>4. BodyStart = e + 1 /\ mem[e] = "end" /\ e \in 0 .. Cap
    BY <1>1, OneEnd
  <1>5. mem[Cap] = "NUL" /\ Cap \in Nat /\ buf_len \in Nat /\ MaxBody \in Nat
    BY <1>1, StateTypes DEF Stale
  <1>6. e # Cap
    BY <1>4, <1>5
  <1>7. BodyStart \in 1 .. Cap
    BY <1>4, <1>5, <1>6
  <1>8. ContentLength \in 0 .. MaxBody /\ ContentLength \in Nat /\ mem[0] = "line"
    BY <1>2, <1>5 DEF GoodHead
  <1>9. Current.head[1] = "line"
    <2>1. 1 \in 1 .. BodyStart /\ 0 + 1 - 1 = 0
      BY <1>7
    <2>2. TheHead[1] = mem[0 + 1 - 1]
      BY <2>1 DEF TheHead, Cells
    <2> QED
      BY <1>2, <1>8, <2>1, <2>2
  <1>10. Size(Current) = BodyStart + ContentLength /\ Deserved(Current) = 200
    <2>1. Len(Current.head) <= Cap
      BY <1>2, <1>5, <1>7
    <2> QED
      BY <1>1, <1>2, <1>9, <2>1, BodyLength
  <1>11. heap = NoBody => BodyStart + ContentLength <= buf_len
    <2> SUFFICES ASSUME heap = NoBody PROVE BodyStart + ContentLength <= buf_len
      OBVIOUS
    <2>1. buf_len - BodyStart >= ContentLength
      BY <1>1 DEF IInv, Measured, BodyAvailable
    <2> QED
      BY <1>5, <1>7, <1>8, <2>1
  <1>12. heap # NoBody => heap \in Seq(Data)
    BY <1>1 DEF IInv, Clean
  <1> QED
    BY <1>1, <1>2, <1>7, <1>8, <1>10, <1>11, <1>12

\* The cells of the request at hand leave.
LEMMA ShiftedFed ==
  ASSUME FInv, AllOrderly, Respond
  PROVE  /\ Fed' \in Seq(Data) /\ Len(Fed') = Len(Fed) - Size(Current)
         /\ \A i \in 1 .. Len(Fed') : Fed'[i] = Fed[Size(Current) + i]
PROOF
  <1>1. /\ pc = "handle" /\ heap' = NoBody /\ unread' = unread
        /\ IF heap = NoBody THEN Consume(BodyStart + ContentLength)
                            ELSE buf_len' = 0 /\ mem' = mem
    BY DEF Respond
  <1>2. /\ IInv /\ AtHand /\ Open /\ TheHead = Current.head /\ BodyStart = Len(Current.head)
        /\ BodyStart \in 1 .. Cap /\ ContentLength \in Nat
        /\ Size(Current) = BodyStart + ContentLength
        /\ heap = NoBody => BodyStart + ContentLength <= buf_len
        /\ heap # NoBody => heap \in Seq(Data) /\ Len(heap) = ContentLength
    BY <1>1, InHandler
  <1>3. PICK n \in Nat \ {0} : n = BodyStart + ContentLength /\ n = Size(Current)
    <2>1. Cap \in Nat
      BY <1>2, StateTypes
    <2>2. BodyStart + ContentLength \in Nat \ {0}
      BY <1>2, <2>1
    <2> QED
      BY <1>2, <2>2
  <1>4. unread \in Seq(Data) /\ Len(unread) \in Nat /\ Cap \in Nat /\ buf_len \in 0 .. Cap
        /\ \A q \in 0 .. buf_len - 1 : mem[q] \in Data
    BY <1>2, StateTypes
  <1>5. PICK F, G, m : F = Fed /\ G = Fed' /\ m = mem'
    OBVIOUS
  <1>6. G = [i \in 1 .. buf_len' |-> m[0 + i - 1]] \o unread
    <2>1. Fed' = Held' \o unread'
      BY DEF Fed
    <2>2. Held' = Cells(0, buf_len)'
      BY <1>1 DEF Held, NoBody
    <2>3. Cells(0, buf_len)' = [i \in 1 .. buf_len' |-> mem'[0 + i - 1]]
      BY DEF Cells
    <2> QED
      BY <1>1, <1>5, <2>1, <2>2, <2>3
  <1>7. CASE heap = NoBody
    <2>1. PICK l \in Nat, r \in Nat : l = buf_len /\ r = l - n /\ r = buf_len' /\ l = r + n /\ l <= Cap
      <3>1. buf_len' = buf_len - n /\ buf_len - n \in Nat /\ buf_len \in Nat
        BY <1>1, <1>2, <1>3, <1>4, <1>7 DEF Consume
      <3>2. buf_len = buf_len - n + n /\ buf_len <= Cap
        BY <1>3, <1>4
      <3> QED
        BY <3>1, <3>2
    <2>9. n \in Nat \ {0} /\ r \in Nat /\ l \in Nat /\ l = r + n
      BY <1>3, <2>1
    <2>2. \A q \in 0 .. r - 1 : m[q] = mem[q + n] /\ q + n \in 0 .. l - 1
      <3> SUFFICES ASSUME NEW q \in 0 .. r - 1 PROVE m[q] = mem[q + n] /\ q + n \in 0 .. l - 1
        OBVIOUS
      <3>3. q \in 0 .. l /\ q < r /\ q + n \in 0 .. l - 1
        BY <2>9
      <3>1. q \in 0 .. Cap /\ q < buf_len - n /\ q + n \in 0 .. l - 1
        <4>1. l <= Cap /\ Cap \in Nat /\ r = buf_len - n
          BY <1>4, <2>1
        <4>2. \A c \in Nat : l <= c => q \in 0 .. c
          BY <2>9, <3>3
        <4> QED
          BY <3>3, <4>1, <4>2
      <3>2. mem' = [i \in 0 .. Cap |-> IF i < buf_len - n THEN mem[i + n] ELSE mem[i]]
        BY <1>1, <1>3, <1>7 DEF Consume
      <3> QED
        BY <1>5, <3>1, <3>2
    <2>3. \A q \in 0 .. r - 1 : m[q] \in Data
      BY <1>4, <2>1, <2>2
    <2>4. /\ G \in Seq(Data) /\ Len(G) = r + Len(unread)
          /\ \A i \in 1 .. r : G[i] = m[i - 1]
          /\ \A i \in 1 .. Len(unread) : G[r + i] = unread[i]
      <3>1. PICK v \in Seq(Data) : v = unread
        BY <1>4
      <3>2. PICK d \in Nat : d = r
        BY <2>9
      <3>3. G = [i \in 1 .. d |-> m[0 + i - 1]] \o v
        BY <1>6, <2>1, <3>1, <3>2
      <3>4. \A q \in 0 .. d - 1 : m[q] \in Data
        BY <2>3, <3>2
      <3>5. PICK C \in Seq(Data) :
              /\ C = [i \in 1 .. d |-> m[0 + i - 1]]
              /\ Len(C) = d /\ \A i \in 1 .. d : C[i] = m[i - 1]
        <4>1. \A i \in 1 .. d : 0 + i - 1 \in 0 .. d - 1 /\ 0 + i - 1 = i - 1
          OBVIOUS
        <4>2. PICK C : C = [i \in 1 .. d |-> m[0 + i - 1]]
          OBVIOUS
        <4>3. C \in Seq(Data) /\ Len(C) = d /\ \A i \in 1 .. d : C[i] = m[i - 1]
          BY <3>4, <4>1, <4>2
        <4> QED
          BY <4>2, <4>3
      <3>6. /\ C \o v \in Seq(Data) /\ Len(C \o v) = Len(C) + Len(v)
            /\ \A i \in 1 .. Len(C) : (C \o v)[i] = C[i]
            /\ \A i \in 1 .. Len(v) : (C \o v)[Len(C) + i] = v[i]
        BY Joined
      <3>7. /\ G \in Seq(Data) /\ Len(G) = d + Len(v)
            /\ \A i \in 1 .. d : G[i] = m[i - 1]
            /\ \A i \in 1 .. Len(v) : G[d + i] = v[i]
        BY <3>3, <3>5, <3>6
      <3> QED
        BY <3>1, <3>2, <3>7
    <2>5. /\ F \in Seq(Data) /\ Len(F) = l + Len(unread)
          /\ \A i \in 1 .. l : F[i] = mem[i - 1]
          /\ \A i \in 1 .. Len(unread) : F[l + i] = unread[i]
      BY <1>2, <1>5, <1>7, <2>1, FedBuffer
    <2>6. PICK u \in Nat : u = Len(unread) /\ Len(G) = r + u /\ Len(F) = l + u
      BY <1>4, <2>4, <2>5
    <2>7. ASSUME NEW i \in 1 .. r + u PROVE G[i] = F[n + i]
      <3>1. CASE i \in 1 .. r
        <4>1. i - 1 \in 0 .. r - 1 /\ i - 1 + n = n + i - 1 /\ n + i \in 1 .. l
          BY <2>9, <3>1
        <4> QED
          BY <2>2, <2>4, <2>5, <3>1, <4>1
      <3>2. CASE i \in r + 1 .. r + u
        <4>1. PICK j \in 1 .. u : i = r + j /\ n + i = l + j
          <5>1. i - r \in 1 .. u /\ i = r + (i - r) /\ n + i = l + (i - r)
            BY <2>6, <2>9, <3>2
          <5> QED
            BY <5>1
        <4> QED
          BY <2>4, <2>5, <2>6, <4>1
      <3> QED
        BY <3>1, <3>2
    <2>8. r + u = l + u - n
      BY <2>1
    <2> QED
      BY <1>3, <1>5, <2>4, <2>6, <2>7, <2>8
  <1>8. CASE heap # NoBody
    <2>1. TheHead \in Seq(Data) /\ heap \in Seq(Data) /\ unread \in Seq(Data)
      BY <1>2, <1>4, <1>8, CurrentHead
    <2>2. /\ Len(F) = Len(TheHead) + Len(heap) + Len(unread)
          /\ \A i \in 1 .. Len(unread) : F[Len(TheHead) + Len(heap) + i] = unread[i]
      BY <1>5, <1>8, <2>1, FedHeap
    <2>3. Len(TheHead) + Len(heap) = n
      BY <1>2, <1>3, <1>8
    <2>4. /\ G \in Seq(Data) /\ Len(G) = 0 + Len(unread)
          /\ \A i \in 1 .. Len(unread) : G[0 + i] = unread[i]
      <3>5. << >> \in Seq(Data) /\ Len(<< >>) = 0
        OBVIOUS
      <3>1. PICK v \in Seq(Data), z \in Seq(Data) : v = unread /\ z = << >> /\ Len(z) = 0
        BY <1>4, <3>5
      <3>2. [i \in 1 .. buf_len' |-> m[0 + i - 1]] = z
        BY <1>1, <1>8, <3>1
      <3>3. G = z \o v
        BY <1>6, <3>1, <3>2
      <3>4. /\ z \o v \in Seq(Data) /\ Len(z \o v) = Len(z) + Len(v)
            /\ \A i \in 1 .. Len(v) : (z \o v)[Len(z) + i] = v[i]
        BY Joined
      <3> QED
        BY <3>1, <3>3, <3>4
    <2>5. Len(G) = Len(unread) /\ Len(F) = n + Len(unread) /\ Len(G) = Len(F) - n
      BY <1>3, <1>4, <2>2, <2>3, <2>4
    <2>6. ASSUME NEW i \in 1 .. Len(G) PROVE G[i] = F[n + i]
      <3>1. i \in 1 .. Len(unread) /\ 0 + i = i
        BY <1>4, <2>5
      <3> QED
        BY <2>2, <2>3, <2>4, <3>1
    <2> QED
      BY <1>3, <1>5, <2>4, <2>5, <2>6
  <1> QED
    BY <1>7, <1>8

\* What a response leaves behind the data.
LEMMA RespondStale ==
  ASSUME FInv, AllOrderly, Respond
  PROVE  Stale'
PROOF
  <1>1. /\ pc = "handle" /\ script' = script /\ sent' = sent
        /\ answers' = Append(answers, [status |-> 200, request |-> request, last |-> ~ keep])
        /\ IF heap = NoBody THEN Consume(BodyStart + ContentLength)
                            ELSE buf_len' = 0 /\ mem' = mem
    BY DEF Respond, Answer, client
  <1>2. /\ IInv /\ Split /\ Behind /\ TagsFirst /\ Stale /\ Open
        /\ TheHead = Current.head /\ BodyStart = Len(Current.head)
        /\ BodyStart \in 1 .. Cap /\ ContentLength \in 0 .. MaxBody /\ ContentLength \in Nat
        /\ heap = NoBody => BodyStart + ContentLength <= buf_len
    BY <1>1, InHandler
  <1>3. /\ script \in Script /\ script \in Scripts /\ Len(script) \in Nat /\ sent \in Nat
        /\ sent <= Len(script) /\ Cap \in Nat /\ buf_len \in 0 .. Cap
        /\ \A q \in 0 .. buf_len - 1 : mem[q] \in Data
    BY <1>2, StateTypes
  <1>4. PICK k \in Nat : k = Len(answers) /\ k + 1 <= sent /\ Len(answers') = k + 1
    <2>1. Len(answers) \in Nat /\ Len(answers) + 1 <= sent
      BY <1>2, <1>3, StateTypes DEF Open
    <2>2. \E S : answers \in Seq(S)
      BY <1>2 DEF IInv, Counting
    <2>3. Len(answers') = Len(answers) + 1
      BY <1>1, <2>2
    <2> QED
      BY <2>1, <2>3
  <1>5. PICK r : r = Current /\ r = script[k + 1]
    BY <1>4 DEF Current
  <1>6. PICK s \in Nat, c \in Nat, n \in Nat :
          /\ s = BodyStart /\ c = ContentLength /\ n = s + c /\ n # 0 /\ s <= n
          /\ s = Len(r.head) /\ c = Declared(r.head)
    <2>1. BodyStart \in Nat /\ BodyStart # 0 /\ ContentLength = Declared(TheHead)
      BY <1>2, <1>3 DEF ContentLength
    <2>2. BodyStart + ContentLength \in Nat /\ BodyStart + ContentLength # 0
          /\ BodyStart <= BodyStart + ContentLength
      BY <1>2, <2>1
    <2> QED
      BY <1>2, <1>5, <2>1, <2>2
  <1>7. ~ (Open' /\ \E i \in 1 .. Len(Current'.head) : Current'.head[i] = "tag")
    <2> SUFFICES ASSUME Open', \E i \in 1 .. Len(Current'.head) : Current'.head[i] = "tag" PROVE FALSE
      OBVIOUS
    <2>1. k + 1 < sent /\ Current' = script[k + 1 + 1]
      BY <1>1, <1>4 DEF Open, Current
    <2>2. k + 1 + 1 \in k + 2 .. sent /\ k + 1 + 1 \in 1 .. Len(script)
      BY <1>3, <2>1
    <2>3. ~ script[k + 1 + 1].waits
      BY <1>2, <1>4, <2>2 DEF Behind
    <2>4. Polite(script[k + 1 + 1])
      BY <1>3, <2>2 DEF AllOrderly, Orderly
    <2> QED
      BY <2>1, <2>3, <2>4 DEF Polite
  <1>8. CASE heap # NoBody
    <2>1. buf_len' = 0 /\ mem' = mem
      BY <1>1, <1>8
    <2>2. mem'[Cap] = "NUL" /\ ~ (buf_len' > 0)
      BY <1>2, <2>1 DEF Stale
    <2> QED
      BY <1>7, <2>2 DEF Stale
  <1>9. CASE heap = NoBody
    <2>1. mem' = [i \in 0 .. Cap |-> IF i < buf_len - n THEN mem[i + n] ELSE mem[i]] /\ buf_len' = buf_len - n
      BY <1>1, <1>6, <1>9 DEF Consume
    <2>2. PICK l \in Nat, d \in Nat : l = buf_len /\ d = l - n /\ l = d + n /\ l <= Cap /\ n <= l
      <3>1. n <= buf_len /\ buf_len \in Nat /\ buf_len - n \in Nat /\ buf_len <= Cap
        BY <1>2, <1>3, <1>6, <1>9
      <3>2. buf_len = buf_len - n + n
        BY <1>6, <3>1
      <3> QED
        BY <3>1, <3>2
    <2>3. \A q \in d .. Cap : mem'[q] = mem[q] /\ q \in 0 .. Cap
      <3> SUFFICES ASSUME NEW q \in d .. Cap PROVE mem'[q] = mem[q] /\ q \in 0 .. Cap
        OBVIOUS
      <3>1. q \in 0 .. Cap /\ ~ (q < d)
        BY <1>3, <2>2
      <3> QED
        BY <2>1, <2>2, <3>1
    <2>4. mem'[Cap] = "NUL"
      <3>1. Cap \in d .. Cap
        BY <1>3, <2>2
      <3> QED
        BY <1>2, <2>3, <3>1 DEF Stale
    <2>7. \A t : Leftover(t)' <=>
            \E i \in 1 .. Len(script') :
              /\ t < Len(script'[i].head)
              /\ Declared(script'[i].head) \in 0 .. MaxBody
              /\ Len(script'[i].head) + Declared(script'[i].head) <= Cap
              /\ \A q \in t .. Len(script'[i].head) - 1 : mem'[q] = script'[i].head[q + 1]
      BY DEF Leftover, Declared
    <2>5. ASSUME NEW t \in d .. Cap, mem'[t] = "tag", \A q \in 0 .. t : mem'[q] # "NUL"
          PROVE  Leftover(t)'
      <3>1. mem[t] = "tag" /\ t \in 0 .. Cap
        BY <2>3, <2>5
      <3>2. CASE t < l
        <4>1. t + 1 <= s
          <5>1. t + 1 \in 1 .. l /\ t + 1 - 1 = t
            BY <2>2, <3>1, <3>2
          <5>2. /\ Len(Fed) = l + Len(unread) /\ Len(unread) \in Nat
                /\ \A i \in 1 .. l : Fed[i] = mem[i - 1]
            BY <1>2, <1>9, <2>2, FedBuffer, StateTypes
          <5>3. t + 1 \in 1 .. Len(Fed) /\ Fed[t + 1] = "tag"
            BY <2>2, <3>1, <5>1, <5>2
          <5> QED
            BY <1>2, <1>6, <5>3 DEF TagsFirst
        <4>6. PICK u \in Nat, e \in Nat : u = t /\ e = Cap /\ d <= u /\ u + 1 <= s /\ s <= l /\ l <= e
          <5>1. t \in Nat /\ d <= t
            BY <2>2, <3>1
          <5>3. s <= n /\ n <= l /\ s \in Nat /\ n \in Nat /\ l \in Nat
            BY <1>6, <2>2
          <5>2. s <= l
            BY <5>3
          <5> QED
            BY <1>3, <2>2, <4>1, <5>1, <5>2
        <4>2. ASSUME NEW q \in t .. s - 1 PROVE mem'[q] = r.head[q + 1]
          <5>1. q \in 0 .. s - 1 /\ q < l /\ q \in d .. Cap
            BY <4>6
          <5>2. mem[q] = r.head[q + 1]
            BY <1>2, <1>5, <1>6, <1>9, <2>2, <5>1, InBuffer
          <5> QED
            BY <2>3, <5>1, <5>2
        <4>3. k + 1 \in 1 .. Len(script)
          BY <1>3, <1>4
        <4>4. t < s /\ s + c <= Cap
          <5>1. t < s
            BY <4>6
          <5>2. n <= Cap /\ n = s + c
            BY <1>3, <1>6, <2>2
          <5> QED
            BY <5>1, <5>2
        <4>5. /\ t < Len(script[k + 1].head) /\ Declared(script[k + 1].head) \in 0 .. MaxBody
              /\ Len(script[k + 1].head) + Declared(script[k + 1].head) <= Cap
              /\ \A q \in t .. Len(script[k + 1].head) - 1 : mem'[q] = script[k + 1].head[q + 1]
          BY <1>2, <1>5, <1>6, <4>2, <4>4
        <4> QED
          BY <1>1, <2>7, <4>3, <4>5
      <3>3. CASE ~ (t < l)
        <4>1. t \in l .. Cap /\ buf_len > 0
          BY <1>3, <1>6, <2>2, <3>1, <3>3
        <4>2. ASSUME NEW q \in 0 .. t PROVE mem[q] # "NUL"
          <5>1. CASE q < l
            <6>1. q \in 0 .. buf_len - 1
              BY <2>2, <5>1
            <6> QED
              BY <1>3, <6>1 DEF Data
          <5>2. CASE ~ (q < l)
            <6>1. q \in d .. Cap
              BY <1>3, <2>2, <3>1, <5>2
            <6> QED
              BY <2>3, <2>5, <6>1
          <5> QED
            BY <5>1, <5>2
        <4>3. Leftover(t)
          BY <1>2, <2>2, <3>1, <4>1, <4>2 DEF Stale
        <4>4. PICK i \in 1 .. Len(script) :
                /\ t < Len(script[i].head) /\ Declared(script[i].head) \in 0 .. MaxBody
                /\ Len(script[i].head) + Declared(script[i].head) <= Cap
                /\ \A q \in t .. Len(script[i].head) - 1 : mem[q] = script[i].head[q + 1]
          BY <4>3 DEF Leftover
        <4>5. ASSUME NEW q \in t .. Len(script[i].head) - 1 PROVE mem'[q] = script[i].head[q + 1]
          <5>1. PICK x \in Nat, y \in Nat : x = Len(script[i].head) /\ y = Declared(script[i].head) /\ x + y <= Cap
            <6>1. Len(script[i].head) \in Nat /\ MaxBody \in Nat
              BY <1>2, <1>3, ScriptParts, StateTypes
            <6> QED
              BY <4>4, <6>1
          <5>2. q \in d .. Cap
            <6>1. q \in t .. x - 1
              BY <5>1
            <6> QED
              BY <1>3, <2>2, <3>1, <3>3, <5>1, <6>1
          <5> QED
            BY <2>3, <4>4, <5>2
        <4> QED
          BY <1>1, <2>7, <4>4, <4>5
      <3> QED
        BY <3>2, <3>3
    <2>6. buf_len' = d
      BY <2>1, <2>2
    <2> QED
      BY <1>7, <2>4, <2>5, <2>6 DEF Stale
  <1> QED
    BY <1>8, <1>9

\* The response.
LEMMA RespondFrame ==
  ASSUME FInv, AllOrderly, Respond
  PROVE  Frame' /\ AnsweredAsSent'
PROOF
  <1>1. /\ pc = "handle" /\ script' = script /\ sent' = sent
        /\ answers' = Append(answers, [status |-> 200, request |-> request, last |-> ~ keep])
        /\ pc' = GoOn(buf_len' > 0 /\ Ends' # {})
    BY DEF Respond, Answer, client
  <1>2. /\ IInv /\ AnsweredAsSent /\ Split /\ Behind /\ TagsFirst /\ Open
        /\ AtHand /\ request = [head |-> Current.head, body |-> Current.body]
        /\ BodyStart = Len(Current.head)
        /\ Size(Current) = BodyStart + ContentLength /\ ContentLength \in Nat /\ BodyStart \in 1 .. Cap
        /\ Deserved(Current) = 200
    BY <1>1, InHandler
  <1>3. AnsweredAsSent'
    <2>1. 200 = Deserved(Current) /\ request.head = Current.head /\ request.body = Current.body
      BY <1>2
    <2> QED
      BY <1>1, <1>2, <2>1, Answered
  <1>4. PICK k \in Nat : k = Len(answers) /\ k < sent /\ Len(answers') = k + 1
    <2>1. Len(answers) \in Nat /\ Len(answers) < sent
      BY <1>2, StateTypes DEF Open
    <2>2. \E S : answers \in Seq(S)
      BY <1>2 DEF IInv, Counting
    <2>3. Len(answers') = Len(answers) + 1
      BY <1>1, <2>2
    <2> QED
      BY <2>1, <2>3
  <1>5. PICK F \in Seq(Data), G \in Seq(Data), n \in Nat \ {0} :
          /\ F = Fed /\ G = Fed' /\ n = Size(Current) /\ Len(Current.head) <= n
          /\ Len(G) = Len(F) - n /\ \A i \in 1 .. Len(G) : G[i] = F[n + i]
    <2>1. Fed \in Seq(Data)
      BY <1>2, HeldType
    <2>2. Size(Current) \in Nat \ {0} /\ Len(Current.head) <= Size(Current)
      <3>1. Cap \in Nat
        BY <1>2, StateTypes
      <3> QED
        BY <1>2, <3>1
    <2> QED
      BY <2>1, <2>2, ShiftedFed
  <1>6. Split'
    <2>1. /\ script \in Script /\ sent \in Nat /\ sent <= Len(script) /\ Splits(script, F, k, sent)
          /\ n = Size(script[k + 1])
      BY <1>2, <1>4, <1>5, StateTypes DEF Split, Current
    <2>2. Splits(script, G, k + 1, sent)
      <3>1. k < sent /\ Len(G) = Len(F) - n /\ \A i \in 1 .. Len(G) : G[i] = F[n + i]
        BY <1>4, <1>5
      <3> QED
        BY <2>1, <3>1, SplitLess
    <2>3. Split' <=> Len(answers') <= sent' /\ Splits(script', Fed', Len(answers'), sent')
      BY DEF Split, Splits, Placed, Size
    <2>4. k + 1 <= sent
      BY <1>4, <2>1
    <2> QED
      BY <1>1, <1>4, <1>5, <2>2, <2>3, <2>4
  <1>7. Behind'
    <2> SUFFICES ASSUME NEW j \in k + 1 + 2 .. sent PROVE ~ script[j].waits
      BY <1>1, <1>4 DEF Behind
    <2>1. sent \in Nat
      BY <1>2, StateTypes
    <2>2. j \in k + 2 .. sent
      BY <2>1
    <2> QED
      BY <1>2, <1>4, <2>2 DEF Behind
  <1>8. TagsFirst'
    <2> SUFFICES ASSUME NEW i \in 1 .. Len(G), G[i] = "tag" PROVE FALSE
      BY <1>5 DEF TagsFirst
    <2>1. Len(F) \in Nat
      OBVIOUS
    <2>2. n + i \in 1 .. Len(F) /\ ~ (n + i <= Len(Current.head))
      <3>1. Len(Current.head) \in Nat
        BY <1>2, CurrentHead
      <3>2. i \in Nat \ {0} /\ n + i <= Len(F)
        BY <1>5, <2>1
      <3> QED
        BY <1>5, <2>1, <3>1, <3>2
    <2>3. F[n + i] = "tag"
      BY <1>5
    <2> QED
      BY <1>2, <1>5, <2>2, <2>3 DEF TagsFirst
  <1>9. Stale'
    BY RespondStale
  <1>10. AtHand'
    <2>1. pc' \in {"done", "process", "top"} /\ (pc' = "process" => buf_len' > 0)
      BY <1>1 DEF GoOn
    <2> QED
      BY <2>1 DEF AtHand
  <1> QED
    BY <1>3, <1>6, <1>7, <1>8, <1>9, <1>10 DEF Frame

\* The invariant holds at the start,
LEMMA InitFrame ==
  ASSUME Init
  PROVE  FInv
PROOF
  <1>1. IInv
    BY InitIInv
  <1>2. /\ script \in Scripts /\ sent = 0 /\ unread = << >> /\ buf_len = 0 /\ pc = "top"
        /\ heap = NoBody /\ answers = << >> /\ mem = [i \in 0 .. Cap |-> "NUL"]
    BY DEF Init
  <1>3. AnsweredAsSent
    BY <1>2 DEF AnsweredAsSent
  <1>4. Fed = << >>
    <2>1. Cells(0, buf_len) = << >>
      BY <1>2 DEF Cells
    <2>2. Fed = << >> \o << >>
      BY <1>2, <2>1 DEF Fed, Held
    <2> QED
      BY <2>2
  <1>5. Split
    <2>1. Len(answers) = 0 /\ Splits(script, << >>, 0, 0)
      BY <1>2, SplitStart
    <2> QED
      BY <1>2, <1>4, <2>1 DEF Split
  <1>6. Behind
    <2>1. Len(answers) = 0
      BY <1>2
    <2> QED
      BY <1>2, <2>1 DEF Behind
  <1>7. TagsFirst
    BY <1>4 DEF TagsFirst
  <1>8. Stale
    <2>1. Len(answers) = 0 /\ Cap \in 0 .. Cap
      BY <1>2, ConfigAssumption
    <2> QED
      BY <1>2, <2>1 DEF Stale, Open
  <1>9. AtHand
    BY <1>2 DEF AtHand
  <1> QED
    BY <1>1, <1>3, <1>5, <1>6, <1>7, <1>8, <1>9 DEF FInv, Frame

\* and every step keeps it.
LEMMA NextFrame ==
  ASSUME FInv, AllOrderly, [Next]_vars
  PROVE  FInv'
PROOF
  <1>1. IInv'
    BY NextIInv DEF FInv
  <1>2. CASE UNCHANGED vars
    <2>1. UNCHANGED <<script, sent, unread, mem, buf_len, heap, answers, pc, request>>
      BY <1>2 DEF vars
    <2> QED
      BY <1>1, <2>1, MoveFrame DEF FInv
  <1>3. CASE Worker
    <2>1. CASE TopShutdown \/ TopWait \/ ReadEnd \/ ArenaBegin \/ NeedMore \/ ConnDone
      BY <1>1, <2>1, LoopFrame DEF FInv
    <2>2. CASE HeapReadFail \/ RespondFail
      BY <1>1, <2>2, DropFrame DEF FInv
    <2>3. CASE NoHead
      BY <1>1, <2>3, NoHeadFrame DEF FInv
    <2>4. CASE BadLine \/ BadLength \/ HeapBodyFail
      BY <1>1, <2>4, RefuseFrame DEF FInv
    <2>5. CASE Read
      BY <1>1, <2>5, ReadFrame DEF FInv
    <2>6. CASE HeapBody
      BY <1>1, <2>6, HeapBodyFrame DEF FInv
    <2>7. CASE HeapRead
      BY <1>1, <2>7, HeapReadFrame DEF FInv
    <2>8. CASE Dispatch
      BY <1>1, <2>8, DispatchFrame DEF FInv
    <2>9. CASE Respond
      BY <1>1, <2>9, RespondFrame DEF FInv
    <2> QED
      BY <1>3, <2>1, <2>2, <2>3, <2>4, <2>5, <2>6, <2>7, <2>8, <2>9 DEF Worker
  <1>4. CASE Send
    BY <1>1, <1>4, SendFrame DEF FInv
  <1>5. CASE Shutdown
    BY <1>1, <1>5, LoopFrame DEF FInv
  <1> QED
    BY <1>2, <1>3, <1>4, <1>5 DEF Next

\* When every client is orderly (its requests are well formed, and one with a
\* Content-Length waits until everything before it is answered), each answer is the
\* one its request deserves and the handler is called with the head and the body the
\* client sent, wherever the network cuts the stream, however many requests are
\* pipelined, and whatever earlier requests left behind in the buffer: the framing
\* of process_request and of the memmove after it.
THEOREM FramingIsExact ==
  ASSUME AllOrderly
  PROVE  Spec => []AnsweredAsSent
PROOF
  <1>1. Init => FInv
    BY InitFrame
  <1>2. FInv /\ [Next]_vars => FInv'
    BY NextFrame
  <1>3. FInv => AnsweredAsSent
    BY DEF FInv
  <1> QED
    BY <1>1, <1>2, <1>3, PTL DEF Spec
-----------------------------------------------------------------------------
(***************************************************************************)
(* Theorems about HttpListen, for any number of servers and clients, any   *)
(* cap on connections, any length of the drain and any number of signals.  *)
(*                                                                         *)
(* SlotsExact is not inductive by itself.  When the accept thread starts a *)
(* worker, that the worker is a new one needs the connection in its hand   *)
(* (InHand), and that the cap holds needs what the comparison in CountIn   *)
(* established (RoomToSpawn).  What is true when the process has exited    *)
(* (ExitedEmpty) gives InFlightFinish, for the server that called exit.    *)
(***************************************************************************)

\* Between accept() and the settling of its connection, the accept thread holds
\* a connection to its own server that no worker has.
InHand ==
  \A s \in Server : loop[s] \in {"count", "overload", "spawn"} =>
    cur[s] \in Conn /\ conn[cur[s]] = "accepted" /\ home[cur[s]] = s

\* A thread about to start a worker saw a counter below the cap.
RoomToSpawn ==
  \A s \in Server : loop[s] = "spawn" => Cardinality(Workers(s)) < MaxConn

\* exit(0) before the end of the window: every slot of that server was free.
ExitedEmpty ==
  exited # None /\ waited[exited] < DrainTicks => active[exited] = 0

ListenIInv == ListenTypeOK /\ SlotsExact /\ InHand /\ RoomToSpawn /\ ExitedEmpty

-----------------------------------------------------------------------------
(* The workers of a server, before and after a step *)

\* The workers of a server are finitely many.
LEMMA WorkersFinite ==
  \A s : IsFiniteSet(Workers(s)) /\ Cardinality(Workers(s)) \in Nat
PROOF
  <1>1. \A s : Workers(s) \in SUBSET Conn
    BY DEF Workers
  <1> QED
    BY <1>1, ConnAssumption, FS_Subset, FS_CardinalityType

\* A step that takes no connection into the workers or out of them.
LEMMA SameWorkers ==
  ASSUME home' = home,
         \A c \in Conn : conn'[c] \in Slotted <=> conn[c] \in Slotted
  PROVE  \A s : Workers(s)' = Workers(s)
PROOF
  BY DEF Workers

\* A connection becomes a worker: its server has one more.
LEMMA OneMore ==
  ASSUME ListenTypeOK, NEW c \in Conn, NEW to \in Slotted, home' = home,
         conn[c] \notin Slotted, conn' = [conn EXCEPT ![c] = to]
  PROVE  \A s : Cardinality(Workers(s)') =
                  Cardinality(Workers(s)) + (IF s = home[c] THEN 1 ELSE 0)
PROOF
  <1> SUFFICES ASSUME NEW s
               PROVE  Cardinality(Workers(s)') =
                        Cardinality(Workers(s)) + (IF s = home[c] THEN 1 ELSE 0)
    OBVIOUS
  <1>1. IsFiniteSet(Workers(s)) /\ Cardinality(Workers(s)) \in Nat
    BY WorkersFinite
  <1>2. c \notin Workers(s)
    BY DEF Workers
  <1>3. CASE s = home[c]
    <2>1. Workers(s)' = Workers(s) \cup {c}
      BY <1>3 DEF Workers, ListenTypeOK
    <2> QED
      BY <1>1, <1>2, <1>3, <2>1, FS_AddElement
  <1>4. CASE s # home[c]
    <2>1. Workers(s)' = Workers(s)
      BY <1>4 DEF Workers, ListenTypeOK
    <2> QED
      BY <1>1, <1>4, <2>1
  <1> QED
    BY <1>3, <1>4

\* A worker ends: its server has one fewer.
LEMMA OneFewer ==
  ASSUME ListenTypeOK, NEW c \in Conn, NEW to, to \notin Slotted, home' = home,
         conn[c] \in Slotted, conn' = [conn EXCEPT ![c] = to]
  PROVE  \A s : Cardinality(Workers(s)') =
                  Cardinality(Workers(s)) - (IF s = home[c] THEN 1 ELSE 0)
PROOF
  <1> SUFFICES ASSUME NEW s
               PROVE  Cardinality(Workers(s)') =
                        Cardinality(Workers(s)) - (IF s = home[c] THEN 1 ELSE 0)
    OBVIOUS
  <1>1. IsFiniteSet(Workers(s)) /\ Cardinality(Workers(s)) \in Nat
    BY WorkersFinite
  <1>2. CASE s = home[c]
    <2>1. Workers(s)' = Workers(s) \ {c} /\ c \in Workers(s)
      BY <1>2 DEF Workers, ListenTypeOK
    <2> QED
      BY <1>1, <1>2, <2>1, FS_RemoveElement
  <1>3. CASE s # home[c]
    <2>1. Workers(s)' = Workers(s)
      BY <1>3 DEF Workers, ListenTypeOK
    <2> QED
      BY <1>1, <1>3, <2>1
  <1> QED
    BY <1>2, <1>3

-----------------------------------------------------------------------------
(* Type correctness *)

LEMMA ListenInitType == ListenInit => ListenTypeOK
PROOF
  <1> SUFFICES ASSUME ListenInit PROVE ListenTypeOK
    OBVIOUS
  <1>1. signals \in 0 .. MaxSignals /\ waited \in [Server -> 0 .. DrainTicks]
    BY LimitAssumption DEF ListenInit
  <1>2. active \in [Server -> Nat] /\ cur \in [Server -> Conn \cup {None}]
    BY DEF ListenInit
  <1>3. conn \in [Conn -> Unserved \cup Slotted \cup Ended]
    BY DEF ListenInit, Unserved
  <1> QED
    BY <1>1, <1>2, <1>3 DEF ListenInit, ListenTypeOK

LEMMA AcceptStepType ==
  ASSUME ListenTypeOK, InHand, SlotsExact, NEW s \in Server, AcceptStep(s)
  PROVE  ListenTypeOK'
PROOF
  <1> USE LimitAssumption DEF Goto, Unserved, Slotted, Ended
  <1>1. CASE TestFlag(s)
    BY <1>1 DEF ListenTypeOK, TestFlag
  <1>2. CASE EnterAccept(s) \/ Nap(s)
    BY <1>2 DEF ListenTypeOK, EnterAccept, Nap
  <1>3. CASE Accept(s)
    BY <1>3 DEF ListenTypeOK, Accept
  <1>4. CASE CountIn(s)
    BY <1>4 DEF ListenTypeOK, CountIn
  <1>5. CASE Overload(s) \/ SpawnFail(s)
    <2>1. active[s] \in Nat \ {0}
      BY <1>5, WorkersFinite DEF ListenTypeOK, SlotsExact, Counted, Overload, SpawnFail
    <2>2. active' = [active EXCEPT ![s] = @ - 1] /\ active' \in [Server -> Nat]
      BY <1>5, <2>1 DEF ListenTypeOK, Overload, SpawnFail
    <2> QED
      BY <1>5, <2>2 DEF ListenTypeOK, Overload, SpawnFail
  <1>6. CASE Spawn(s)
    BY <1>6 DEF ListenTypeOK, Spawn
  <1>7. CASE DrainNap(s)
    BY <1>7 DEF ListenTypeOK, DrainNap
  <1>8. CASE DrainExit(s)
    BY <1>8 DEF ListenTypeOK, DrainExit
  <1> QED
    BY <1>1, <1>2, <1>3, <1>4, <1>5, <1>6, <1>7, <1>8 DEF AcceptStep

\* What a worker, its client or a signal does.
ConnStep(c) ==
  WorkerStep(c) \/ ClientRequest(c) \/ WorkerRespond(c) \/ Connect(c) \/ SignalWorker(c)

LEMMA ConnStepType ==
  ASSUME ListenTypeOK, SlotsExact, NEW c \in Conn, ConnStep(c)
  PROVE  ListenTypeOK'
PROOF
  <1> USE DEF Move, rest, Unserved, Slotted, InRequest, Ended
  <1>1. CASE Begin(c) \/ Top(c) \/ WorkerReadEnd(c) \/ WorkerDispatch(c)
    BY <1>1 DEF ListenTypeOK, Begin, Top, WorkerReadEnd, WorkerDispatch
  <1>2. CASE CloseSocket(c) \/ ClientRequest(c) \/ WorkerRespond(c) \/ Connect(c)
    BY <1>2 DEF ListenTypeOK, CloseSocket, ClientRequest, WorkerRespond, Connect
  <1>3. CASE Release(c)
    <2>1. c \in Workers(home[c]) /\ home[c] \in Server
      BY <1>3 DEF ListenTypeOK, Workers, Release
    <2>2. Cardinality(Workers(home[c])) \in Nat \ {0}
      BY <2>1, WorkersFinite, FS_EmptySet
    <2>3. active[home[c]] \in Nat \ {0}
      BY <2>1, <2>2 DEF SlotsExact, Counted, ListenTypeOK
    <2> QED
      BY <1>3, <2>1, <2>3 DEF ListenTypeOK, Release
  <1>4. CASE SignalWorker(c)
    BY <1>4, LimitAssumption DEF ListenTypeOK, SignalWorker
  <1> QED
    BY <1>1, <1>2, <1>3, <1>4 DEF ConnStep, WorkerStep

LEMMA SignalType ==
  ASSUME ListenTypeOK, NEW s \in Server, SignalAcceptThread(s)
  PROVE  ListenTypeOK'
PROOF
  BY LimitAssumption DEF ListenTypeOK, SignalAcceptThread

-----------------------------------------------------------------------------
(* Slots *)

LEMMA ListenInitIInv == ListenInit => ListenIInv
PROOF
  <1> SUFFICES ASSUME ListenInit PROVE ListenIInv
    OBVIOUS
  <1>1. \A s : Workers(s) = {}
    BY DEF ListenInit, Workers, Slotted, InRequest
  <1>2. SlotsExact
    BY <1>1, FS_EmptySet, LimitAssumption DEF ListenInit, SlotsExact, Counted
  <1> QED
    BY <1>2, ListenInitType DEF ListenInit, ListenIInv, InHand, RoomToSpawn, ExitedEmpty

\* Nothing is accepted, counted, settled, started or ended by the step.
LEMMA Unslotted ==
  ASSUME ListenIInv, ListenTypeOK', home' = home, active' = active, cur' = cur,
         \A c \in Conn : /\ conn'[c] \in Slotted <=> conn[c] \in Slotted
                         /\ conn[c] = "accepted" => conn'[c] = "accepted",
         \A s \in Server : loop'[s] \in {"count", "overload", "spawn"}
                             \/ loop[s] \in {"count", "overload", "spawn"} => loop'[s] = loop[s],
         ExitedEmpty'
  PROVE  ListenIInv'
PROOF
  <1>1. \A s : Workers(s)' = Workers(s)
    BY SameWorkers
  <1>2. SlotsExact' /\ RoomToSpawn'
    BY <1>1 DEF ListenIInv, SlotsExact, RoomToSpawn, Counted
  <1>3. InHand'
    BY DEF ListenIInv, InHand
  <1> QED
    BY <1>2, <1>3 DEF ListenIInv

\* While the process runs, exit has not been called.
LEMMA StillRunning ==
  ASSUME Running, exited' = exited
  PROVE  ExitedEmpty'
PROOF
  BY DEF Running, ExitedEmpty

LEMMA AcceptStepIInv ==
  ASSUME ListenIInv, NEW s \in Server, AcceptStep(s)
  PROVE  ListenIInv'
PROOF
  <1>1. ListenTypeOK /\ ListenTypeOK'
    BY AcceptStepType DEF ListenIInv
  <1>2. CASE TestFlag(s)
    <2>1. ExitedEmpty'
      BY <1>2, StillRunning DEF TestFlag, Goto
    <2>2. \A c \in Conn : /\ conn'[c] \in Slotted <=> conn[c] \in Slotted
                          /\ conn[c] = "accepted" => conn'[c] = "accepted"
      BY <1>2 DEF TestFlag, Slotted, InRequest
    <2> QED
      BY <1>1, <1>2, <2>1, <2>2, Unslotted DEF TestFlag, Goto, ListenTypeOK
  <1>3. CASE EnterAccept(s) \/ Nap(s)
    <2>1. ExitedEmpty'
      BY <1>3, StillRunning DEF EnterAccept, Nap, Goto
    <2> QED
      BY <1>1, <1>3, <2>1, Unslotted DEF EnterAccept, Nap, Goto, ListenTypeOK
  <1>4. CASE Accept(s)
    <2>1. PICK c \in Conn : /\ home[c] = s /\ conn[c] = "queued"
                            /\ conn' = [conn EXCEPT ![c] = "accepted"]
                            /\ cur' = [cur EXCEPT ![s] = c]
      BY <1>4 DEF Accept
    <2>2. ExitedEmpty'
      BY <1>4, StillRunning DEF Accept, Goto
    <2>3. \A t : Workers(t)' = Workers(t)
      BY <1>1, <1>4, <2>1, SameWorkers DEF Accept, ListenTypeOK, Slotted, InRequest
    <2>4. loop[s] \in {"enter", "accept"} /\ loop' = [loop EXCEPT ![s] = "count"]
          /\ active' = active /\ home' = home
      BY <1>4 DEF Accept, Goto
    <2>5. SlotsExact' /\ RoomToSpawn'
      BY <1>1, <2>3, <2>4 DEF ListenIInv, SlotsExact, RoomToSpawn, Counted, ListenTypeOK
    <2>6. InHand'
      BY <1>1, <2>1, <2>4 DEF ListenIInv, InHand, ListenTypeOK
    <2> QED
      BY <1>1, <2>2, <2>5, <2>6 DEF ListenIInv
  <1>5. CASE CountIn(s)
    <2>1. ExitedEmpty'
      BY <1>5, StillRunning DEF CountIn, Goto
    <2>2. \A t : Workers(t)' = Workers(t)
      BY <1>5, SameWorkers DEF CountIn
    <2>3. /\ loop[s] = "count"
          /\ loop' = [loop EXCEPT ![s] = IF active[s] >= MaxConn THEN "overload" ELSE "spawn"]
          /\ active' = [active EXCEPT ![s] = @ + 1]
          /\ cur' = cur /\ conn' = conn /\ home' = home
      BY <1>5 DEF CountIn, Goto
    <2>4. active[s] = Cardinality(Workers(s)) /\ Cardinality(Workers(s)) \in Nat
      BY <2>3, WorkersFinite DEF ListenIInv, SlotsExact, Counted
    <2>5. SlotsExact'
      BY <1>1, <2>2, <2>3, <2>4 DEF ListenIInv, SlotsExact, Counted, ListenTypeOK
    <2>6. RoomToSpawn'
      BY <1>1, <2>2, <2>3, <2>4, LimitAssumption DEF ListenIInv, RoomToSpawn, ListenTypeOK
    <2>7. InHand'
      BY <1>1, <2>3 DEF ListenIInv, InHand, ListenTypeOK
    <2> QED
      BY <1>1, <2>1, <2>5, <2>6, <2>7 DEF ListenIInv
  <1>6. CASE Overload(s) \/ SpawnFail(s)
    <2>1. ExitedEmpty'
      BY <1>6, StillRunning DEF Overload, SpawnFail, Goto
    <2>2. /\ loop[s] \in {"overload", "spawn"} /\ loop' = [loop EXCEPT ![s] = "test"]
          /\ active' = [active EXCEPT ![s] = @ - 1] /\ home' = home
          /\ cur' = [cur EXCEPT ![s] = None]
      BY <1>6 DEF Overload, SpawnFail, Goto
    <2>3. cur[s] \in Conn /\ conn[cur[s]] = "accepted" /\ home[cur[s]] = s
      BY <2>2 DEF ListenIInv, InHand
    <2>4. PICK to \in Ended : conn' = [conn EXCEPT ![cur[s]] = to]
      BY <1>6 DEF Overload, SpawnFail, Ended
    <2>5. \A t : Workers(t)' = Workers(t)
      BY <1>1, <2>2, <2>3, <2>4, SameWorkers DEF ListenTypeOK, Slotted, InRequest, Ended
    <2>6. SlotsExact'
      BY <1>1, <2>2, <2>5, WorkersFinite DEF ListenIInv, SlotsExact, Counted, ListenTypeOK
    <2>7. RoomToSpawn'
      BY <1>1, <2>2, <2>5 DEF ListenIInv, RoomToSpawn, ListenTypeOK
    <2>8. InHand'
      BY <1>1, <2>2, <2>3, <2>4 DEF ListenIInv, InHand, ListenTypeOK
    <2> QED
      BY <1>1, <2>1, <2>6, <2>7, <2>8 DEF ListenIInv
  <1>7. CASE Spawn(s)
    <2>1. ExitedEmpty'
      BY <1>7, StillRunning DEF Spawn, Goto
    <2>2. /\ loop[s] = "spawn" /\ loop' = [loop EXCEPT ![s] = "test"]
          /\ active' = active /\ home' = home
          /\ cur' = [cur EXCEPT ![s] = None]
          /\ conn' = [conn EXCEPT ![cur[s]] = "fresh"]
      BY <1>7 DEF Spawn, Goto
    <2>3. cur[s] \in Conn /\ conn[cur[s]] = "accepted" /\ home[cur[s]] = s
      BY <2>2 DEF ListenIInv, InHand
    <2>4. \A t : Cardinality(Workers(t)') =
                   Cardinality(Workers(t)) + (IF t = s THEN 1 ELSE 0)
      BY <1>1, <2>2, <2>3, OneMore DEF Slotted, InRequest
    <2>5. Cardinality(Workers(s)) < MaxConn
      BY <2>2 DEF ListenIInv, RoomToSpawn
    <2>6. ASSUME NEW t \in Server
          PROVE  /\ active'[t] = Cardinality(Workers(t)') + Counted(t)'
                 /\ Cardinality(Workers(t)') <= MaxConn
      <3>1. /\ active[t] = Cardinality(Workers(t)) + Counted(t)
            /\ Cardinality(Workers(t)) <= MaxConn
            /\ Cardinality(Workers(t)) \in Nat
        BY WorkersFinite DEF ListenIInv, SlotsExact
      <3>2. CASE t = s
        BY <1>1, <2>2, <2>4, <2>5, <3>1, <3>2, LimitAssumption DEF Counted, ListenTypeOK
      <3>3. CASE t # s
        BY <1>1, <2>2, <2>4, <3>1, <3>3 DEF Counted, ListenTypeOK
      <3> QED
        BY <3>2, <3>3
    <2>7. SlotsExact'
      BY <2>6 DEF SlotsExact
    <2>8. RoomToSpawn'
      <3> SUFFICES ASSUME NEW t \in Server, loop'[t] = "spawn"
                   PROVE  Cardinality(Workers(t)') < MaxConn
        BY DEF RoomToSpawn
      <3>1. t # s /\ loop[t] = "spawn"
        BY <1>1, <2>2 DEF ListenTypeOK
      <3> QED
        BY <2>4, <3>1, WorkersFinite DEF ListenIInv, RoomToSpawn
    <2>9. InHand'
      BY <1>1, <2>2, <2>3 DEF ListenIInv, InHand, ListenTypeOK
    <2> QED
      BY <1>1, <2>1, <2>7, <2>8, <2>9 DEF ListenIInv
  <1>8. CASE DrainNap(s)
    <2>1. ExitedEmpty'
      BY <1>8, StillRunning DEF DrainNap
    <2> QED
      BY <1>1, <1>8, <2>1, Unslotted DEF DrainNap
  <1>9. CASE DrainExit(s)
    <2>1. ExitedEmpty'
      BY <1>1, <1>9, LimitAssumption DEF DrainExit, ExitedEmpty, ListenTypeOK
    <2> QED
      BY <1>1, <1>9, <2>1, Unslotted DEF DrainExit, Goto, ListenTypeOK
  <1> QED
    BY <1>2, <1>3, <1>4, <1>5, <1>6, <1>7, <1>8, <1>9 DEF AcceptStep

LEMMA ConnStepIInv ==
  ASSUME ListenIInv, NEW c \in Conn, ConnStep(c)
  PROVE  ListenIInv'
PROOF
  <1>1. ListenTypeOK /\ ListenTypeOK'
    BY ConnStepType DEF ListenIInv
  <1>2. ExitedEmpty'
    BY StillRunning DEF ConnStep, WorkerStep, Begin, Top, WorkerReadEnd, WorkerDispatch, CloseSocket,
         Release, ClientRequest, WorkerRespond, Connect, SignalWorker, Move, rest
  <1>3. CASE SignalWorker(c)
    BY <1>1, <1>2, <1>3, Unslotted DEF SignalWorker
  <1>4. CASE Release(c)
    <2>1. /\ conn[c] = "closed" /\ conn' = [conn EXCEPT ![c] = "done"]
          /\ active' = [active EXCEPT ![home[c]] = @ - 1]
          /\ loop' = loop /\ cur' = cur /\ home' = home
      BY <1>4 DEF Release, Move
    <2>2. \A s : Cardinality(Workers(s)') =
                   Cardinality(Workers(s)) - (IF s = home[c] THEN 1 ELSE 0)
      BY <1>1, <2>1, OneFewer DEF Slotted, InRequest
    <2>3. ASSUME NEW s \in Server
          PROVE  /\ active'[s] = Cardinality(Workers(s)') + Counted(s)'
                 /\ Cardinality(Workers(s)') <= Cardinality(Workers(s))
                 /\ Cardinality(Workers(s)) <= MaxConn
                 /\ Cardinality(Workers(s)) \in Nat /\ Cardinality(Workers(s)') \in Int
      <3>1. /\ active[s] = Cardinality(Workers(s)) + Counted(s)
            /\ Cardinality(Workers(s)) <= MaxConn
            /\ Cardinality(Workers(s)) \in Nat
            /\ Counted(s)' = Counted(s) /\ Counted(s) \in {0, 1}
        BY <2>1, WorkersFinite DEF ListenIInv, SlotsExact, Counted
      <3>2. CASE s = home[c]
        BY <1>1, <2>1, <2>2, <3>1, <3>2 DEF ListenTypeOK
      <3>3. CASE s # home[c]
        BY <1>1, <2>1, <2>2, <3>1, <3>3 DEF ListenTypeOK
      <3> QED
        BY <3>2, <3>3
    <2>4. SlotsExact' /\ RoomToSpawn'
      BY <2>1, <2>3, LimitAssumption DEF ListenIInv, SlotsExact, RoomToSpawn
    <2>5. InHand'
      BY <1>1, <2>1 DEF ListenIInv, InHand, ListenTypeOK
    <2> QED
      BY <1>1, <1>2, <2>4, <2>5 DEF ListenIInv
  <1>5. ASSUME NEW to, conn' = [conn EXCEPT ![c] = to], UNCHANGED rest,
               \/ conn[c] \in Slotted /\ to \in Slotted
               \/ conn[c] = "absent" /\ to = "queued"
        PROVE  ListenIInv'
    <2>1. \A d \in Conn : /\ conn'[d] \in Slotted <=> conn[d] \in Slotted
                          /\ conn[d] = "accepted" => conn'[d] = "accepted"
      BY <1>1, <1>5 DEF ListenTypeOK, Slotted, InRequest
    <2> QED
      BY <1>1, <1>2, <1>5, <2>1, Unslotted DEF rest
  <1>6. CASE Begin(c) \/ Top(c) \/ WorkerReadEnd(c)
    BY <1>5, <1>6 DEF Begin, Top, WorkerReadEnd, Move, Slotted
  <1>7. CASE WorkerDispatch(c) \/ CloseSocket(c) \/ ClientRequest(c)
    BY <1>5, <1>7 DEF WorkerDispatch, CloseSocket, ClientRequest, Move, Slotted, InRequest
  <1>8. CASE WorkerRespond(c) \/ Connect(c)
    BY <1>5, <1>8 DEF WorkerRespond, Connect, Move, Slotted, InRequest
  <1> QED
    BY <1>3, <1>4, <1>6, <1>7, <1>8 DEF ConnStep, WorkerStep

LEMMA SignalIInv ==
  ASSUME ListenIInv, NEW s \in Server, SignalAcceptThread(s)
  PROVE  ListenIInv'
PROOF
  <1>1. ListenTypeOK /\ ListenTypeOK'
    BY SignalType DEF ListenIInv
  <1>2. ExitedEmpty'
    BY StillRunning DEF SignalAcceptThread
  <1> QED
    BY <1>1, <1>2, Unslotted DEF SignalAcceptThread, ListenTypeOK

LEMMA ListenNextIInv == ListenIInv /\ [ListenNext]_listen_vars => ListenIInv'
PROOF
  <1> SUFFICES ASSUME ListenIInv, [ListenNext]_listen_vars PROVE ListenIInv'
    OBVIOUS
  <1>1. CASE UNCHANGED listen_vars
    <2>1. \A s : Workers(s)' = Workers(s)
      BY <1>1, SameWorkers DEF listen_vars
    <2> QED
      BY <1>1, <2>1 DEF listen_vars, ListenIInv, ListenTypeOK, SlotsExact, Counted, InHand, RoomToSpawn, ExitedEmpty
  <1>2. ASSUME NEW s \in Server, AcceptStep(s) PROVE ListenIInv'
    BY <1>2, AcceptStepIInv
  <1>3. ASSUME NEW s \in Server, SignalAcceptThread(s) PROVE ListenIInv'
    BY <1>3, SignalIInv
  <1>4. ASSUME NEW c \in Conn, ConnStep(c) PROVE ListenIInv'
    BY <1>4, ConnStepIInv
  <1> QED
    BY <1>1, <1>2, <1>3, <1>4 DEF ListenNext, ConnStep

-----------------------------------------------------------------------------
(* Theorems *)

LEMMA ListenInductive == ListenSpec => []ListenIInv
PROOF
  BY ListenInitIInv, ListenNextIInv, PTL DEF ListenSpec

\* The accept threads and the workers keep the shape of the server's state; the
\* slot counter of rt_http_listen never goes below zero.
THEOREM ListenTypeCorrect == ListenSpec => []ListenTypeOK
PROOF
  <1>1. ListenIInv => ListenTypeOK
    BY DEF ListenIInv
  <1> QED
    BY ListenInductive, <1>1, PTL

\* active_connections is exact on every path of rt_http_listen and of its workers,
\* the failures included, and max_connections is never passed.
THEOREM SlotsAreExact == ListenSpec => []SlotsExact
PROOF
  <1>1. ListenIInv => SlotsExact
    BY DEF ListenIInv
  <1> QED
    BY ListenInductive, <1>1, PTL

\* A program with one server exits before the end of its drain window only when
\* none of its workers is in the middle of a request.
THEOREM DrainIsGraceful ==
  ASSUME NEW only, Server = {only}
  PROVE  ListenSpec => []InFlightFinish
PROOF
  <1>1. ListenIInv => InFlightFinish
    <2> SUFFICES ASSUME ListenIInv, exited # None, waited[exited] < DrainTicks, NEW c \in Conn
                 PROVE  conn[c] \notin InRequest
      BY DEF InFlightFinish
    <2>1. exited \in Server /\ home[c] = exited
      BY DEF ListenIInv, ListenTypeOK
    <2>2. active[exited] = 0
      BY DEF ListenIInv, ExitedEmpty
    <2>3. Cardinality(Workers(exited)) = 0
      BY <2>1, <2>2, WorkersFinite DEF ListenIInv, SlotsExact, Counted
    <2>4. Workers(exited) = {}
      BY <2>3, WorkersFinite, FS_EmptySet
    <2> QED
      BY <2>1, <2>4 DEF Workers, Slotted
  <1> QED
    BY ListenInductive, <1>1, PTL
=============================================================================
