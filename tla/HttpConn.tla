------------------------------- MODULE HttpConn -------------------------------
(***************************************************************************)
(* One keep-alive connection of the AOT HTTP server: handle_http_conn of   *)
(* turbo_rt.c, from the first read to the statement after conn_done.       *)
(*                                                                         *)
(* The client sends a script of requests, pipelined or one by one, and the *)
(* network cuts the resulting stream of cells anywhere.                    *)
(*                                                                         *)
(* A cell stands for a stretch of bytes that the parser treats alike:      *)
(* "line" a request line, "tag" the name of a Content-Length header, a     *)
(* digit, "hdr" any other header bytes, "close" a Connection: close        *)
(* header, "end" the empty line that ends the head,                        *)
(* "body" a byte of a body, and NUL the terminator the code appends after  *)
(* what it reads.  The buffer is modelled cell by cell, the cells beyond   *)
(* buf_len included, because strstr() stops at a NUL and not at buf_len.   *)
(*                                                                         *)
(* Routing, the query string and the wording of a response are left out:   *)
(* every request that reaches the handler is answered 200.                 *)
(***************************************************************************)
EXTENDS Integers, SequencesExt, HttpFlag

CONSTANTS
  Scripts,        \* the scripts a client may send: sequences of requests
  Cap,            \* buf_cap: cells of the read buffer, the cap on a head
  MaxBody,        \* max_body_bytes
  LongMax,        \* LLONG_MAX: strtoll has ERANGE beyond it
  KeepAliveMax    \* keepalive_max_requests

Digit == [d \in {"0", "1", "2", "3", "4", "5", "6", "7", "8", "9"} |->
            CASE d = "0" -> 0 [] d = "1" -> 1 [] d = "2" -> 2 [] d = "3" -> 3
              [] d = "4" -> 4 [] d = "5" -> 5 [] d = "6" -> 6 [] d = "7" -> 7
              [] d = "8" -> 8 [] d = "9" -> 9]
Cell == {"line", "tag", "hdr", "close", "end", "body", "NUL"} \cup DOMAIN Digit

\* A request as its client means it: the cells of its head, the last of which
\* is "end", and those of its body.  In a script it also says whether it waits
\* for the answers to all earlier ones or is pipelined behind them.
Request == [head : Seq(Cell), body : Seq(Cell)]

ASSUME ConfigAssumption ==
  /\ Cap \in Nat \ {0} /\ MaxBody \in Nat /\ LongMax \in Nat /\ KeepAliveMax \in Nat \ {0}

\* What clients send holds no NUL, the terminator the worker adds.
Data == Cell \ {"NUL"}
ASSUME ScriptAssumption ==
  \A s \in Scripts : s \in Seq([head : Seq(Data), body : Seq(Data), waits : BOOLEAN])

VARIABLES     \* and shutdown, from HttpFlag
  script,     \* the requests the client sends
  sent,       \* how many of them it has sent
  unread,     \* the cells on the wire: sent and not read
  mem,        \* the read buffer: cells 0 .. Cap
  buf_len,    \* how many of them hold data
  pc,         \* where the worker is
  served,     \* requests_served
  arena,      \* is a per-request arena installed on this thread?
  heap,       \* heap_body: the body cells read so far, or NoBody
  request,    \* the request handed to the handler
  keep,       \* keep_alive, as advertised in the current response
  answers,    \* the responses written, in order
  earlier     \* history: how many answers there were when it was set

vars == <<script, sent, unread, mem, buf_len, pc, served, arena, heap, request, keep,
          answers, shutdown, earlier>>

NoBody == <<"NUL">>
NoRequest == [head |-> <<>>, body |-> <<>>]

-----------------------------------------------------------------------------
(* Parsing *)

\* strtoll over a run of digits.
Number(digits) == FoldLeft(LAMBDA n, d : 10 * n + Digit[d], 0, digits)

\* The digits right after position i of a sequence of cells.
DigitsAfter(cells, i) ==
  LET last == CHOOSE j \in i .. Len(cells) :
                /\ \A k \in i + 1 .. j : cells[k] \in DOMAIN Digit
                /\ j = Len(cells) \/ cells[j + 1] \notin DOMAIN Digit
  IN  SubSeq(cells, i + 1, last)

\* What a head says of its body: 0 without a Content-Length, -1 when the value
\* of the first one is not a number or overflows.
Declared(head) ==
  LET tags == {i \in 1 .. Len(head) : head[i] = "tag"}
      first == CHOOSE i \in tags : \A j \in tags : i <= j
      digits == DigitsAfter(head, first)
  IN  IF tags = {} THEN 0
      ELSE IF digits = <<>> \/ Number(digits) > LongMax THEN -1
      ELSE Number(digits)

WantsClose(head) == \E i \in 1 .. Len(head) : head[i] = "close"

\* strstr(buf, "\r\n\r\n"): the position of the first "end", if no NUL comes before.
Ends == {i \in 0 .. Cap : mem[i] = "end" /\ \A j \in 0 .. i - 1 : mem[j] \notin {"NUL", "end"}}
HasHead == Ends # {}
BodyStart == 1 + CHOOSE i \in Ends : TRUE
Cells(from, count) == [i \in 1 .. count |-> mem[from + i - 1]]
TheHead == Cells(0, BodyStart)
ContentLength == Declared(TheHead)
BodyAvailable == buf_len - BodyStart

-----------------------------------------------------------------------------

\* malloc leaves the buffer uninitialised; nothing reads it before a read()
\* has put data and a NUL there, so its cells start as NULs.
Init ==
  /\ script \in Scripts
  /\ sent = 0
  /\ unread = <<>>
  /\ mem = [i \in 0 .. Cap |-> "NUL"]
  /\ buf_len = 0
  /\ pc = "top"
  /\ served = 0
  /\ arena = FALSE
  /\ heap = NoBody
  /\ request = NoRequest
  /\ keep = TRUE
  /\ answers = <<>>
  /\ shutdown = FALSE
  /\ earlier = 0

client == <<script, sent, shutdown, earlier>>
buffer == <<mem, buf_len>>
handling == <<served, request, keep>>

Answer(status, r, last) ==
  answers' = Append(answers, [status |-> status, request |-> r, last |-> last])

\* The client sends its next request.
Send ==
  /\ sent < Len(script)
  /\ LET r == script[sent + 1]
     IN  /\ r.waits => Len(answers) = sent
         /\ unread' = unread \o r.head \o r.body
  /\ sent' = sent + 1
  /\ UNCHANGED <<script, shutdown, earlier, buffer, pc, arena, heap, handling,
                 answers>>

\* The SIGTERM handler, on the accept thread.
Shutdown ==
  /\ ~ shutdown
  /\ pc # "closed"
  /\ shutdown' = TRUE
  /\ earlier' = Len(answers)
  /\ UNCHANGED <<script, sent, unread, buffer, pc, arena, heap, handling, answers>>

-----------------------------------------------------------------------------
(* Mutants: none is part of the specification. *)

\* The bytes of the body stay in the buffer.
ConsumeForgetsBody(n) ==
  /\ mem' = [i \in 0 .. Cap |->
               IF i < buf_len - BodyStart THEN mem[i + BodyStart] ELSE mem[i]]
  /\ buf_len' = buf_len - BodyStart

\* The loop goes back to read more with the arena still installed.
NeedMoreKeepsArena ==
  /\ pc = "parse"
  /\ HasHead /\ mem[0] = "line"
  /\ ContentLength \in 0 .. MaxBody
  /\ BodyAvailable < ContentLength
  /\ BodyStart + ContentLength <= Cap
  /\ pc' = "top"
  /\ UNCHANGED <<client, unread, buffer, arena, heap, handling, answers>>

\* The head is parsed again without reading anything more.
NeedMoreSpins ==
  /\ pc = "parse"
  /\ HasHead /\ mem[0] = "line"
  /\ ContentLength \in 0 .. MaxBody
  /\ BodyAvailable < ContentLength
  /\ BodyStart + ContentLength <= Cap
  /\ pc' = "process"
  /\ arena' = FALSE
  /\ UNCHANGED <<client, unread, buffer, heap, handling, answers>>

\* requests_served > keepalive_max
LastRequestOffByOne(head) ==
  WantsClose(head) \/ served + 1 > KeepAliveMax \/ shutdown

\* A pipelined request is served after the last one.
GoOnAfterLast(more) ==
  IF more THEN "process" ELSE IF ~ keep THEN "done" ELSE "top"

-----------------------------------------------------------------------------
(* The read loop *)

\* Nothing buffered and the server is shutting down: break.
TopShutdown ==
  /\ pc = "top"
  /\ shutdown /\ buf_len = 0
  /\ pc' = "done"
  /\ UNCHANGED <<client, unread, buffer, arena, heap, handling, answers>>

\* Otherwise block in read().  The flag may be set while the worker waits.
TopWait ==
  /\ pc = "top"
  /\ ~ (shutdown /\ buf_len = 0)
  /\ pc' = "read"
  /\ UNCHANGED <<client, unread, buffer, arena, heap, handling, answers>>

\* read() returns some of what has arrived, as much as there is room for, and
\* the code appends a NUL.  (The buffer is never full here: the 431 for that is
\* not reached, and a read of no bytes would be a deadlock.)
Read ==
  /\ pc = "read"
  /\ \E n \in 1 .. Min({Cap - buf_len, Len(unread)}) :
       /\ mem' = [i \in 0 .. Cap |->
                    IF i \in buf_len .. buf_len + n - 1
                      THEN unread[i - buf_len + 1]
                      ELSE IF i = buf_len + n THEN "NUL" ELSE mem[i]]
       /\ buf_len' = buf_len + n
       /\ unread' = SubSeq(unread, n + 1, Len(unread))
  /\ pc' = "process"
  /\ UNCHANGED <<client, arena, heap, handling, answers>>

\* The peer has closed, or the socket timed out: read() <= 0.
ReadEnd ==
  /\ pc = "read"
  /\ pc' = "done"
  /\ UNCHANGED <<client, unread, buffer, arena, heap, handling, answers>>

\* process_request: install an arena.
ArenaBegin ==
  /\ pc = "process"
  /\ pc' = "parse"
  /\ arena' = TRUE
  /\ UNCHANGED <<client, unread, buffer, heap, handling, answers>>

-----------------------------------------------------------------------------
(* process_request *)

\* No end of head yet: read more, or 431 when the buffer is full.
NoHead ==
  /\ pc = "parse"
  /\ ~ HasHead
  /\ arena' = FALSE
  /\ IF buf_len >= Cap
       THEN pc' = "done" /\ Answer(431, NoRequest, TRUE)
       ELSE pc' = "top" /\ answers' = answers
  /\ UNCHANGED <<client, unread, buffer, heap, handling>>

\* The buffer does not start with a request line: 400, and the arena is left
\* to conn_done.
BadLine ==
  /\ pc = "parse"
  /\ HasHead /\ mem[0] # "line"
  /\ Answer(400, NoRequest, TRUE)
  /\ pc' = "done"
  /\ UNCHANGED <<client, unread, buffer, arena, heap, handling>>

\* A Content-Length that is not a number or overflows is 400, one above the cap 413.
BadLength ==
  /\ pc = "parse"
  /\ HasHead /\ mem[0] = "line"
  /\ \/ ContentLength < 0 /\ Answer(400, NoRequest, TRUE)
     \/ ContentLength > MaxBody /\ Answer(413, NoRequest, TRUE)
  /\ pc' = "done"
  /\ arena' = FALSE
  /\ UNCHANGED <<client, unread, buffer, heap, handling>>

GoodHead == HasHead /\ mem[0] = "line" /\ ContentLength \in 0 .. MaxBody

\* The body is not all there, and fits in the buffer: read more.
NeedMore ==
  /\ pc = "parse"
  /\ GoodHead
  /\ BodyAvailable < ContentLength
  /\ BodyStart + ContentLength <= Cap
  /\ pc' = "top"
  /\ arena' = FALSE
  /\ UNCHANGED <<client, unread, buffer, heap, handling, answers>>

\* The body does not fit in the buffer: what is there of it moves to the heap.
HeapBody ==
  /\ pc = "parse"
  /\ GoodHead
  /\ BodyAvailable < ContentLength
  /\ BodyStart + ContentLength > Cap
  /\ heap' = Cells(BodyStart, Max({BodyAvailable, 0}))
  /\ pc' = "heap"
  /\ UNCHANGED <<client, unread, buffer, arena, handling, answers>>

\* malloc fails: 500.
HeapBodyFail ==
  /\ pc = "parse"
  /\ GoodHead
  /\ BodyAvailable < ContentLength
  /\ BodyStart + ContentLength > Cap
  /\ Answer(500, NoRequest, TRUE)
  /\ pc' = "done"
  /\ arena' = FALSE
  /\ UNCHANGED <<client, unread, buffer, heap, handling>>

\* The rest of a heap body is read straight off the socket, never further.
HeapRead ==
  /\ pc = "heap"
  /\ \E n \in 1 .. Min({ContentLength - Len(heap), Len(unread)}) :
       /\ heap' = heap \o SubSeq(unread, 1, n)
       /\ unread' = SubSeq(unread, n + 1, Len(unread))
  /\ UNCHANGED <<client, buffer, pc, arena, handling, answers>>

HeapReadFail ==
  /\ pc = "heap"
  /\ Len(heap) < ContentLength
  /\ heap' = NoBody
  /\ pc' = "done"
  /\ arena' = FALSE
  /\ UNCHANGED <<client, unread, buffer, handling, answers>>

\* Is this the last response on the connection?
LastRequest(head) ==
  WantsClose(head) \/ served + 1 >= KeepAliveMax \/ shutdown

\* The request is complete: count it, settle keep_alive, call the handler.
Dispatch ==
  /\ \/ pc = "parse" /\ GoodHead /\ BodyAvailable >= ContentLength
     \/ pc = "heap" /\ Len(heap) = ContentLength
  /\ request' = [head |-> TheHead,
                 body |-> IF pc = "heap" THEN heap
                          ELSE Cells(BodyStart, ContentLength)]
  /\ served' = served + 1
  /\ keep' = ~ LastRequest(TheHead)
  /\ pc' = "handle"
  /\ UNCHANGED <<client, unread, buffer, arena, heap, answers>>

\* The n cells of the request leave the buffer: the rest moves to the front,
\* with no NUL after it.
Consume(n) ==
  /\ mem' = [i \in 0 .. Cap |->
               IF i < buf_len - n THEN mem[i + n] ELSE mem[i]]
  /\ buf_len' = buf_len - n

\* Where the worker goes on after a response.
GoOn(more) ==
  IF ~ keep THEN "done" ELSE IF more THEN "process" ELSE "top"

\* The response is written whole.
Respond ==
  /\ pc = "handle"
  /\ Answer(200, request, ~ keep)
  /\ IF heap = NoBody
       THEN Consume(BodyStart + ContentLength)
       ELSE buf_len' = 0 /\ mem' = mem
  /\ heap' = NoBody
  /\ request' = NoRequest
  /\ arena' = FALSE
  /\ pc' = GoOn(buf_len' > 0 /\ Ends' # {})
  /\ UNCHANGED <<client, unread, served, keep>>

\* The response cannot be written: the connection is dropped.
RespondFail ==
  /\ pc = "handle"
  /\ heap' = NoBody
  /\ request' = NoRequest
  /\ pc' = "done"
  /\ UNCHANGED <<client, unread, buffer, arena, served, keep, answers>>

\* conn_done: end the arena, free the buffer, close, give the slot back.
ConnDone ==
  /\ pc = "done"
  /\ pc' = "closed"
  /\ arena' = FALSE
  /\ UNCHANGED <<client, unread, buffer, heap, handling, answers>>

-----------------------------------------------------------------------------

Worker ==
  \/ TopShutdown \/ TopWait \/ Read \/ ReadEnd \/ ArenaBegin
  \/ NoHead \/ BadLine \/ BadLength \/ NeedMore
  \/ HeapBody \/ HeapBodyFail \/ HeapRead \/ HeapReadFail
  \/ Dispatch \/ Respond \/ RespondFail \/ ConnDone

Next == Worker \/ Send \/ Shutdown

Spec == Init /\ [][Next]_vars

\* The worker runs on; a read returns because the socket has a timeout, and
\* the handler is assumed to return.
FairSpec == Spec /\ WF_vars(Worker)

-----------------------------------------------------------------------------
(* Properties *)

TypeOK ==
  /\ script \in Scripts
  /\ sent \in 0 .. Len(script)
  /\ unread \in Seq(Cell)
  /\ mem \in [0 .. Cap -> Cell]
  /\ buf_len \in 0 .. Cap
  /\ pc \in {"top", "read", "process", "parse", "heap", "handle", "done", "closed"}
  /\ served \in 0 .. KeepAliveMax
  /\ arena \in BOOLEAN
  /\ heap \in Seq(Cell) /\ (Len(heap) <= MaxBody \/ heap = NoBody)
  /\ request \in Request
  /\ keep \in BOOLEAN
  /\ shutdown \in BOOLEAN

\* The answer a request deserves, whatever the network does to the stream.
Deserved(r) ==
  IF Len(r.head) > Cap THEN 431
  ELSE IF r.head[1] # "line" \/ Declared(r.head) < 0 THEN 400
  ELSE IF Declared(r.head) > MaxBody THEN 413
  ELSE 200

\* A request as clients mean it: its head ends at its only "end", has at most one
\* Content-Length, and says how long the body is that follows.
WellFormed(r) ==
  /\ r.head # <<>>
  /\ \A i \in 1 .. Len(r.head) : r.head[i] = "end" <=> i = Len(r.head)
  /\ \A i, j \in 1 .. Len(r.head) : r.head[i] = "tag" /\ r.head[j] = "tag" => i = j
  /\ \A i \in 1 .. Len(r.body) : r.body[i] = "body"
  /\ Declared(r.head) \in Int
  /\ Declared(r.head) \in 0 .. MaxBody => Len(r.body) = Declared(r.head)
  /\ Len(r.head) > Cap => r.head[1] = "line"

\* A request with a Content-Length waits until everything before it is answered.
Polite(r) == (\E i \in 1 .. Len(r.head) : r.head[i] = "tag") => r.waits

Orderly(s) == \A i \in 1 .. Len(s) : WellFormed(s[i]) /\ Polite(s[i])

\* Framing: the i-th answer is the one the i-th request deserves, and a
\* handler is called with exactly the head and the body its client sent,
\* however the stream was cut and however many requests were pipelined.  Only
\* the server's own lack of memory (500) is not the client's doing.
AnsweredAsSent ==
  \A i \in 1 .. Len(answers) :
    /\ i <= sent
    /\ \/ answers[i].status = 500
       \/ /\ answers[i].status = Deserved(script[i])
          /\ answers[i].status = 200 =>
               /\ answers[i].request.head = script[i].head
               /\ answers[i].request.body = script[i].body

\* An answer that announced the end of the connection is the last, no
\* connection serves more than keepalive_max_requests requests, and once the
\* shutdown flag is set at most two more are answered, the one being handled
\* and one more, however many have arrived.
CloseKept ==
  /\ \A i \in 1 .. Len(answers) : answers[i].last => i = Len(answers)
  /\ Len(answers) <= KeepAliveMax
  /\ shutdown => Len(answers) <= earlier + 2
  /\ answers # <<>> /\ Last(answers).last => pc \in {"done", "closed"}

\* One arena per request, and none left behind: it is installed only while a
\* request is parsed and handled, is gone whenever the worker waits for the
\* next request, and with the body's memory when the worker ends.
ArenaPaired ==
  /\ arena => pc \in {"parse", "heap", "handle", "done"}
  /\ pc \in {"parse", "heap", "handle"} => arena
  /\ heap # NoBody => pc \in {"heap", "handle"}

\* The worker always ends and gives its slot back: no client makes it go over
\* the same bytes for ever.
ConnEnds == <>(pc = "closed")
=============================================================================
