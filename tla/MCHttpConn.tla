------------------------------ MODULE MCHttpConn ------------------------------
(* HttpConn on scripts that reach every path of the worker. *)
EXTENDS HttpConn

Get(pad) == [head |-> <<"line">> \o pad \o <<"end">>, body |-> <<>>, waits |-> FALSE]
Post(pad, digits, n) ==
  [head |-> <<"line">> \o pad \o <<"tag">> \o digits \o <<"end">>,
   body |-> [i \in 1 .. n |-> "body"],
   waits |-> TRUE]

H1 == <<"hdr">>
H2 == <<"hdr", "hdr">>
H5 == <<"hdr", "hdr", "hdr", "hdr", "hdr">>
H6 == <<"hdr", "hdr", "hdr", "hdr", "hdr", "hdr">>

\* Clients that pipeline requests without a body, and wait with a request that
\* has a Content-Length until everything before it is answered.  A head of one cell
\* less than the buffer, of its size and of one more; a head with its body of the
\* buffer's size and of one or two cells more; a length that is none, above the cap
\* and beyond LongMax.
PlainScripts == {
  <<Get(H2), Get(<<>>), Get(H1), Get(<<>>)>>,
  <<Get(<<>>), Post(<<>>, <<"2">>, 2), Get(H1)>>,
  <<Post(H1, <<"4">>, 4), Get(<<>>), Get(H1)>>,
  <<Get(H1), Get(<<"close">>), Get(<<>>)>>,
  <<Get(<<>>), Post(<<>>, <<>>, 0)>>,
  <<Get(H1), Post(<<>>, <<"9">>, 3)>>,
  <<Get(<<>>), Post(<<>>, <<"9", "9">>, 3)>>,
  <<Get(H5), Get(<<>>)>>,
  <<Post(H1, <<"2">>, 2), Post(H2, <<"2">>, 2)>>,
  <<Get(<<>>), Get(H6)>>,
  <<Get(<<>>), [head |-> <<"hdr", "end">>, body |-> <<>>, waits |-> FALSE]>>
}

ASSUME PlainIsOrderly == \A s \in PlainScripts : Orderly(s)

\* A client that pipelines two requests with a body of one byte each.
PipelinedPosts == {
  <<Post(H1, <<"1">>, 1), [Post(<<>>, <<"1">>, 1) EXCEPT !.waits = FALSE]>>
}
=============================================================================
