---------------------------- MODULE MCAgentMemory ----------------------------
(* Small instances of AgentMemory. *)
EXTENDS AgentMemory

CONSTANTS c1, c2, u, v

\* Others is the filter of the library, on short queues.
ASSUME \A q \in UNION {[1 .. n -> Calls] : n \in 0 .. 3}, c \in Convs :
         Others(q, c) = SelectSeq(q, LAMBDA p : p[1] # c)

Edit(p, x, b) == [path |-> p, value |-> x, persist |-> b]

Named == {<<"a">>, <<"b">>, <<"b", "a">>, LogPath}

\* A note, one beneath it, one in its place and a twin, one kept to the
\* conversation, and one on the log.
Messages ==
  {<<Edit(<<"a">>, u, TRUE)>>,
   <<Edit(<<"a">>, v, TRUE), Edit(<<"b">>, u, TRUE)>>,
   <<Edit(<<"b", "a">>, u, TRUE), Edit(<<"b">>, v, TRUE)>>,
   <<Edit(<<"b">>, u, FALSE), Edit(<<"b", "a">>, v, TRUE)>>,
   <<Edit(LogPath, u, TRUE)>>}

=============================================================================
