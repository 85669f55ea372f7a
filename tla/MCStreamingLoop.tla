--------------------------- MODULE MCStreamingLoop ---------------------------
(* Answers with and without calls, of a free tool, a guarded one and one nobody has, that     *)
(* end as they should or are cut off, between blocks or within a call.                          *)
EXTENDS StreamingLoop

SomeAnswers ==
  LET A(blocks, stop) == [blocks |-> blocks, stop |-> stop, lastPieces |-> 2]
      Cut(blocks, pieces) == [blocks |-> blocks, stop |-> "max_tokens", lastPieces |-> pieces]
  IN {A(<<"text">>, "end_turn"), A(<<"Bash">>, "tool_use"), Cut(<<"Bash">>, 0),
      A(<<"text", "Read", "Bash">>, "tool_use"), A(<<"Read", "text", "nosuch">>, "tool_use"),
      A(<<"text", "Read", "text">>, "max_tokens"), Cut(<<"Read", "Bash">>, 1), Cut(<<"Read">>, 2)}
=============================================================================
