----------------------------- MODULE MCExchange -----------------------------
(* Replies for TLC: the parts a model speaks in, one or two pieces each.   *)
EXTENDS Exchange

Part(kind, pieces) == [kind |-> kind, pieces |-> pieces]
Reply(parts, finish) == [parts |-> parts, finish |-> finish]

MCReplies == {
  Reply(<<Part("text", 2)>>, "stop"),
  Reply(<<Part("text", 1)>>, "length"),
  Reply(<<Part("thinking", 2), Part("text", 2)>>, "stop"),
  Reply(<<Part("text", 1), Part("call", 2)>>, "tool_calls"),
  Reply(<<Part("call", 1), Part("call", 2)>>, "tool_calls"),
  Reply(<<Part("thinking", 1), Part("call", 2), Part("text", 1)>>, "tool_calls"),
  Reply(<<Part("text", 1), Part("server", 1), Part("text", 1), Part("call", 1)>>, "tool_calls"),
  Reply(<<Part("call", 1), Part("server", 1), Part("text", 2)>>, "tool_calls")}

=============================================================================
