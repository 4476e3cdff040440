--------------------------- MODULE MCTranslation ----------------------------
(***************************************************************************)
(* Conversations for TLC: a question, possibly after a greeting of the     *)
(* assistant, an answer that may think and call up to two tools, the       *)
(* tools' answers, possibly with a remark, and what the assistant or the   *)
(* user says to them.                                                      *)
(***************************************************************************)
EXTENDS Translation

User(kinds) == [role |-> "user", kinds |-> kinds]
Assistant(kinds) == [role |-> "assistant", kinds |-> kinds]

Greetings == {<<>>, <<Assistant(<<"text">>)>>}
Questions == {User(<<"text">>), User(<<"text", "image">>), User(<<"imageurl", "text">>), User(<<"image", "image">>)}
Replies == {Assistant(k) : k \in {<<"text">>, <<"thinking", "text">>, <<"text", "text">>, <<>>}}
Calls == {Assistant(k) : k \in {<<"call">>, <<"text", "call">>, <<"thinking", "text", "call">>, <<"call", "call">>}}
Answers(call) ==
  LET results == [i \in DOMAIN CallsOf(call.kinds) |-> "result"]
  IN {User(results), User(results \o <<"text">>)}

MCConversations ==
  {g \o <<q>> : g \in Greetings, q \in Questions}
    \cup {<<q, User(<<"text">>)>> : q \in Questions}
    \cup {g \o <<q, r, User(<<"text">>)>> : g \in Greetings, q \in Questions, r \in Replies}
    \cup UNION {{<<q, c, a>> \o end : q \in Questions, a \in Answers(c), end \in {<<>>, <<Assistant(<<"text">>), User(<<"text">>)>>}} : c \in Calls}

=============================================================================
