--------------------------- MODULE StreamTranslators ------------------------
(***************************************************************************)
(* The stream translators (internal/translate): a line of the provider's   *)
(* stream becomes canonical chunks, each chunk lines of the client's, with *)
(* a StreamState on either side.                                           *)
(*                                                                         *)
(* A line is one record for every format, its fields empty where the       *)
(* format has no place for them.  Texts and arguments are sequences of     *)
(* pieces and a call is a number; Blank, <<>> and 0 stand for an absent    *)
(* field.                                                                  *)
(***************************************************************************)
EXTENDS Naturals, SequencesExt

Blank == ""
Line == [type |-> Blank, role |-> FALSE, index |-> 0, kind |-> Blank, call |-> 0, calls |-> {},
         text |-> <<>>, thinking |-> <<>>, args |-> <<>>, finish |-> Blank, usage |-> FALSE]
Chunk == [role |-> FALSE, text |-> <<>>, thinking |-> <<>>, call |-> 0, args |-> <<>>,
          finish |-> Blank, usage |-> FALSE]

\* StreamState: "active" is Custom["activeBlockType"], "calls" are the
\* arguments gathered in ToolCalls, "call" Custom["activeToolCallID"].
NewStreamState == [active |-> Blank, finish |-> Blank, usage |-> FALSE, announced |-> FALSE,
                   index |-> 0, thinking |-> FALSE, calls |-> {}, call |-> 0]

Renamed(name, names, otherwise) == IF name \in DOMAIN names THEN names[name] ELSE otherwise

-----------------------------------------------------------------------------
(* The provider's lines to chunks.  Each format has the chunks of a line   *)
(* and the state after it.                                                 *)

\* The translator reports the line as an error and it is skipped.
Refused(f, l) == f = "claude" /\ l.type = "error"

FromStopReason == [end_turn |-> "stop", max_tokens |-> "length", tool_use |-> "tool_calls"]

\* Mutant: what a tool of the provider's own is asked is taken for the
\* arguments of a call.
ClaudeChunks_ServerTools(l, s) ==
  CASE l.type = "message_start" -> <<[Chunk EXCEPT !.role = TRUE]>>
    [] l.type = "block_start" /\ l.kind = "tool_use" -> <<[Chunk EXCEPT !.call = l.call]>>
    [] l.type = "block_delta" -> <<[Chunk EXCEPT !.text = l.text, !.thinking = l.thinking, !.args = l.args]>>
    [] l.type = "message_stop" -> <<[Chunk EXCEPT !.finish = s.finish, !.usage = s.usage]>>
    [] OTHER -> <<>>

\* The finish is held back until the message stops.
ClaudeChunks(l, s) ==
  CASE l.type = "message_start" -> <<[Chunk EXCEPT !.role = TRUE]>>
    [] l.type = "block_start" /\ l.kind = "tool_use" -> <<[Chunk EXCEPT !.call = l.call]>>
    [] l.type = "block_delta" /\ s.active # "server_tool" ->
         <<[Chunk EXCEPT !.text = l.text, !.thinking = l.thinking, !.args = l.args]>>
    [] l.type = "message_stop" -> <<[Chunk EXCEPT !.finish = s.finish, !.usage = s.usage]>>
    [] OTHER -> <<>>

ClaudeAfter(l, s) ==
  CASE l.type = "message_start" -> [s EXCEPT !.usage = @ \/ l.usage]
    [] l.type = "block_start" -> [s EXCEPT !.active = IF l.kind = "server_tool_use" THEN "server_tool" ELSE l.kind]
    [] l.type = "block_stop" -> [s EXCEPT !.active = Blank]
    [] l.type = "message_delta" ->
         [s EXCEPT !.finish = IF l.finish = Blank THEN @ ELSE Renamed(l.finish, FromStopReason, l.finish),
                   !.usage = @ \/ l.usage]
    [] OTHER -> s

\* A part of a line is a chunk if there is anything in it.
Told(chunk) == IF chunk = Chunk THEN <<>> ELSE <<chunk>>

\* The parts of one line, each a chunk of its own, in this order.
OpenAIChunks(l, s) ==
  Told([Chunk EXCEPT !.role = l.role]) \o Told([Chunk EXCEPT !.text = l.text])
    \o Told([Chunk EXCEPT !.thinking = l.thinking]) \o Told([Chunk EXCEPT !.call = l.call, !.args = l.args])
    \o Told([Chunk EXCEPT !.finish = l.finish]) \o Told([Chunk EXCEPT !.usage = l.usage])

\* Every finish but the limit's is a stop.
FromGeminiReason(reason) ==
  IF reason = Blank THEN Blank ELSE IF reason = "MAX_TOKENS" THEN "length" ELSE "stop"

HasContent(l) == l.text # <<>> \/ l.calls # {}

\* A call comes whole, in one chunk.  A line has one part at most.
GeminiChunks(l, s) ==
  LET c == CHOOSE c \in l.calls : TRUE IN
  Told([Chunk EXCEPT !.role = HasContent(l) /\ ~s.announced]) \o Told([Chunk EXCEPT !.text = l.text])
    \o (IF l.calls = {} THEN <<>> ELSE Told([Chunk EXCEPT !.call = c.call, !.args = c.args]))
    \o Told([Chunk EXCEPT !.finish = FromGeminiReason(l.finish)]) \o Told([Chunk EXCEPT !.usage = l.usage])

GeminiAfter(l, s) == [s EXCEPT !.announced = @ \/ HasContent(l)]

FromStatus == [completed |-> "stop", incomplete |-> "length", failed |-> "error", cancelled |-> "stop"]

ResponsesChunks(l, s) ==
  CASE l.type = "created" -> <<[Chunk EXCEPT !.role = TRUE]>>
    [] l.type = "output_text.delta" /\ l.text # <<>> -> <<[Chunk EXCEPT !.text = l.text]>>
    [] l.type = "completed" -> <<[Chunk EXCEPT !.finish = Renamed(l.finish, FromStatus, "stop"), !.usage = l.usage]>>
    [] l.type \in {"failed", "error"} -> <<[Chunk EXCEPT !.finish = "error"]>>
    [] OTHER -> <<>>

StreamChunkToCanonical(f, l, s) ==
  CASE f = "claude" -> ClaudeChunks(l, s)
    [] f = "openai" -> OpenAIChunks(l, s)
    [] f = "gemini" -> GeminiChunks(l, s)
    [] f = "responses" -> ResponsesChunks(l, s)

AfterLine(f, l, s) ==
  CASE f = "claude" -> ClaudeAfter(l, s) [] f = "gemini" -> GeminiAfter(l, s) [] OTHER -> s

-----------------------------------------------------------------------------
(* Chunks to the client's lines.                                           *)

StopReason == [stop |-> "end_turn", length |-> "max_tokens", tool_calls |-> "tool_use"]

BlockStart(kind, call, s) == [Line EXCEPT !.type = "block_start", !.index = s.index, !.kind = kind, !.call = call]
BlockDelta(c, s) == [Line EXCEPT !.type = "block_delta", !.index = s.index, !.thinking = c.thinking,
                                 !.text = IF c.thinking # <<>> THEN <<>> ELSE c.text,
                                 !.args = IF c.thinking # <<>> \/ c.text # <<>> THEN <<>> ELSE c.args]
BlockStop(s) == [Line EXCEPT !.type = "block_stop", !.index = s.index]
NextIndex(s) == [s EXCEPT !.index = @ + 1]
CloseActive(s) == IF s.active = Blank THEN <<>> ELSE <<BlockStop(s)>>

\* The index of the next call: an open block is closed first.
ForCall(s) == IF s.active = Blank THEN s ELSE NextIndex(s)

\* Of what a chunk has only the first of these is written.
Aspect(c) ==
  IF c.role THEN "role" ELSE IF c.thinking # <<>> THEN "thinking" ELSE IF c.text # <<>> THEN "text"
  ELSE IF c.call # 0 THEN "call" ELSE IF c.args # <<>> THEN "args" ELSE IF c.finish # Blank THEN "finish" ELSE "none"

\* An open block is closed for a call, for text only an open thought is.
ClaudeLines(c, s) ==
  CASE Aspect(c) = "role" -> <<[Line EXCEPT !.type = "message_start"]>>
    [] Aspect(c) = "thinking" -> (IF s.thinking THEN <<>> ELSE <<BlockStart("thinking", 0, s)>>) \o <<BlockDelta(c, s)>>
    [] Aspect(c) = "text" ->
         IF s.thinking THEN <<BlockStop(s), BlockStart("text", 0, NextIndex(s)), BlockDelta(c, NextIndex(s))>>
         ELSE (IF s.active = "text" THEN <<>> ELSE <<BlockStart("text", 0, s)>>) \o <<BlockDelta(c, s)>>
    [] Aspect(c) = "call" -> CloseActive(s) \o <<BlockStart("tool_use", c.call, ForCall(s))>>
    [] Aspect(c) = "args" -> <<BlockDelta(c, s)>>
    [] Aspect(c) = "finish" ->
         CloseActive(s)
           \o <<[Line EXCEPT !.type = "message_delta", !.finish = Renamed(c.finish, StopReason, "end_turn"), !.usage = c.usage],
                [Line EXCEPT !.type = "message_stop"]>>
    [] OTHER -> <<>>

ClaudeWrote(c, s) ==
  CASE Aspect(c) = "thinking" -> [s EXCEPT !.thinking = TRUE]
    [] Aspect(c) = "text" -> IF s.thinking THEN [NextIndex(s) EXCEPT !.thinking = FALSE] ELSE [s EXCEPT !.active = "text"]
    [] Aspect(c) = "call" -> [ForCall(s) EXCEPT !.active = "tool_use"]
    [] OTHER -> s

\* One line for a chunk; a call takes the next index.
OpenAILines(c, s) ==
  <<[Line EXCEPT !.role = c.role, !.text = c.text, !.thinking = c.thinking, !.call = c.call, !.args = c.args,
                 !.index = IF c.call # 0 \/ c.args # <<>> THEN s.index ELSE 0, !.finish = c.finish, !.usage = c.usage]>>
OpenAIWrote(c, s) == IF c.call # 0 THEN NextIndex(s) ELSE s

\* Calls are gathered until the finish; their order is that of a map.
GeminiWrote(c, s) ==
  IF c.finish # Blank THEN [s EXCEPT !.calls = {}]
  ELSE IF c.call # 0
       THEN [s EXCEPT !.calls = {t \in @ : t.call # c.call} \cup {[call |-> c.call, args |-> c.args]}, !.call = c.call]
       ELSE [s EXCEPT !.calls = {IF t.call = s.call THEN [t EXCEPT !.args = @ \o c.args] ELSE t : t \in @}]

ToGeminiReason(reason) ==
  IF reason = Blank THEN Blank ELSE IF reason = "length" THEN "MAX_TOKENS" ELSE "STOP"

\* A thought or a part of a call takes the content of its line away.
GeminiLines(c, s) ==
  LET silent == c.thinking # <<>> \/ c.call # 0 \/ c.args # <<>>
      l == [Line EXCEPT !.role = c.role, !.text = IF silent THEN <<>> ELSE c.text,
                        !.calls = IF c.finish = Blank THEN {} ELSE s.calls,
                        !.finish = ToGeminiReason(c.finish), !.usage = c.usage]
  IN IF l = Line THEN <<>> ELSE <<l>>

CanonicalToStreamChunk(f, c, s) ==
  CASE f = "claude" -> ClaudeLines(c, s) [] f = "openai" -> OpenAILines(c, s) [] f = "gemini" -> GeminiLines(c, s)

AfterChunk(f, c, s) ==
  CASE f = "claude" -> ClaudeWrote(c, s) [] f = "openai" -> OpenAIWrote(c, s) [] f = "gemini" -> GeminiWrote(c, s)

\* What was written, and what is written for a chunk more.
WriteChunk(f, w, c) ==
  [lines |-> w.lines \o CanonicalToStreamChunk(f, c, w.state), state |-> AfterChunk(f, c, w.state)]

\* The lines written for a sequence of chunks, and the state after them.
WriteAll(f, chunks, s) ==
  LET wrote[n \in 0 .. Len(chunks)] ==
        IF n = 0 THEN [lines |-> <<>>, state |-> s] ELSE WriteChunk(f, wrote[n - 1], chunks[n])
  IN wrote[Len(chunks)]

-----------------------------------------------------------------------------
(* How a reader of each format understands its lines.                      *)

TextIn(lines) == FlattenSeq([i \in DOMAIN lines |-> lines[i].text])
ThinkingIn(lines) == FlattenSeq([i \in DOMAIN lines |-> lines[i].thinking])
Announced(lines) == FlattenSeq([i \in DOMAIN lines |-> IF lines[i].call = 0 THEN <<>> ELSE <<lines[i].call>>])
CallsIn(f, lines) ==
  IF f = "gemini" THEN UNION {{c.call : c \in lines[i].calls} : i \in DOMAIN lines} ELSE ToSet(Announced(lines))

\* The call that line i adds arguments to: at Claude the one whose block was
\* the last to start at the line's index, at OpenAI the one of that index.
CallAt(f, lines, i) ==
  LET starts == {j \in 1 .. i : lines[j].index = lines[i].index
                                  /\ IF f = "claude" THEN lines[j].type = "block_start" ELSE lines[j].call # 0}
  IN IF starts = {} THEN 0 ELSE lines[CHOOSE j \in starts : \A k \in starts : k <= j].call
ArgumentsIn(f, lines, call) ==
  IF f = "gemini"
  THEN FlattenSeq(SetToSeq({c.args : c \in {d \in UNION {lines[i].calls : i \in DOMAIN lines} : d.call = call}}))
  ELSE FlattenSeq([i \in DOMAIN lines |-> IF CallAt(f, lines, i) = call THEN lines[i].args ELSE <<>>])

\* The reader is told that the reply was cut at its limit of tokens.
CutShort(lines) == \E i \in DOMAIN lines : lines[i].finish \in {"max_tokens", "length", "MAX_TOKENS", "incomplete"}
Finished(lines) == \E i \in DOMAIN lines : lines[i].finish # Blank \/ lines[i].type \in {"failed", "error"}
Tokens(lines) == \E i \in DOMAIN lines : lines[i].usage

=============================================================================
