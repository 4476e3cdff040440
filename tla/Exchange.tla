------------------------------ MODULE Exchange ------------------------------
(***************************************************************************)
(* One request from the moment a connection was chosen for it to the last  *)
(* byte of the answer: executeRequest's loop over connections, the retries *)
(* of RetryExecutor inside it, and forwardResult with its stream.          *)
(*                                                                         *)
(* Which connection is next, and what its breaker makes of an outcome, is  *)
(* RequestPath's matter; a body of an answer is held here by the           *)
(* connection and the attempt it came from.                                *)
(***************************************************************************)
EXTENDS StreamTranslators, FiniteSets

CONSTANTS
  Connections, \* the connections of the request's provider
  MaxRetries,  \* RetryConfig.MaxRetries
  Replies      \* what a provider may answer: its parts and why it ends

ASSUME ExchangeAssumption == MaxRetries \in Nat /\ Connections # {}

\* A reply has any parts, each in any number of pieces.
ASSUME RepliesAssumption ==
  \A reply \in Replies :
    /\ reply.parts \in Seq([kind : {"text", "thinking", "call", "server"}, pieces : Nat])
    /\ reply.finish \in {"stop", "length", "tool_calls"}

VARIABLES
  source,    \* the client's format
  stream,    \* the client asked for a stream
  formatOf,  \* the wire format of each connection's variant
  written,   \* the format the body was written in
  step,      \* where the request stands
  conn, excluded,
  attempt,   \* of the executor, from 0
  last,      \* lastResult, NoResult if no attempt brought an answer
  result,
  open,      \* the bodies not yet closed
  contexts,  \* the connections whose upstream context is not cancelled
  gone,      \* the client has left, or the attempt's five minutes are over
  coming,    \* the lines of the answer not yet read
  said, sent,
  upstreamState, clientState,
  totalUsage,
  rows,      \* the usage rows written
  learned    \* postRequestHook has run

request == <<source, stream, formatOf, written>>
loop == <<conn, excluded, attempt, last, result>>
bodies == <<open, contexts>>
answer == <<coming, said, sent, upstreamState, clientState, totalUsage>>
books == <<rows, learned>>
vars == <<request, step, loop, bodies, gone, answer, books>>

NoResult == [status |-> 0, body |-> <<>>]
Retryable == 503   \* stands for 429, 500, 502, 503 and 504
Refusal == 400     \* for every other status of an error
Done == [Line EXCEPT !.type = "[DONE]"]
Truncated == [Line EXCEPT !.type = "upstream stream truncated"]
BadGateway == [Line EXCEPT !.type = "failed to read upstream response"]
ErrorBody == [Line EXCEPT !.type = "error body"]

-----------------------------------------------------------------------------
(* The providers, as their APIs answer.                                    *)

Pieces(reply, i) == [k \in 1 .. reply.parts[i].pieces |-> <<i, k>>]
NumberOf(reply, kind, i) == Cardinality({j \in 1 .. i - 1 : reply.parts[j].kind = kind})
Each(f(_), pieces) == [k \in DOMAIN pieces |-> f(pieces[k])]

ClaudeKind(kind) ==
  CASE kind = "call" -> "tool_use" [] kind = "server" -> "server_tool_use" [] OTHER -> kind
ClaudeDelta(i, kind, p) ==
  [Line EXCEPT !.type = "block_delta", !.index = i - 1,
               !.text = IF kind = "text" THEN <<p>> ELSE <<>>,
               !.thinking = IF kind = "thinking" THEN <<p>> ELSE <<>>,
               !.args = IF kind \in {"tool_use", "server_tool_use"} THEN <<p>> ELSE <<>>]
ClaudeBlock(reply, i) ==
  LET kind == ClaudeKind(reply.parts[i].kind)
  IN <<[Line EXCEPT !.type = "block_start", !.index = i - 1, !.kind = kind,
                    !.call = IF kind = "tool_use" THEN i ELSE 0]>>
       \o Each(LAMBDA p : ClaudeDelta(i, kind, p), Pieces(reply, i))
       \o <<[Line EXCEPT !.type = "block_stop", !.index = i - 1]>>
ClaudeSays(reply) ==
  <<[Line EXCEPT !.type = "message_start"]>> \o FlattenSeq([i \in DOMAIN reply.parts |-> ClaudeBlock(reply, i)])
    \o <<[Line EXCEPT !.type = "message_delta", !.finish = StopReason[reply.finish], !.usage = TRUE],
         [Line EXCEPT !.type = "message_stop"]>>

\* The id of a call comes before its arguments.
OpenAIPart(reply, i) ==
  LET kind == reply.parts[i].kind
      at == NumberOf(reply, "call", i)
  IN CASE kind = "text" -> Each(LAMBDA p : [Line EXCEPT !.text = <<p>>], Pieces(reply, i))
       [] kind = "thinking" -> Each(LAMBDA p : [Line EXCEPT !.thinking = <<p>>], Pieces(reply, i))
       [] kind = "call" -> <<[Line EXCEPT !.index = at, !.call = i]>>
                             \o Each(LAMBDA p : [Line EXCEPT !.index = at, !.args = <<p>>], Pieces(reply, i))
OpenAISays(reply) ==
  <<[Line EXCEPT !.role = TRUE]>> \o FlattenSeq([i \in DOMAIN reply.parts |-> OpenAIPart(reply, i)])
    \o <<[Line EXCEPT !.finish = reply.finish], [Line EXCEPT !.usage = TRUE], Done>>

GeminiPart(reply, i) ==
  IF reply.parts[i].kind = "text" THEN Each(LAMBDA p : [Line EXCEPT !.text = <<p>>], Pieces(reply, i))
  ELSE <<[Line EXCEPT !.calls = {[call |-> i, args |-> Pieces(reply, i)]}]>>
GeminiSays(reply) ==
  FlattenSeq([i \in DOMAIN reply.parts |-> GeminiPart(reply, i)])
    \o <<[Line EXCEPT !.finish = ToGeminiReason(reply.finish), !.usage = TRUE]>>

\* The calls are in events the translator does not know.
ResponsesPart(reply, i) ==
  IF reply.parts[i].kind = "text"
  THEN Each(LAMBDA p : [Line EXCEPT !.type = "output_text.delta", !.text = <<p>>], Pieces(reply, i))
  ELSE <<[Line EXCEPT !.type = "output_item.added"]>>
ResponsesSays(reply) ==
  <<[Line EXCEPT !.type = "created"]>> \o FlattenSeq([i \in DOMAIN reply.parts |-> ResponsesPart(reply, i)])
    \o <<[Line EXCEPT !.type = "completed", !.usage = TRUE,
                      !.finish = IF reply.finish = "length" THEN "incomplete" ELSE "completed"]>>

CanSay(f) ==
  CASE f = "claude" -> {"text", "thinking", "call", "server"} [] f = "openai" -> {"text", "thinking", "call"}
    [] OTHER -> {"text", "call"}
Says(f, reply) ==
  CASE f = "claude" -> ClaudeSays(reply) [] f = "openai" -> OpenAISays(reply)
    [] f = "gemini" -> GeminiSays(reply) [] f = "responses" -> ResponsesSays(reply)

\* One provider's connections speak one format, but those of openai with a
\* subscription speak that of the responses.
Variants == [Connections -> {"claude"}] \cup [Connections -> {"gemini"}] \cup [Connections -> {"openai", "responses"}]

Init ==
  /\ source \in {"claude", "openai", "gemini"} /\ stream \in BOOLEAN
  /\ formatOf \in Variants
  /\ conn \in Connections /\ written = formatOf[conn]
  /\ step = "connect" /\ excluded = {} /\ attempt = 0 /\ last = NoResult /\ result = NoResult
  /\ open = {} /\ contexts = {} /\ gone = FALSE
  /\ coming = <<>> /\ said = <<>> /\ sent = <<>>
  /\ upstreamState = NewStreamState /\ clientState = NewStreamState /\ totalUsage = FALSE
  /\ rows = <<>> /\ learned = FALSE

-----------------------------------------------------------------------------
(* executeRequest.                                                         *)

\* The next connection is selected; with none left the error, or the last
\* answer, is the caller's.
Advance(otherwise) ==
  /\ excluded' = excluded \cup {conn}
  /\ \/ \E next \in Connections \ excluded' : conn' = next /\ step' = "connect"
     \/ conn' = conn /\ step' = otherwise

\* The head of the loop: the client may have left, the credentials may be
\* missing (preflight).
Connect ==
  /\ step = "connect"
  /\ \/ gone /\ step' = "over" /\ UNCHANGED <<loop, contexts>>
     \/ ~gone /\ Advance("over") /\ UNCHANGED <<attempt, last, result, contexts>>
     \/ /\ ~gone /\ step' = "execute"
        /\ attempt' = 0 /\ last' = NoResult /\ result' = NoResult
        /\ contexts' = contexts \cup {conn}
        /\ UNCHANGED <<conn, excluded>>
  /\ UNCHANGED <<request, open, gone, answer, books>>

\* A body in the wrong format is refused.
Statuses == IF formatOf[conn] = written THEN {200, Retryable, Refusal} ELSE {Retryable, Refusal}

MayRetry == attempt < MaxRetries

\* RetryExecutor.Execute after its last attempt.
GiveUp(kept) ==
  IF kept = NoResult THEN step' = "failed" /\ result' = NoResult
                     ELSE step' = "answered" /\ result' = kept

\* One attempt of the executor, and what RetryExecutor makes of it.
Attempt ==
  /\ step = "execute"
  /\ \/ /\ last' = last
        /\ IF MayRetry THEN step' = "backoff" /\ UNCHANGED result ELSE GiveUp(last)
        /\ UNCHANGED open
     \/ /\ ~gone
        /\ \E status \in Statuses :
             LET answered == [status |-> status, body |-> <<conn, attempt>>] IN
             IF status = Retryable
             THEN /\ last' = answered /\ UNCHANGED open
                  /\ IF MayRetry THEN step' = "backoff" /\ UNCHANGED result ELSE GiveUp(answered)
             ELSE /\ open' = open \cup {answered.body}
                  /\ step' = "answered" /\ result' = answered /\ UNCHANGED last
  /\ UNCHANGED <<request, conn, excluded, attempt, contexts, gone, answer, books>>

\* The wait before a retry, which the end of the context cuts short.
Backoff ==
  /\ step = "backoff"
  /\ IF gone THEN step' = "failed" /\ result' = NoResult /\ UNCHANGED attempt
             ELSE step' = "execute" /\ attempt' = attempt + 1 /\ UNCHANGED result
  /\ UNCHANGED <<request, conn, excluded, last, bodies, gone, answer, books>>

\* A transport error.
Failed ==
  /\ step = "failed"
  /\ contexts' = contexts \ {conn}
  /\ Advance("over")
  /\ UNCHANGED <<request, attempt, last, result, open, gone, answer, books>>

\* Mutant: the answer of an error is read but not closed.
Drained_Open(body) == open

\* The body is read and closed, and its context cancelled.
Drained(body) == open \ {body}

\* The status of an error: on to the next connection, or to the client
\* with the body, read before, in memory.
Rejected ==
  /\ step = "answered" /\ result.status # 200
  /\ open' = Drained(result.body) /\ contexts' = contexts \ {conn}
  /\ IF result.status = Retryable THEN Advance("error") ELSE step' = "error" /\ UNCHANGED <<conn, excluded>>
  /\ UNCHANGED <<request, attempt, last, result, gone, answer, books>>

\* A success: the stream is to be read with its context alive.
Served ==
  /\ step = "answered" /\ result.status = 200
  /\ \E reply \in Replies :
       /\ \A i \in DOMAIN reply.parts : reply.parts[i].kind \in CanSay(formatOf[conn])
       /\ coming' = Says(formatOf[conn], reply)
  /\ step' = IF stream THEN "stream" ELSE "whole"
  /\ UNCHANGED <<request, loop, bodies, gone, said, sent, upstreamState, clientState, totalUsage, books>>

-----------------------------------------------------------------------------
(* forwardResult.                                                          *)

target == formatOf[conn]

\* forwardResult closes the body, and with it the context.
Release == open' = open \ {result.body} /\ contexts' = contexts \ {conn}

Record(status, usage) == rows' = Append(rows, [status |-> status, usage |-> usage])

ForwardError ==
  /\ step = "error"
  /\ sent' = <<ErrorBody>> /\ step' = "over"
  /\ UNCHANGED <<request, loop, bodies, gone, coming, said, upstreamState, clientState, totalUsage, books>>

\* One line of the stream.
ReadLine ==
  /\ step = "stream" /\ coming \notin {<<>>, <<Done>>}
  /\ LET l == Head(coming)
         chunks == StreamChunkToCanonical(target, l, upstreamState)
         out == WriteAll(source, chunks, clientState)
     IN /\ coming' = Tail(coming) /\ said' = Append(said, l)
        /\ IF source = target
           THEN sent' = Append(sent, l) /\ UNCHANGED <<upstreamState, clientState, totalUsage>>
           ELSE IF Refused(target, l) THEN UNCHANGED <<sent, upstreamState, clientState, totalUsage>>
           ELSE /\ upstreamState' = AfterLine(target, l, upstreamState)
                /\ sent' = sent \o out.lines /\ clientState' = out.state
                /\ totalUsage' = (totalUsage \/ \E i \in DOMAIN chunks : chunks[i].usage)
  /\ UNCHANGED <<request, step, loop, bodies, gone, books>>

\* The provider fails in the middle and says so.
FailsAloud ==
  /\ step = "stream" /\ target \in {"claude", "responses"} /\ Len(coming) > 1
  /\ coming' = <<[Line EXCEPT !.type = "error"]>>
  /\ UNCHANGED <<request, step, loop, bodies, gone, said, sent, upstreamState, clientState, totalUsage, books>>

\* "[DONE]" or the end of the body.
Ends ==
  /\ step = "stream" /\ coming \in {<<>>, <<Done>>}
  /\ sent' = Append(sent, Done)
  /\ Record("success", totalUsage) /\ learned' = TRUE
  /\ Release /\ step' = "over"
  /\ UNCHANGED <<request, loop, gone, coming, said, upstreamState, clientState, totalUsage>>

\* Mutant: the end of a broken stream is taken for its end.
AfterBreak_Done == /\ sent' = Append(sent, Done) /\ Record("success", totalUsage) /\ learned' = TRUE

AfterBreak == /\ sent' = Append(sent, Truncated) /\ Record("error", totalUsage) /\ UNCHANGED learned

\* The connection breaks, a line is too long, or the context has ended.
Breaks ==
  /\ step = "stream"
  /\ AfterBreak
  /\ Release /\ step' = "over"
  /\ UNCHANGED <<request, loop, gone, coming, said, upstreamState, clientState, totalUsage>>

\* translateResponseBody has three conversions, which keep the text;
\* everything else passes unchanged.
Converted(from, to) == <<from, to>> \in {<<"claude", "openai">>, <<"openai", "claude">>, <<"responses", "openai">>}

\* extractResponseUsage finds tokens under OpenAI's names only.
ForwardWhole ==
  /\ step = "whole"
  /\ \/ /\ ~gone /\ said' = coming /\ coming' = <<>>
        /\ sent' = IF Converted(target, source) THEN <<[Line EXCEPT !.text = TextIn(coming), !.usage = Tokens(coming)]>> ELSE coming
        /\ Record("success", target = "openai") /\ learned' = TRUE
     \/ sent' = <<BadGateway>> /\ UNCHANGED <<coming, said, books>>
  /\ Release /\ step' = "over"
  /\ UNCHANGED <<request, loop, gone, upstreamState, clientState, totalUsage>>

-----------------------------------------------------------------------------

Leave ==
  /\ ~gone /\ step # "over"
  /\ gone' = TRUE
  /\ UNCHANGED <<request, step, loop, bodies, answer, books>>

Next == Connect \/ Attempt \/ Backoff \/ Failed \/ Rejected \/ Served \/ ForwardError \/ ReadLine \/ FailsAloud
          \/ Ends \/ Breaks \/ ForwardWhole \/ Leave
Spec == Init /\ [][Next]_vars

-----------------------------------------------------------------------------

\* The parts of a format that its reader has a place for.
Hears(f, kind) == kind = "thinking" => f # "gemini"

\* A client that streams hears what the provider has said so far, the same
\* text and thoughts in the same order and nothing else, whatever the two
\* formats; the same calls in the same order, at Gemini once the reply is
\* finished; each call with its own arguments.  OpenAI's index of a call is
\* moved on before its arguments come, and Claude's block leaves out those
\* that come with the call, as Gemini sends them: there the arguments are
\* not heard.  That the reply was cut at its limit is told.
WhatIsSaidIsHeard ==
  stream /\ step = "stream" =>
    /\ TextIn(sent) = TextIn(said)
    /\ Hears(source, "thinking") => ThinkingIn(sent) = ThinkingIn(said)
    /\ source # "gemini" \/ Finished(sent) =>
         /\ CallsIn(source, sent) = CallsIn(target, said)
         /\ source # "gemini" /\ target # "gemini" => Announced(sent) = Announced(said)
         /\ source = target \/ source = "gemini" \/ <<target, source>> = <<"openai", "claude">> =>
              \A c \in CallsIn(target, said) : ArgumentsIn(source, sent, c) = ArgumentsIn(target, said, c)
    /\ Finished(sent) => CutShort(sent) = CutShort(said)

\* The request's books say what the client saw: one row at most, a success
\* when the client was told that the reply is whole, which it then is unless
\* the provider's own words were that it failed; an error when it was told
\* that the stream is truncated; none when there was no answer.  What a
\* translated stream said of its tokens is in the row.  Only a whole answer
\* is learned from.
BooksAreTrue ==
  step = "over" =>
    /\ Len(rows) = IF sent # <<>> /\ Last(sent) \notin {ErrorBody, BadGateway} THEN 1 ELSE 0
    /\ learned <=> rows # <<>> /\ rows[1].status = "success"
    /\ stream /\ rows # <<>> =>
         /\ Last(sent) = IF rows[1].status = "success" THEN Done ELSE Truncated
         /\ rows[1].status = "success" => coming \in {<<>>, <<Done>>}
         /\ source # target /\ Finished(said) /\ coming \in {<<>>, <<Done>>} => rows[1].usage = Tokens(said)

\* No connection to a provider is leaked or used after it was given back:
\* when the request is over every body is closed and every context is
\* cancelled, and a body is open with its context alive while it is read.
\* Only the answer of exhausted retries is read closed, as an empty one.
BodiesAreReleased ==
  /\ step = "over" => open = {} /\ contexts = {}
  /\ step \in {"stream", "whole"} => result.body \in open /\ conn \in contexts
  /\ step = "answered" /\ result.body \notin open => result.status = Retryable
  /\ Cardinality(open) <= 1

=============================================================================
