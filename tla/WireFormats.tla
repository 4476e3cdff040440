---------------------------- MODULE WireFormats -----------------------------
(***************************************************************************)
(* The request translators (internal/translate): every wire format is      *)
(* parsed to the canonical request and written from it.                    *)
(*                                                                         *)
(* A block of content has the same shape everywhere; a format leaves the   *)
(* fields it has no place for empty.  Its text stands for what it says:    *)
(* the text, the data or address of an image, the arguments of a call, the *)
(* answer of a tool.  Texts are told apart by where the client wrote them. *)
(* Sampling parameters, stop sequences and tool declarations are copied    *)
(* field by field and left out.                                            *)
(***************************************************************************)
EXTENDS Naturals, SequencesExt

Formats == {"claude", "openai", "gemini", "responses"}
Kinds == {"text", "image", "imageurl", "thinking", "call", "result"}

\* A text: the place it was written at, and whether it has been compressed.
Text(at) == [at |-> at, short |-> FALSE]
NoText == Text(<<>>)
Filler == Text(<<"...">>)
DefaultInstructions == Text(<<"You are a helpful assistant.">>)

\* An id is its stem with or without the prefix "call_"; "" is no name.
NoId == [prefixed |-> FALSE, stem |-> <<>>]

TextBlock(t) == [kind |-> "text", text |-> t, id |-> NoId, name |-> <<>>]
Each(f(_), s) == [i \in DOMAIN s |-> f(s[i])]
Gather(f(_), s) == FlattenSeq(Each(f, s))
Where(test(_), s) == Gather(LAMBDA x : IF test(x) THEN <<x>> ELSE <<>>, s)
Of(kinds, blocks) == Where(LAMBDA b : b.kind \in kinds, blocks)
Unmarked(s) == [s EXCEPT !.cached = FALSE]
OrEmptyText(blocks) == IF blocks = <<>> THEN <<TextBlock(NoText)>> ELSE blocks

\* A message; "answers" is the id a tool message of OpenAI answers.
Message(role, blocks) == [role |-> role, blocks |-> blocks, answers |-> NoId]

-----------------------------------------------------------------------------
(* Claude.                                                                 *)

\* Only the data of an image source is read and written, not its address.
DataOnly(b) == IF b.kind = "imageurl" THEN [b EXCEPT !.kind = "image", !.text = NoText] ELSE b

ClaudeParsed(m) == Message(m.role, OrEmptyText(Each(DataOnly, m.blocks)))
ClaudeToCanonical(body) == [body EXCEPT !.messages = Each(ClaudeParsed, @)]

\* Mutant: the blocks of the second message come first.
MergeInto_Before(merged, m) ==
  IF merged # <<>> /\ Last(merged).role = m.role
  THEN [merged EXCEPT ![Len(merged)].blocks = m.blocks \o @]
  ELSE Append(merged, m)

MergeInto(merged, m) ==
  IF merged # <<>> /\ Last(merged).role = m.role
  THEN [merged EXCEPT ![Len(merged)].blocks = @ \o m.blocks]
  ELSE Append(merged, m)

\* mergeConsecutiveMessages
Merged(messages) == FoldLeft(MergeInto, <<>>, messages)

FillerFrom(role) == Message(role, <<TextBlock(Filler)>>)
OtherRole(role) == IF role = "user" THEN "assistant" ELSE "user"

\* Mutant: a conversation may begin with the assistant.
Alternating_AnyStart(messages) == messages

\* ensureAlternating
Alternating(messages) ==
  LET spaced == FlattenSeq([i \in DOMAIN messages |->
                  IF i > 1 /\ messages[i].role = messages[i - 1].role
                  THEN <<FillerFrom(OtherRole(messages[i].role)), messages[i]>>
                  ELSE <<messages[i]>>])
  IN IF spaced # <<>> /\ spaced[1].role # "user" THEN <<FillerFrom("user")>> \o spaced ELSE spaced

ClaudeWritten(m) == Message(m.role, Each(DataOnly, m.blocks))
ClaudeFromCanonical(req) == [req EXCEPT !.messages = Alternating(Merged(Each(ClaudeWritten, @)))]

-----------------------------------------------------------------------------
(* OpenAI Chat Completions.                                                *)

\* The first text of a message; what else it says is dropped.
FirstText(blocks) == LET texts == Of({"text"}, blocks) IN IF texts = <<>> THEN NoText ELSE texts[1].text

ResultBlock(id, name, t) == [kind |-> "result", text |-> t, id |-> id, name |-> name]

Instruction(m) == IF m.role = "system" THEN <<[text |-> FirstText(m.blocks), cached |-> FALSE]>> ELSE <<>>
OpenAIParsed(m) ==
  CASE m.role = "system" -> <<>>
    [] m.role = "tool" -> <<Message("tool", <<ResultBlock(m.answers, <<>>, FirstText(m.blocks))>>)>>
    [] OTHER -> <<Message(m.role, OrEmptyText(Of({"text", "image", "imageurl"}, m.blocks)) \o Of({"call"}, m.blocks))>>

OpenAIToCanonical(body) ==
  [body EXCEPT !.system = Gather(Instruction, body.messages), !.messages = Gather(OpenAIParsed, body.messages)]

\* The answers of tools become messages of their own, before the message
\* they came with; thinking is skipped.
ToolMessage(b) == [role |-> "tool", blocks |-> <<TextBlock(b.text)>>, answers |-> b.id]
SystemMessage(s) == Message("system", <<TextBlock(s.text)>>)
OpenAIWritten(m) ==
  Each(ToolMessage, Of({"result"}, m.blocks))
    \o IF m.role = "tool" THEN <<>>
       ELSE <<Message(m.role, Of({"text", "image", "imageurl"}, m.blocks) \o Of({"call"}, m.blocks))>>

OpenAIFromCanonical(req) ==
  [req EXCEPT !.system = <<>>, !.messages = Each(SystemMessage, req.system) \o Gather(OpenAIWritten, req.messages)]

-----------------------------------------------------------------------------
(* Gemini.                                                                 *)

GeminiRole(role) == IF role = "assistant" THEN "model" ELSE IF role \in {"user", "tool", "system"} THEN "user" ELSE role
FromGeminiRole(role) == IF role = "model" THEN "assistant" ELSE role

\* Calls and answers have no ids on the wire; one is made of the name.
GeminiId(name) == [prefixed |-> TRUE, stem |-> name]
Identified(b) == IF b.kind \in {"call", "result"} THEN [b EXCEPT !.id = GeminiId(b.name), !.name = IF b.kind = "call" THEN @ ELSE <<>>]
                 ELSE b

GeminiParsed(m) == Message(FromGeminiRole(m.role), OrEmptyText(Each(Identified, m.blocks)))
GeminiToCanonical(body) ==
  [body EXCEPT !.system = Where(LAMBDA s : s.text # NoText, @), !.messages = Each(GeminiParsed, @)]

\* Mutant: the prefix of the id is not taken off.
FunctionName_Whole(b) == IF b.name # <<>> THEN b.name ELSE IF b.id.prefixed THEN <<"call_", b.id.stem>> ELSE b.id.stem

\* An answer is named for its call, or for what its id says of it.
FunctionName(b) == IF b.name # <<>> THEN b.name ELSE b.id.stem

\* The role follows the last call or answer of the message.
PartsRole(m) ==
  LET acts == Of({"call", "result"}, m.blocks)
  IN IF acts = <<>> THEN GeminiRole(m.role) ELSE IF Last(acts).kind = "call" THEN "model" ELSE "user"

HasPart(b) == b.kind \in {"text", "call", "result"} \/ (b.kind = "image" /\ b.text # NoText)
Part(b) == IF b.kind \in {"call", "result"} THEN [b EXCEPT !.name = FunctionName(b), !.id = NoId] ELSE b
GeminiWritten(m) == Message(PartsRole(m), OrEmptyText(Each(Part, Where(HasPart, m.blocks))))
GeminiFromCanonical(req) == [req EXCEPT !.system = Each(Unmarked, @), !.messages = Each(GeminiWritten, @)]

-----------------------------------------------------------------------------
(* OpenAI Responses: text only.                                            *)

Said(m) == Message(m.role, Where(LAMBDA b : b.kind = "text" /\ b.text # NoText, m.blocks))
Spoken(messages) == Where(LAMBDA m : m.blocks # <<>>, Each(Said, messages))

\* The instructions are one text, here the sequence of its paragraphs; the
\* parser keeps them as one block.
ResponsesToCanonical(body) == [body EXCEPT !.messages = Spoken(@)]

ResponsesFromCanonical(req) ==
  LET said == Where(LAMBDA s : s.text # NoText, Each(Unmarked, req.system))
  IN [req EXCEPT !.system = IF said = <<>> THEN <<[text |-> DefaultInstructions, cached |-> FALSE]>> ELSE said,
                 !.messages = Spoken(@), !.stream = TRUE]

-----------------------------------------------------------------------------

ToCanonical(f, body) ==
  CASE f = "claude" -> ClaudeToCanonical(body)
    [] f = "openai" -> OpenAIToCanonical(body)
    [] f = "gemini" -> GeminiToCanonical(body)
    [] f = "responses" -> ResponsesToCanonical(body)

FromCanonical(f, req) ==
  CASE f = "claude" -> ClaudeFromCanonical(req)
    [] f = "openai" -> OpenAIFromCanonical(req)
    [] f = "gemini" -> GeminiFromCanonical(req)
    [] f = "responses" -> ResponsesFromCanonical(req)

=============================================================================
