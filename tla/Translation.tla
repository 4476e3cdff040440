---------------------------- MODULE Translation -----------------------------
(***************************************************************************)
(* What executeRequest makes of a request's body before the first          *)
(* connection is tried: the translation (Registry.TranslateRequest), the   *)
(* compression of tool results, the cache hints and the context bridge,    *)
(* each stage changing the canonical request and writing the target's body *)
(* from it anew.  When a bridge is due is SmartRouting's matter.           *)
(***************************************************************************)
EXTENDS WireFormats

CONSTANTS
  Conversations   \* sequences of turns; a turn is a role and the kinds of its blocks

VARIABLES
  stage,    \* the stage executeRequest is about to run
  source, target,
  body,     \* what the client sent
  canon,    \* canonReq
  upstream, \* targetBody
  bridged, hinted, compressed

vars == <<stage, source, target, body, canon, upstream, bridged, hinted, compressed>>

Stages == <<"translate", "compress", "hint", "bridge", "send">>

-----------------------------------------------------------------------------
(* The client: what a conversation looks like in its API.                  *)

\* The calls of turn i are named for their place in the turn; an answer in
\* turn i is to the call of the same number in the turn before.
CallsOf(kinds) == Where(LAMBDA j : kinds[j] = "call", [j \in DOMAIN kinds |-> j])

\* What a client sends: the answers of tools, then what is said, then calls;
\* each answer is to a call of the turn before.
ASSUME ConversationsAssumption ==
  \A c \in Conversations :
    /\ c \in Seq([role : {"user", "assistant"}, kinds : Seq(Kinds)])
    /\ \A i \in DOMAIN c : \A j, k \in DOMAIN c[i].kinds :
         j < k => /\ c[i].kinds[k] = "result" => c[i].kinds[j] = "result"
                  /\ c[i].kinds[j] = "call" => c[i].kinds[k] = "call"
    /\ \A i \in DOMAIN c : \A j \in DOMAIN c[i].kinds :
         c[i].kinds[j] = "result" => i > 1 /\ j \in DOMAIN CallsOf(c[i - 1].kinds)

CallId(i, j) == [prefixed |-> FALSE, stem |-> <<"id", i, j>>]
BlockAt(conversation, i, j) ==
  LET kind == conversation[i].kinds[j] IN
  [kind |-> kind, text |-> Text(<<i, j>>),
   id |-> CASE kind = "call" -> CallId(i, j)
            [] kind = "result" -> CallId(i - 1, CallsOf(conversation[i - 1].kinds)[j])
            [] OTHER -> NoId,
   name |-> CASE kind = "call" -> <<"f", j>>
              [] kind = "result" -> <<"f", CallsOf(conversation[i - 1].kinds)[j]>>
              [] OTHER -> <<>>]

Turns(conversation) ==
  [i \in DOMAIN conversation |->
     Message(conversation[i].role, [j \in DOMAIN conversation[i].kinds |-> BlockAt(conversation, i, j)])]

\* What each API has a place for.
Carries(f) ==
  CASE f = "claude" -> Kinds \ {"imageurl"}
    [] f = "openai" -> Kinds \ {"thinking"}
    [] f = "gemini" -> {"text", "image", "call", "result"}
    [] f = "responses" -> {"text"}

\* A client of OpenAI answers calls in messages of their own, one of Gemini
\* by the name of the function.
Unnamed(b) == IF b.kind = "result" THEN [b EXCEPT !.name = <<>>] ELSE b
WithIds(m) == Message(m.role, Each(Unnamed, m.blocks))
ForOpenAI(m) ==
  LET rest == Of(Kinds \ {"result"}, m.blocks)
  IN Each(ToolMessage, Of({"result"}, m.blocks)) \o IF rest = <<>> THEN <<>> ELSE <<Message(m.role, rest)>>
WithoutId(b) == [b EXCEPT !.id = NoId]
ForGemini(m) == Message(IF m.role = "assistant" THEN "model" ELSE "user", Each(WithoutId, m.blocks))

\* n system texts; a client of Claude may mark the last for its cache.
SystemTexts(n, marked) == [i \in 1 .. n |-> [text |-> Text(<<"system", i>>), cached |-> marked /\ i = n]]
Body(f, conversation, systems) ==
  LET turns == Turns(conversation)
  IN [model |-> "alias", stream |-> FALSE,
      system |-> IF f = "openai" THEN <<>> ELSE systems,
      messages |-> CASE f = "openai" -> Each(SystemMessage, systems) \o Gather(ForOpenAI, turns)
                     [] f = "gemini" -> Each(ForGemini, turns)
                     [] OTHER -> Each(WithIds, turns)]

Init ==
  /\ stage = 1
  /\ source \in Formats /\ target \in Formats
  /\ \E conversation \in Conversations, n \in 0 .. 2, marked \in BOOLEAN :
       /\ marked => source = "claude" /\ n > 0
       /\ \A i \in DOMAIN conversation : ToSet(conversation[i].kinds) \subseteq Carries(source) \cup {"imageurl"}
       /\ source \in {"gemini", "responses"} => \A i \in DOMAIN conversation : "imageurl" \notin ToSet(conversation[i].kinds)
       /\ body = Body(source, conversation, SystemTexts(n, marked))
  /\ canon = body /\ upstream = body
  /\ bridged = FALSE /\ hinted = FALSE /\ compressed = FALSE

-----------------------------------------------------------------------------
(* The stages.                                                             *)

At(name) == stage <= Len(Stages) /\ Stages[stage] = name
Write(req) == canon' = req /\ upstream' = FromCanonical(target, req)

Translate ==
  /\ At("translate")
  /\ Write([ToCanonical(source, body) EXCEPT !.model = "resolved"])
  /\ stage' = stage + 1
  /\ UNCHANGED <<source, target, body, bridged, hinted, compressed>>

\* Only the answers of tools are compressed.
Shortened(b) == IF b.kind = "result" THEN [b EXCEPT !.text.short = TRUE] ELSE b
Abridged(m) == [m EXCEPT !.blocks = Each(Shortened, @)]
HasResults(req) == \E i \in DOMAIN req.messages : Of({"result"}, req.messages[i].blocks) # <<>>

\* The key has opted in and an answer gets shorter.
Compress ==
  /\ At("compress") /\ HasResults(canon)
  /\ Write([canon EXCEPT !.messages = Each(Abridged, @)])
  /\ compressed' = TRUE /\ stage' = stage + 1
  /\ UNCHANGED <<source, target, body, bridged, hinted>>

\* InjectCacheHints: a long system prompt, none of it marked by the client.
Hint ==
  /\ At("hint") /\ target = "claude" /\ canon.system # <<>>
  /\ \A i \in DOMAIN canon.system : ~canon.system[i].cached
  /\ Write([canon EXCEPT !.system[Len(canon.system)].cached = TRUE])
  /\ hinted' = TRUE /\ stage' = stage + 1
  /\ UNCHANGED <<source, target, body, bridged, compressed>>

BridgeText == Text(<<"bridge">>)

Bridge ==
  /\ At("bridge")
  /\ Write([canon EXCEPT !.system = <<[text |-> BridgeText, cached |-> FALSE]>> \o @])
  /\ bridged' = TRUE /\ stage' = stage + 1
  /\ UNCHANGED <<source, target, body, hinted, compressed>>

\* A stage that does not apply leaves the body of the one before.
Skip ==
  /\ At("compress") \/ At("hint") \/ At("bridge")
  /\ stage' = stage + 1
  /\ UNCHANGED <<source, target, body, canon, upstream, bridged, hinted, compressed>>

Next == Translate \/ Compress \/ Hint \/ Bridge \/ Skip
Spec == Init /\ [][Next]_vars

-----------------------------------------------------------------------------

Translated == stage > 1

\* A message of the role "tool" is the answer of one.
KindIn(m, b) == IF m.role = "tool" /\ b.kind = "text" THEN "result" ELSE b.kind

\* What a block says, if it is of one of the kinds and not what the
\* translators fill in.
Says(kinds, m, b) ==
  IF m.role # "system" /\ KindIn(m, b) \in kinds /\ b.text.at \notin {NoText.at, Filler.at}
  THEN <<<<KindIn(m, b), b.text.at>>>> ELSE <<>>

\* What messages say, in order: kinds and texts.
SaidBy(kinds, m) == Gather(LAMBDA b : Says(kinds, m, b), m.blocks)
Substance(kinds, messages) == Gather(LAMBDA m : SaidBy(kinds, m), messages)

InstructionIn(m) == IF m.role = "system" THEN <<m.blocks[1].text>> ELSE <<>>
TextOf(s) == s.text
SystemOf(b) == Each(TextOf, b.system) \o Gather(InstructionIn, b.messages)

\* Whatever stages ran, the provider is told all that the client said and
\* its API has a place for, in the client's order, and nothing else: no
\* block is lost, doubled or moved on the way through the canonical request
\* and the rewritings, and the system prompt is whole, behind the bridge.
ContentIsCarried ==
  Translated =>
    /\ Substance(Kinds, upstream.messages) = Substance(Carries(source) \cap Carries(target), body.messages)
    /\ SystemOf(upstream) =
         LET texts == (IF bridged THEN <<BridgeText>> ELSE <<>>) \o SystemOf(body)
         IN IF target = "responses" /\ texts = <<>> THEN <<DefaultInstructions>> ELSE texts

\* Claude is sent a conversation that begins with the user and in which no
\* two messages in a row have the same role.
ClaudeAlternates ==
  Translated /\ target = "claude" =>
    LET m == upstream.messages IN
    /\ m # <<>> => m[1].role = "user"
    /\ \A i \in 2 .. Len(m) : m[i].role # m[i - 1].role

\* The calls and answers of a body, in order, each with what it is known by:
\* its id or, at Gemini, the name of the function.
Reference(f, m, b) ==
  CASE f = "gemini" -> b.name
    [] f # "gemini" /\ m.role = "tool" /\ b.kind = "text" -> m.answers
    [] OTHER -> b.id
ActIn(f, m, b) ==
  IF KindIn(m, b) \in {"call", "result"} THEN <<[kind |-> KindIn(m, b), of |-> Reference(f, m, b)]>> ELSE <<>>
ActsIn(f, m) == Gather(LAMBDA b : ActIn(f, m, b), m.blocks)
Acts(f, messages) == Gather(LAMBDA m : ActsIn(f, m), messages)

\* Every answer of a tool refers to a call made before it.
Answered(acts) ==
  \A k \in DOMAIN acts : acts[k].kind = "result" =>
    \E c \in 1 .. k - 1 : acts[c].kind = "call" /\ acts[c].of = acts[k].of

\* Whatever stages ran, every answer of a tool still refers to a call made
\* before it, by the id or, at Gemini, by the name.  An id given by another
\* API is no name: from Claude and OpenAI to Gemini this is not so.
AnswersKeepTheirCalls ==
  Translated /\ (target = "gemini" => source = "gemini") => Answered(Acts(target, upstream.messages))

=============================================================================
