-------------------------- MODULE Exchange_proofs ---------------------------
(***************************************************************************)
(* No answer of a provider is leaked, nor read after it was given back,    *)
(* for any connections, number of retries and replies.  What an answer     *)
(* says plays no part: at most one body is open at a time, that of the     *)
(* result in hand, and its context is the only one alive.                  *)
(*                                                                         *)
(* And the books of a request are true of what its client was told.  There *)
(* what an answer says does matter, in one respect: which of its lines     *)
(* tell of tokens, and that a stream's translator passes that on before    *)
(* the last of them.                                                       *)
(*                                                                         *)
(* And a client that streams hears what its provider says, whatever the    *)
(* two formats.  There everything an answer says matters: which lines a    *)
(* provider of each format sends and in which order (Shape, Follows), that *)
(* a line becomes one chunk at most, and what the states of the two        *)
(* translators have of the lines so far (Heeded): the words already        *)
(* passed on, the end, the calls that are open, and the calls that are     *)
(* gathered for a client of Gemini.                                        *)
(***************************************************************************)
EXTENDS Exchange, FoldLemmas

Steps == {"connect", "execute", "backoff", "failed", "answered", "error", "stream", "whole", "over"}

\* Where a context is alive, and where a body may be open.
Calling == {"execute", "backoff", "failed", "answered", "stream", "whole"}
Holding == {"answered", "stream", "whole"}

\* The context of the connection in hand, and no other, is alive from the
\* call to the end of its answer.
OneContext == contexts = IF step \in Calling THEN {conn} ELSE {}

\* An open body is that of the result in hand; only the answer of exhausted
\* retries has none.
OneBody ==
  /\ step \notin Holding => open = {}
  /\ step \in {"stream", "whole"} => open = {result.body}
  /\ step = "answered" => \/ open = {result.body}
                          \/ open = {} /\ result.status = Retryable

\* The executor keeps an answer for when its retries are exhausted only if
\* its status says to retry.
KeptIsRetryable == last = NoResult \/ last.status = Retryable

BodyInv == step \in Steps /\ OneContext /\ OneBody /\ KeptIsRetryable

-----------------------------------------------------------------------------

LEMMA BodyInit == Init => BodyInv
BY DEF Init, BodyInv, Steps, OneContext, OneBody, KeptIsRetryable, Calling, Holding

\* The executor, and executeRequest around it.
LEMMA CallKeeps ==
  ASSUME BodyInv, Connect \/ Attempt \/ Backoff \/ Failed \/ Rejected
  PROVE  BodyInv'
<1> USE DEF BodyInv, Steps, OneContext, OneBody, KeptIsRetryable, Calling, Holding
<1>1. CASE Connect
  BY <1>1 DEF Connect, Advance, loop
<1>2. CASE Attempt
  <2>1. step = "execute" /\ open = {} /\ contexts = {conn} /\ UNCHANGED <<conn, contexts>>
    BY <1>2 DEF Attempt
  <2>2. ASSUME NEW kept, last' = kept, kept = NoResult \/ kept.status = Retryable, UNCHANGED open,
               IF MayRetry THEN step' = "backoff" /\ UNCHANGED result ELSE GiveUp(kept)
        PROVE  BodyInv'
    BY <2>1, <2>2 DEF GiveUp
  <2>3. ASSUME NEW answered, open' = open \cup {answered.body}, step' = "answered", result' = answered,
               UNCHANGED last
        PROVE  BodyInv'
    BY <2>1, <2>3
  <2>4. ASSUME NEW status, status = Retryable
        PROVE  [status |-> status, body |-> <<conn, attempt>>].status = Retryable
    BY <2>4
  <2> QED
    BY <1>2, <2>2, <2>3, <2>4 DEF Attempt
<1>3. CASE Backoff
  BY <1>3 DEF Backoff, bodies
<1>4. CASE Failed
  BY <1>4 DEF Failed, Advance
<1>5. CASE Rejected
  BY <1>5 DEF Rejected, Advance, Drained
<1> QED BY <1>1, <1>2, <1>3, <1>4, <1>5

\* The forwarding of an answer.
LEMMA ForwardKeeps ==
  ASSUME BodyInv, Served \/ ForwardError \/ ReadLine \/ FailsAloud \/ Ends \/ Breaks \/ ForwardWhole \/ Leave
  PROVE  BodyInv'
<1> USE DEF BodyInv, Steps, OneContext, OneBody, KeptIsRetryable, Calling, Holding, loop, bodies
<1>1. CASE Served
  BY <1>1 DEF Served, Retryable
<1>2. CASE ForwardError
  BY <1>2 DEF ForwardError
<1>3. CASE ReadLine
  BY <1>3 DEF ReadLine
<1>4. CASE FailsAloud
  BY <1>4 DEF FailsAloud
<1>5. CASE Ends
  BY <1>5 DEF Ends, Release
<1>6. CASE Breaks
  BY <1>6 DEF Breaks, Release
<1>7. CASE ForwardWhole
  BY <1>7 DEF ForwardWhole, Release
<1>8. CASE Leave
  BY <1>8 DEF Leave
<1> QED BY <1>1, <1>2, <1>3, <1>4, <1>5, <1>6, <1>7, <1>8

\* Bodies and contexts are in hand at every step of the request, whatever
\* fails and whenever the client leaves.
THEOREM BodiesInHand == Spec => []BodyInv
<1>1. BodyInv /\ [Next]_vars => BodyInv'
  <2>1. ASSUME BodyInv, UNCHANGED vars PROVE BodyInv'
    BY <2>1 DEF vars, loop, bodies, BodyInv, Steps, OneContext, OneBody, KeptIsRetryable, Calling, Holding
  <2> QED BY <2>1, CallKeeps, ForwardKeeps DEF Next
<1> QED BY <1>1, BodyInit, PTL DEF Spec

\* RetryExecutor, cancelOnClose and forwardResult leak no body and no
\* context, and read none after its context has ended.
THEOREM BodiesAreReleasedHolds == Spec => []BodiesAreReleased
<1>1. BodyInv => BodiesAreReleased
  <2> SUFFICES ASSUME BodyInv PROVE BodiesAreReleased
    OBVIOUS
  <2>1. Cardinality(open) <= 1
    <3>1. open = {} \/ \E b : open = {b}
      BY DEF BodyInv, OneBody, Steps, Holding
    <3>2. ASSUME NEW b, open = {b} PROVE Cardinality(open) = 1
      BY <3>2, FS_Singleton
    <3>3. open = {} => Cardinality(open) = 0
      BY FS_EmptySet
    <3> QED BY <3>1, <3>2, <3>3
  <2> QED BY <2>1 DEF BodyInv, OneContext, OneBody, Calling, Holding, BodiesAreReleased
<1> QED BY <1>1, BodiesInHand, PTL

-----------------------------------------------------------------------------

\* The formats of clients, and those of providers.
Clients == {"claude", "openai", "gemini"}
Wires == Clients \cup {"responses"}

\* An absent type is none of these.
LEMMA BlankIs == Blank # "error body" /\ Blank # "failed to read upstream response" /\ Blank # "[DONE]"
BY Zenon DEF Blank

\* Either way a sequence.
LEMMA IfIsSeq ==
  ASSUME NEW a, NEW b, NEW p, IsSeq(a), IsSeq(b)
  PROVE  IsSeq(IF p THEN a ELSE b)
OBVIOUS

\* A sequence of two.
LEMMA TwoIs ==
  ASSUME NEW x, NEW y
  PROVE  IsSeq(<<x, y>>) /\ Len(<<x, y>>) = 2 /\ <<x, y>>[1] = x /\ <<x, y>>[2] = y
<1>1. <<x, y>> \in Seq({x, y}) /\ Len(<<x, y>>) = 2
  OBVIOUS
<1> QED BY <1>1 DEF IsSeq

\* The lines written for a chunk are a sequence in every format.
LEMMA LinesAreWritten ==
  ASSUME NEW f \in Clients, NEW c, NEW s
  PROVE  IsSeq(CanonicalToStreamChunk(f, c, s))
<1>1. IsSeq(ClaudeLines(c, s))
  <2>1. ASSUME NEW x, NEW y, NEW z PROVE IsSeq(<<x, y, z>>)
    <3>1. <<x, y, z>> \in Seq({x, y, z})
      OBVIOUS
    <3> QED BY <3>1 DEF IsSeq
  <2>2. IsSeq(CloseActive(s))
    BY NoneIs, OneIs DEF CloseActive
  <2>3. CASE Aspect(c) = "role"
    BY <2>3, OneIs DEF ClaudeLines
  <2>4. CASE Aspect(c) = "thinking"
    <3>1. IsSeq(IF s.thinking THEN <<>> ELSE <<BlockStart("thinking", 0, s)>>)
      BY NoneIs, OneIs
    <3> QED BY <2>4, <3>1, OneIs, ConcatIs DEF ClaudeLines
  <2>5. CASE Aspect(c) = "text"
    <3>1. IsSeq(IF s.active = "text" THEN <<>> ELSE <<BlockStart("text", 0, s)>>)
      BY NoneIs, OneIs
    <3>2. IsSeq((IF s.active = "text" THEN <<>> ELSE <<BlockStart("text", 0, s)>>) \o <<BlockDelta(c, s)>>)
      BY <3>1, OneIs, ConcatIs
    <3> QED BY <2>1, <2>5, <3>2 DEF ClaudeLines
  <2>6. CASE Aspect(c) = "call"
    BY <2>2, <2>6, OneIs, ConcatIs DEF ClaudeLines
  <2>7. CASE Aspect(c) = "args"
    BY <2>7, OneIs DEF ClaudeLines
  <2>8. CASE Aspect(c) = "finish"
    BY <2>2, <2>8, TwoIs, ConcatIs DEF ClaudeLines
  <2>9. CASE Aspect(c) = "none"
    BY <2>9, NoneIs DEF ClaudeLines
  <2> QED BY <2>3, <2>4, <2>5, <2>6, <2>7, <2>8, <2>9 DEF Aspect
<1>2. IsSeq(OpenAILines(c, s))
  BY OneIs DEF OpenAILines
<1>3. IsSeq(GeminiLines(c, s))
  BY OneIs, NoneIs DEF GeminiLines
<1> QED BY <1>1, <1>2, <1>3 DEF CanonicalToStreamChunk, Clients

\* The recursion of WriteAll defines a function.
LEMMA WrittenDefined ==
  ASSUME NEW f, NEW chunks, NEW s, NEW n \in Nat
  PROVE  \E g : g = [k \in 0 .. n |-> IF k = 0 THEN [lines |-> <<>>, state |-> s] ELSE WriteChunk(f, g[k - 1], chunks[k])]
<1> DEFINE start == [lines |-> <<>>, state |-> s]
<1> HIDE DEF start
<1> DEFINE Wrote(g, m) == g = [k \in 0 .. m |-> IF k = 0 THEN start ELSE WriteChunk(f, g[k - 1], chunks[k])]
           B == {m \in Nat : ~ \E g : Wrote(g, m)}
<1>1. SUFFICES ASSUME B # {} PROVE FALSE
  <2>1. n \notin B => \E g : Wrote(g, n)
    OBVIOUS
  <2> QED BY <2>1 DEF start
<1>2. PICK m \in B : \A b \in B : m <= b
  <2>1. B \in SUBSET Nat
    OBVIOUS
  <2> HIDE DEF B
  <2> QED BY <1>1, <2>1, SmallestNatIn
<1>3. m \in Nat /\ ~ \E g : Wrote(g, m)
  OBVIOUS
<1>4. CASE m = 0
  <2> DEFINE g == [k \in 0 .. 0 |-> start]
  <2>1. g = [k \in 0 .. 0 |-> IF k = 0 THEN start ELSE WriteChunk(f, g[k - 1], chunks[k])]
    OBVIOUS
  <2> HIDE DEF g
  <2> QED BY <1>3, <1>4, <2>1
<1>5. CASE m # 0
  <2>1. m - 1 \in Nat /\ m - 1 \notin B
    <3> HIDE DEF B
    <3> QED BY <1>2, <1>3, <1>5
  <2>2. PICK h : Wrote(h, m - 1)
    BY <2>1
  <2> DEFINE g == [k \in 0 .. m |-> IF k < m THEN h[k] ELSE WriteChunk(f, h[m - 1], chunks[m])]
  <2>3. ASSUME NEW k \in 0 .. m PROVE g[k] = IF k = 0 THEN start ELSE WriteChunk(f, g[k - 1], chunks[k])
    <3>1. CASE k < m
      <4>1. k \in 0 .. m - 1 /\ (k # 0 => k - 1 \in 0 .. m - 1)
        BY <1>3, <3>1
      <4>2. g[k] = h[k] /\ (k # 0 => g[k - 1] = h[k - 1])
        BY <1>3, <3>1, <4>1
      <4>3. h[k] = IF k = 0 THEN start ELSE WriteChunk(f, h[k - 1], chunks[k])
        BY <2>2, <4>1
      <4> HIDE DEF g
      <4> QED BY <4>2, <4>3
    <3>2. CASE k = m
      <4>1. k # 0 /\ k - 1 \in 0 .. m /\ k - 1 < m
        BY <1>3, <1>5, <3>2
      <4>2. g[k - 1] = h[k - 1]
        BY <4>1
      <4>3. g[k] = WriteChunk(f, h[k - 1], chunks[k])
        BY <3>2
      <4> HIDE DEF g
      <4> QED BY <4>1, <4>2, <4>3
    <3> QED BY <1>3, <3>1, <3>2
  <2>4. g = [k \in 0 .. m |-> g[k]]
    OBVIOUS
  <2> HIDE DEF g
  <2>5. Wrote(g, m)
    BY <2>3, <2>4
  <2> QED BY <1>3, <2>5
<1> QED BY <1>4, <1>5

\* The lines written for a sequence of chunks are a sequence.
LEMMA WriteAllIs ==
  ASSUME NEW f \in Clients, NEW chunks, NEW s, IsSeq(chunks)
  PROVE  IsSeq(WriteAll(f, chunks, s).lines)
<1> DEFINE n == Len(chunks)
           wrote == CHOOSE g : g = [k \in 0 .. n |-> IF k = 0 THEN [lines |-> <<>>, state |-> s]
                                                     ELSE WriteChunk(f, g[k - 1], chunks[k])]
<1>1. n \in Nat
  BY SeqIs
<1>2. WriteAll(f, chunks, s) = wrote[n]
  BY DEF WriteAll
<1> HIDE DEF n
<1>3. wrote = [k \in 0 .. n |-> IF k = 0 THEN [lines |-> <<>>, state |-> s] ELSE WriteChunk(f, wrote[k - 1], chunks[k])]
  BY <1>1, WrittenDefined
<1> HIDE DEF wrote
<1> DEFINE B == {k \in 0 .. n : ~ IsSeq(wrote[k].lines)}
<1>4. B = {}
  <2> SUFFICES ASSUME B # {} PROVE FALSE
    OBVIOUS
  <2>1. PICK m \in B : \A b \in B : m <= b
    <3>1. B \in SUBSET Nat
      BY <1>1
    <3> HIDE DEF B
    <3> QED BY <3>1, SmallestNatIn
  <2>2. m \in 0 .. n /\ ~ IsSeq(wrote[m].lines)
    OBVIOUS
  <2>3. m # 0
    BY <1>1, <1>3, <2>2, NoneIs
  <2>4. m - 1 \in 0 .. n /\ m - 1 \notin B
    <3> HIDE DEF B
    <3> QED BY <1>1, <2>1, <2>2, <2>3
  <2>5. IsSeq(wrote[m - 1].lines)
    BY <2>4
  <2>6. wrote[m].lines = wrote[m - 1].lines \o CanonicalToStreamChunk(f, chunks[m], wrote[m - 1].state)
    <3>1. wrote[m] = WriteChunk(f, wrote[m - 1], chunks[m])
      BY <1>3, <2>2, <2>3
    <3>2. WriteChunk(f, wrote[m - 1], chunks[m]).lines
            = wrote[m - 1].lines \o CanonicalToStreamChunk(f, chunks[m], wrote[m - 1].state)
      BY Zenon DEF WriteChunk
    <3> QED BY <3>1, <3>2, Zenon
  <2> QED BY <2>2, <2>5, <2>6, LinesAreWritten, ConcatIs
<1> QED BY <1>1, <1>2, <1>4

-----------------------------------------------------------------------------
(* What the translators tell of tokens.                                    *)

\* Chunks, of which one tells of tokens just if u.
Tells(chunks, u) ==
  IsSeq(chunks) /\ ((\E i \in DOMAIN chunks : chunks[i].usage) <=> u)

\* No chunks tell nothing.
LEMMA TellsNothing == Tells(<<>>, FALSE)
BY NoneIs DEF Tells

\* A chunk tells what it says.
LEMMA TellsOne ==
  ASSUME NEW c, NEW u \in BOOLEAN, c.usage = u
  PROVE  Tells(<<c>>, u)
BY OneIs DEF Tells

\* A chunk left out for being empty tells nothing.
LEMMA ToldTells ==
  ASSUME NEW c, NEW u \in BOOLEAN, c.usage = u
  PROVE  Tells(Told(c), u)
<1>1. Chunk.usage = FALSE
  BY DEF Chunk
<1> QED BY <1>1, TellsNothing, TellsOne DEF Told

\* A chunk without tokens, left out or not, tells nothing.
LEMMA ToldQuietly ==
  ASSUME NEW c, c.usage = FALSE
  PROVE  Tells(Told(c), FALSE) /\ Tells(<<c>>, FALSE)
<1>1. Tells(Told(c), FALSE)
  BY ToldTells
<1>2. Tells(<<c>>, FALSE)
  BY TellsOne
<1> QED BY <1>1, <1>2

\* Of several chunks of a line the last tells.
LEMMA ConcatTells ==
  ASSUME NEW a, NEW b, NEW u \in BOOLEAN, Tells(a, FALSE), Tells(b, u)
  PROVE  Tells(a \o b, u)
<1>1. /\ IsSeq(a \o b) /\ Len(a \o b) = Len(a) + Len(b)
      /\ \A i \in 1 .. Len(a) + Len(b) : (a \o b)[i] = IF i <= Len(a) THEN a[i] ELSE b[i - Len(a)]
  BY ConcatIs DEF Tells
<1>2. /\ Len(a) \in Nat /\ DOMAIN a = 1 .. Len(a) /\ Len(b) \in Nat /\ DOMAIN b = 1 .. Len(b)
      /\ DOMAIN (a \o b) = 1 .. Len(a) + Len(b)
  BY <1>1, SeqIs DEF Tells
<1>4. ASSUME NEW i \in DOMAIN b, b[i].usage PROVE \E k \in DOMAIN (a \o b) : (a \o b)[k].usage
  <2>1. i + Len(a) \in DOMAIN (a \o b) /\ (a \o b)[i + Len(a)] = b[i]
    BY <1>1, <1>2
  <2> QED BY <1>4, <2>1
<1>5. ASSUME NEW k \in DOMAIN (a \o b), (a \o b)[k].usage
      PROVE  (\E i \in DOMAIN a : a[i].usage) \/ \E i \in DOMAIN b : b[i].usage
  <2>1. CASE k <= Len(a)
    BY <1>1, <1>2, <1>5, <2>1
  <2>2. CASE ~ (k <= Len(a))
    <3>1. k - Len(a) \in DOMAIN b /\ (a \o b)[k] = b[k - Len(a)]
      BY <1>1, <1>2, <2>2
    <3> QED BY <1>5, <3>1
  <2> QED BY <2>1, <2>2
<1> QED BY <1>1, <1>4, <1>5 DEF Tells

\* What a line says of tokens a chunk tells, Claude's when the message stops.
ToldBy(f, l, s) ==
  IF f = "claude" THEN l.type = "message_stop" /\ s.usage
  ELSE IF f = "responses" THEN l.type = "completed" /\ l.usage ELSE l.usage

\* The chunks of a line tell of tokens just if the line does, in the formats
\* and at the types where the translators look for them; Claude's when the
\* message stops, what its state has kept.
LEMMA ChunksTell ==
  ASSUME NEW f \in Wires, NEW l, NEW s, l.usage \in BOOLEAN, s.usage \in BOOLEAN
  PROVE  Tells(StreamChunkToCanonical(f, l, s), ToldBy(f, l, s))
<1> DEFINE usage == Told([Chunk EXCEPT !.usage = l.usage])
<1>1. Chunk.usage = FALSE /\ DOMAIN Chunk = {"role", "text", "thinking", "call", "args", "finish", "usage"}
  BY DEF Chunk
<1>2. ASSUME NEW x
      PROVE  /\ [Chunk EXCEPT !.role = x].usage = FALSE /\ [Chunk EXCEPT !.text = x].usage = FALSE
             /\ [Chunk EXCEPT !.thinking = x].usage = FALSE /\ [Chunk EXCEPT !.finish = x].usage = FALSE
             /\ [Chunk EXCEPT !.call = x].usage = FALSE
             /\ \A y : [Chunk EXCEPT !.call = x, !.args = y].usage = FALSE
             /\ \A y : [Chunk EXCEPT !.finish = x, !.usage = y].usage = y
             /\ \A y, z : [Chunk EXCEPT !.text = x, !.thinking = y, !.args = z].usage = FALSE
  BY <1>1
<1>c. \A x, y : [Chunk EXCEPT !.call = x, !.args = y].usage = FALSE
  BY <1>1
<1>3. Tells(usage, l.usage)
  BY <1>1, ToldTells
<1>4. ASSUME NEW x
      PROVE  /\ Tells(Told([Chunk EXCEPT !.role = x]), FALSE) /\ Tells(Told([Chunk EXCEPT !.text = x]), FALSE)
             /\ Tells(Told([Chunk EXCEPT !.thinking = x]), FALSE) /\ Tells(Told([Chunk EXCEPT !.finish = x]), FALSE)
             /\ \A y : Tells(Told([Chunk EXCEPT !.call = x, !.args = y]), FALSE)
  <2>1. Tells(Told([Chunk EXCEPT !.role = x]), FALSE)
    BY <1>2, ToldQuietly
  <2>2. Tells(Told([Chunk EXCEPT !.text = x]), FALSE)
    BY <1>2, ToldQuietly
  <2>3. Tells(Told([Chunk EXCEPT !.thinking = x]), FALSE)
    BY <1>2, ToldQuietly
  <2>4. Tells(Told([Chunk EXCEPT !.finish = x]), FALSE)
    BY <1>2, ToldQuietly
  <2>5. ASSUME NEW y PROVE Tells(Told([Chunk EXCEPT !.call = x, !.args = y]), FALSE)
    <3> DEFINE c == [Chunk EXCEPT !.call = x, !.args = y]
    <3>1. c.usage = FALSE
      BY <1>c
    <3> HIDE DEF c
    <3>2. Tells(Told(c), FALSE)
      BY <3>1, ToldQuietly
    <3> QED BY <3>2 DEF c
  <2> QED BY <2>1, <2>2, <2>3, <2>4, <2>5
<1> HIDE DEF usage
<1>5. Tells(OpenAIChunks(l, s), l.usage)
  <2> DEFINE a == Told([Chunk EXCEPT !.role = l.role])
             b == Told([Chunk EXCEPT !.text = l.text])
             c == Told([Chunk EXCEPT !.thinking = l.thinking])
             d == Told([Chunk EXCEPT !.call = l.call, !.args = l.args])
             e == Told([Chunk EXCEPT !.finish = l.finish])
  <2>1. Tells(a, FALSE) /\ Tells(b, FALSE) /\ Tells(c, FALSE) /\ Tells(d, FALSE) /\ Tells(e, FALSE)
    BY <1>4
  <2>2. OpenAIChunks(l, s) = a \o b \o c \o d \o e \o usage
    BY DEF OpenAIChunks, usage
  <2> HIDE DEF a, b, c, d, e
  <2>3. Tells(a \o b \o c \o d \o e, FALSE)
    BY <2>1, ConcatTells
  <2> QED BY <1>3, <2>2, <2>3, ConcatTells
<1>6. Tells(GeminiChunks(l, s), l.usage)
  <2> DEFINE first == CHOOSE c \in l.calls : TRUE
             a == Told([Chunk EXCEPT !.role = HasContent(l) /\ ~s.announced])
             b == Told([Chunk EXCEPT !.text = l.text])
             d == IF l.calls = {} THEN <<>> ELSE Told([Chunk EXCEPT !.call = first.call, !.args = first.args])
             e == Told([Chunk EXCEPT !.finish = FromGeminiReason(l.finish)])
  <2>1. Tells(a, FALSE) /\ Tells(b, FALSE) /\ Tells(d, FALSE) /\ Tells(e, FALSE)
    BY <1>4, TellsNothing
  <2>2. GeminiChunks(l, s) = a \o b \o d \o e \o usage
    BY DEF GeminiChunks, usage
  <2> HIDE DEF a, b, d, e
  <2>3. Tells(a \o b \o d \o e, FALSE)
    BY <2>1, ConcatTells
  <2> QED BY <1>3, <2>2, <2>3, ConcatTells
<1>7. ASSUME f = "responses" PROVE Tells(ResponsesChunks(l, s), ToldBy(f, l, s))
  <2>1. CASE l.type = "completed"
    <3> DEFINE c == [Chunk EXCEPT !.finish = Renamed(l.finish, FromStatus, "stop"), !.usage = l.usage]
    <3>1. c.usage = l.usage
      BY <1>2
    <3>2. ResponsesChunks(l, s) = <<c>>
      BY <2>1 DEF ResponsesChunks
    <3> HIDE DEF c
    <3>3. Tells(<<c>>, l.usage)
      BY <3>1, TellsOne
    <3>4. ToldBy(f, l, s) = l.usage
      BY <1>7, <2>1 DEF ToldBy
    <3> QED BY <3>2, <3>3, <3>4
  <2>2. CASE l.type # "completed"
    <3>1. ResponsesChunks(l, s) \in {<<>>, <<[Chunk EXCEPT !.role = TRUE]>>, <<[Chunk EXCEPT !.text = l.text]>>,
                                     <<[Chunk EXCEPT !.finish = "error"]>>}
      BY <2>2 DEF ResponsesChunks
    <3>2. Tells(ResponsesChunks(l, s), FALSE)
      BY <1>2, <3>1, ToldQuietly, TellsNothing
    <3> QED BY <1>7, <2>2, <3>2 DEF ToldBy
  <2> QED BY <2>1, <2>2
<1>8. ASSUME f = "claude" PROVE Tells(ClaudeChunks(l, s), ToldBy(f, l, s))
  <2>1. CASE l.type = "message_stop"
    <3> DEFINE c == [Chunk EXCEPT !.finish = s.finish, !.usage = s.usage]
    <3>1. c.usage = s.usage
      BY <1>2
    <3>2. ClaudeChunks(l, s) = <<c>>
      BY <2>1 DEF ClaudeChunks
    <3> HIDE DEF c
    <3>3. Tells(<<c>>, s.usage)
      BY <3>1, TellsOne
    <3>4. ToldBy(f, l, s) = s.usage
      BY <1>8, <2>1 DEF ToldBy
    <3> QED BY <3>2, <3>3, <3>4
  <2>2. CASE l.type # "message_stop"
    <3>1. ClaudeChunks(l, s) \in {<<>>, <<[Chunk EXCEPT !.role = TRUE]>>, <<[Chunk EXCEPT !.call = l.call]>>,
                                  <<[Chunk EXCEPT !.text = l.text, !.thinking = l.thinking, !.args = l.args]>>}
      BY <2>2 DEF ClaudeChunks
    <3>2. Tells(<<[Chunk EXCEPT !.text = l.text, !.thinking = l.thinking, !.args = l.args]>>, FALSE)
      <4> DEFINE c == [Chunk EXCEPT !.text = l.text, !.thinking = l.thinking, !.args = l.args]
      <4>1. c.usage = FALSE
        BY <1>1
      <4> HIDE DEF c
      <4>2. Tells(<<c>>, FALSE)
        BY <4>1, ToldQuietly
      <4> QED BY <4>2 DEF c
    <3>3. Tells(ClaudeChunks(l, s), FALSE)
      BY <3>2, <1>2, <3>1, ToldQuietly, TellsNothing
    <3> QED BY <1>8, <2>2, <3>3 DEF ToldBy
  <2> QED BY <2>1, <2>2
<1> QED BY <1>5, <1>6, <1>7, <1>8 DEF StreamChunkToCanonical, ToldBy, Wires, Clients

-----------------------------------------------------------------------------
(* What the providers tell of tokens, and how their answers end.           *)

\* Lines that tell nothing of tokens.
Quiet(lines) == IsSeq(lines) /\ \A i \in DOMAIN lines : lines[i].usage = FALSE

\* The fields of an empty line.
LEMMA LineIs ==
  /\ Line.usage = FALSE /\ Line.type = Blank
  /\ DOMAIN Line = {"type", "role", "index", "kind", "call", "calls", "text", "thinking", "args", "finish", "usage"}
BY DEF Line

\* One quiet line.
LEMMA QuietOne ==
  ASSUME NEW l, l.usage = FALSE
  PROVE  Quiet(<<l>>)
BY OneIs DEF Quiet

\* No lines are quiet.
LEMMA QuietNone == Quiet(<<>>)
BY NoneIs DEF Quiet

\* Quiet lines after quiet lines.
LEMMA QuietConcat ==
  ASSUME NEW a, NEW b, Quiet(a), Quiet(b)
  PROVE  Quiet(a \o b)
<1>1. /\ IsSeq(a \o b) /\ Len(a \o b) = Len(a) + Len(b)
      /\ \A i \in 1 .. Len(a) + Len(b) : (a \o b)[i] = IF i <= Len(a) THEN a[i] ELSE b[i - Len(a)]
  BY ConcatIs DEF Quiet
<1>2. /\ Len(a) \in Nat /\ DOMAIN a = 1 .. Len(a) /\ Len(b) \in Nat /\ DOMAIN b = 1 .. Len(b)
      /\ DOMAIN (a \o b) = 1 .. Len(a) + Len(b)
  BY <1>1, SeqIs DEF Quiet
<1>3. ASSUME NEW i \in 1 .. Len(a) + Len(b) PROVE (a \o b)[i].usage = FALSE
  <2>1. CASE i <= Len(a)
    BY <1>1, <1>2, <2>1 DEF Quiet
  <2>2. CASE ~ (i <= Len(a))
    <3>1. i - Len(a) \in DOMAIN b
      BY <1>2, <2>2
    <3> QED BY <1>1, <2>2, <3>1 DEF Quiet
  <2> QED BY <2>1, <2>2
<1> QED BY <1>1, <1>2, <1>3 DEF Quiet

\* Lines each of which is quiet.
LEMMA QuietList ==
  ASSUME NEW n \in Nat, NEW s, s = [i \in 1 .. n |-> s[i]], \A i \in 1 .. n : s[i].usage = FALSE
  PROVE  Quiet(s)
BY ListIsSeq, SeqIs DEF Quiet

\* Quiet parts make quiet lines.
LEMMA QuietFlatten ==
  ASSUME NEW n \in Nat, NEW s, s = [i \in 1 .. n |-> s[i]], \A i \in 1 .. n : Quiet(s[i])
  PROVE  Quiet(FlattenSeq(s))
BY FlattenIs DEF Quiet

\* What a reply ends in.
Ending(lines, end) ==
  /\ IsSeq(lines) /\ Len(lines) > 0
  /\ lines[Len(lines)] = end

\* An answer that is quiet but for its end.
LEMMA EndIs ==
  ASSUME NEW q, NEW b, Quiet(q), IsSeq(b), Len(b) > 0
  PROVE  /\ Ending(q \o b, b[Len(b)]) /\ Len(q \o b) = Len(q) + Len(b) /\ Len(q) \in Nat
         /\ \A i \in DOMAIN (q \o b) :
              \/ (q \o b)[i].usage = FALSE
              \/ i > Len(q) /\ (q \o b)[i] = b[i - Len(q)] /\ i - Len(q) \in DOMAIN b
<1>1. /\ IsSeq(q \o b) /\ Len(q \o b) = Len(q) + Len(b)
      /\ \A i \in 1 .. Len(q) + Len(b) : (q \o b)[i] = IF i <= Len(q) THEN q[i] ELSE b[i - Len(q)]
  BY ConcatIs DEF Quiet
<1>2. /\ Len(q) \in Nat /\ DOMAIN q = 1 .. Len(q) /\ Len(b) \in Nat /\ DOMAIN b = 1 .. Len(b)
      /\ DOMAIN (q \o b) = 1 .. Len(q) + Len(b)
  BY <1>1, SeqIs DEF Quiet
<1>3. ASSUME NEW i \in 1 .. Len(q) + Len(b)
      PROVE  \/ (q \o b)[i].usage = FALSE
             \/ i > Len(q) /\ (q \o b)[i] = b[i - Len(q)] /\ i - Len(q) \in DOMAIN b
  <2>1. CASE i <= Len(q)
    BY <1>1, <1>2, <2>1 DEF Quiet
  <2>2. CASE ~ (i <= Len(q))
    <3>1. i - Len(q) \in DOMAIN b
      BY <1>2, <2>2
    <3> QED BY <1>1, <1>2, <2>2, <3>1
  <2> QED BY <2>1, <2>2
<1>4. (q \o b)[Len(q) + Len(b)] = b[Len(b)]
  BY <1>1, <1>2
<1>5. Len(q \o b) > 0 /\ (q \o b)[Len(q \o b)] = b[Len(b)]
  BY <1>1, <1>2, <1>4
<1> QED BY <1>1, <1>2, <1>3, <1>5 DEF Ending

\* What a provider's answer looks like from where it is read.
Answer(f, lines) ==
  /\ IsSeq(lines) /\ Len(lines) > 0
  /\ Last(lines) \notin {ErrorBody, BadGateway}
  /\ \A i \in DOMAIN lines :
       /\ lines[i].usage \in BOOLEAN
       /\ lines[i].usage /\ f = "claude" => lines[i].type = "message_delta" /\ i = Len(lines) - 1
       /\ lines[i].usage /\ f = "responses" => lines[i].type = "completed"
  /\ f = "claude" => Last(lines).type = "message_stop"

\* The pieces of a part are as many as it has.
LEMMA PiecesAre ==
  ASSUME NEW reply \in Replies, NEW i \in DOMAIN reply.parts
  PROVE  /\ reply.parts[i].pieces \in Nat /\ DOMAIN Pieces(reply, i) = 1 .. reply.parts[i].pieces
         /\ reply.parts[i].kind \in {"text", "thinking", "call", "server"}
<1>1. reply.parts \in Seq([kind : {"text", "thinking", "call", "server"}, pieces : Nat])
  BY RepliesAssumption
<1>2. reply.parts[i] \in [kind : {"text", "thinking", "call", "server"}, pieces : Nat]
  <2> DEFINE S == [kind : {"text", "thinking", "call", "server"}, pieces : Nat]
  <2> HIDE DEF S
  <2>1. reply.parts \in Seq(S)
    BY <1>1 DEF S
  <2>2. reply.parts[i] \in S
    BY <2>1
  <2> QED BY <2>2 DEF S
<1> QED BY <1>2 DEF Pieces

\* The parts of a reply are a sequence.
LEMMA PartsAre ==
  ASSUME NEW reply \in Replies
  PROVE  Len(reply.parts) \in Nat /\ DOMAIN reply.parts = 1 .. Len(reply.parts)
BY RepliesAssumption

\* Claude tells its tokens in the line before the last, its message_delta.
LEMMA ClaudeAnswers ==
  ASSUME NEW reply \in Replies
  PROVE  Answer("claude", ClaudeSays(reply))
<1> DEFINE n == Len(reply.parts)
           blocks == [i \in DOMAIN reply.parts |-> ClaudeBlock(reply, i)]
           start == <<[Line EXCEPT !.type = "message_start"]>>
           delta == [Line EXCEPT !.type = "message_delta", !.finish = StopReason[reply.finish], !.usage = TRUE]
           stop == [Line EXCEPT !.type = "message_stop"]
<1>1. ASSUME NEW i \in DOMAIN reply.parts PROVE Quiet(ClaudeBlock(reply, i))
  <2> DEFINE kind == ClaudeKind(reply.parts[i].kind)
             first == [Line EXCEPT !.type = "block_start", !.index = i - 1, !.kind = kind,
                                   !.call = IF kind = "tool_use" THEN i ELSE 0]
             end == [Line EXCEPT !.type = "block_stop", !.index = i - 1]
             deltas == [k \in DOMAIN Pieces(reply, i) |-> ClaudeDelta(i, kind, Pieces(reply, i)[k])]
  <2>1. first.usage = FALSE /\ end.usage = FALSE
    BY LineIs
  <2>2. Quiet(deltas)
    <3>1. \A p : ClaudeDelta(i, kind, p).usage = FALSE
      BY LineIs DEF ClaudeDelta
    <3> HIDE DEF kind
    <3> QED BY <3>1, PiecesAre, QuietList
  <2>3. ClaudeBlock(reply, i) = <<first>> \o deltas \o <<end>>
    BY DEF ClaudeBlock, Each
  <2> HIDE DEF first, end, deltas
  <2> QED BY <2>1, <2>2, <2>3, QuietOne, QuietConcat
<1>2. Quiet(FlattenSeq(blocks))
  <2>1. n \in Nat /\ blocks = [i \in 1 .. n |-> blocks[i]] /\ \A i \in 1 .. n : Quiet(blocks[i])
    BY <1>1, PartsAre
  <2> HIDE DEF n, blocks
  <2> QED BY <2>1, QuietFlatten
<1>3. Quiet(start)
  BY LineIs, QuietOne
<1>4. ClaudeSays(reply) = start \o FlattenSeq(blocks) \o <<delta, stop>>
  BY DEF ClaudeSays
<1>5. delta.usage = TRUE /\ delta.type = "message_delta" /\ stop.type = "message_stop" /\ stop.usage = FALSE
  BY LineIs
<1>6. stop \notin {ErrorBody, BadGateway}
  BY LineIs DEF ErrorBody, BadGateway
<1> DEFINE q == start \o FlattenSeq(blocks)
<1> HIDE DEF start, blocks, delta, stop
<1>7. Quiet(q)
  BY <1>2, <1>3, QuietConcat
<1>8. /\ IsSeq(<<delta, stop>>) /\ Len(<<delta, stop>>) = 2 /\ <<delta, stop>>[1] = delta /\ <<delta, stop>>[2] = stop
      /\ DOMAIN <<delta, stop>> = 1 .. 2
  BY TwoIs, SeqIs
<1> DEFINE b == <<delta, stop>>
<1> HIDE DEF q, b
<1>9. /\ IsSeq(b) /\ Len(b) = 2 /\ b[1] = delta /\ b[2] = stop /\ DOMAIN b = 1 .. 2
  BY <1>8 DEF b
<1>10. /\ Ending(q \o b, b[Len(b)]) /\ Len(q \o b) = Len(q) + Len(b) /\ Len(q) \in Nat
      /\ \A i \in DOMAIN (q \o b) :
           \/ (q \o b)[i].usage = FALSE
           \/ i > Len(q) /\ (q \o b)[i] = b[i - Len(q)] /\ i - Len(q) \in DOMAIN b
  <2>1. IsSeq(b) /\ Len(b) > 0
    BY <1>9
  <2> QED BY <1>7, <2>1, EndIs
<1>11. ClaudeSays(reply) = q \o b
  BY <1>4 DEF q, b
<1>12. ASSUME NEW i \in DOMAIN (q \o b)
       PROVE  /\ (q \o b)[i].usage \in BOOLEAN
              /\ (q \o b)[i].usage => (q \o b)[i].type = "message_delta" /\ i = Len(q \o b) - 1
  <2>1. CASE (q \o b)[i].usage = FALSE
    BY <2>1
  <2>2. CASE i > Len(q) /\ (q \o b)[i] = b[i - Len(q)] /\ i - Len(q) \in DOMAIN b
    <3>1. i - Len(q) = 1 \/ i - Len(q) = 2
      BY <1>9, <2>2
    <3>2. CASE i - Len(q) = 1
      <4>1. IsSeq(q \o b)
        BY <1>10 DEF Ending
      <4>2. i \in Nat
        BY <4>1, SeqIs
      <4>3. i = Len(q \o b) - 1
        BY <1>10, <1>9, <3>2, <4>2
      <4> QED BY <1>5, <1>9, <2>2, <3>2, <4>3
    <3>3. CASE i - Len(q) = 2
      BY <1>5, <1>9, <2>2, <3>3
    <3> QED BY <3>1, <3>2, <3>3
  <2> QED BY <1>10, <2>1, <2>2
<1> QED BY <1>5, <1>6, <1>9, <1>10, <1>11, <1>12 DEF Answer, Ending, Last

\* An answer whose lines tell of tokens at its end only.
LEMMA EndAnswers ==
  ASSUME NEW f \in Wires \ {"claude"}, NEW q, NEW b, Quiet(q), IsSeq(b), Len(b) > 0,
         b[Len(b)] \notin {ErrorBody, BadGateway},
         \A i \in DOMAIN b : b[i].usage \in BOOLEAN /\ (f = "responses" => b[i].type = "completed")
  PROVE  Answer(f, q \o b)
<1>1. /\ Ending(q \o b, b[Len(b)]) /\ Len(q \o b) = Len(q) + Len(b) /\ Len(q) \in Nat
      /\ \A i \in DOMAIN (q \o b) :
           \/ (q \o b)[i].usage = FALSE
           \/ i > Len(q) /\ (q \o b)[i] = b[i - Len(q)] /\ i - Len(q) \in DOMAIN b
  BY EndIs
<1>2. \A i \in DOMAIN (q \o b) :
        /\ (q \o b)[i].usage \in BOOLEAN
        /\ (q \o b)[i].usage /\ f = "responses" => (q \o b)[i].type = "completed"
  <2> SUFFICES ASSUME NEW i \in DOMAIN (q \o b)
               PROVE  /\ (q \o b)[i].usage \in BOOLEAN
                      /\ (q \o b)[i].usage /\ f = "responses" => (q \o b)[i].type = "completed"
    OBVIOUS
  <2>1. CASE (q \o b)[i].usage = FALSE
    BY <2>1
  <2>2. CASE i > Len(q) /\ (q \o b)[i] = b[i - Len(q)] /\ i - Len(q) \in DOMAIN b
    BY <2>2
  <2> QED BY <1>1, <2>1, <2>2
<1> QED BY <1>1, <1>2 DEF Answer, Ending, Last

\* The same with an end of one line.
LEMMA OneAnswers ==
  ASSUME NEW f \in Wires \ {"claude"}, NEW q, NEW end, Quiet(q), end \notin {ErrorBody, BadGateway},
         end.usage \in BOOLEAN /\ (f = "responses" => end.type = "completed")
  PROVE  Answer(f, q \o <<end>>)
<1> DEFINE b == <<end>>
<1>1. IsSeq(b) /\ Len(b) = 1 /\ b[1] = end /\ DOMAIN b = {1}
  BY OneIs
<1> HIDE DEF b
<1>2. /\ Len(b) > 0 /\ b[Len(b)] \notin {ErrorBody, BadGateway}
      /\ \A i \in DOMAIN b : b[i].usage \in BOOLEAN /\ (f = "responses" => b[i].type = "completed")
  BY <1>1
<1>3. Answer(f, q \o b)
  BY <1>1, <1>2, EndAnswers
<1> QED BY <1>3 DEF b

\* OpenAI tells them in a line of their own before "[DONE]".
LEMMA OpenAIAnswers ==
  ASSUME NEW reply \in Replies, \A i \in DOMAIN reply.parts : reply.parts[i].kind \in CanSay("openai")
  PROVE  Answer("openai", OpenAISays(reply))
<1> DEFINE n == Len(reply.parts)
           parts == [i \in DOMAIN reply.parts |-> OpenAIPart(reply, i)]
           start == <<[Line EXCEPT !.role = TRUE]>>
           x == [Line EXCEPT !.finish = reply.finish]
           y == [Line EXCEPT !.usage = TRUE]
           b == <<x, y, Done>>
           q == start \o FlattenSeq(parts)
<1>1. ASSUME NEW i \in DOMAIN reply.parts PROVE Quiet(OpenAIPart(reply, i))
  <2> DEFINE at == NumberOf(reply, "call", i)
             texts == [k \in DOMAIN Pieces(reply, i) |-> [Line EXCEPT !.text = <<Pieces(reply, i)[k]>>]]
             thoughts == [k \in DOMAIN Pieces(reply, i) |-> [Line EXCEPT !.thinking = <<Pieces(reply, i)[k]>>]]
             args == [k \in DOMAIN Pieces(reply, i) |-> [Line EXCEPT !.index = at, !.args = <<Pieces(reply, i)[k]>>]]
             first == [Line EXCEPT !.index = at, !.call = i]
  <2> HIDE DEF at
  <2>1. Quiet(texts) /\ Quiet(thoughts) /\ Quiet(args)
    <3>1. /\ \A p : [Line EXCEPT !.text = <<p>>].usage = FALSE
          /\ \A p : [Line EXCEPT !.thinking = <<p>>].usage = FALSE
      BY LineIs
    <3>2. Quiet(texts)
      <4>1. \A k \in DOMAIN Pieces(reply, i) : texts[k].usage = FALSE
        BY <3>1
      <4>2. DOMAIN Pieces(reply, i) = 1 .. reply.parts[i].pieces /\ reply.parts[i].pieces \in Nat
        BY PiecesAre
      <4>3. texts = [k \in 1 .. reply.parts[i].pieces |-> texts[k]]
        BY <4>2
      <4> HIDE DEF texts
      <4> QED BY <4>1, <4>2, <4>3, QuietList
    <3>3. Quiet(thoughts)
      <4>1. \A k \in DOMAIN Pieces(reply, i) : thoughts[k].usage = FALSE
        BY <3>1
      <4>2. DOMAIN Pieces(reply, i) = 1 .. reply.parts[i].pieces /\ reply.parts[i].pieces \in Nat
        BY PiecesAre
      <4>3. thoughts = [k \in 1 .. reply.parts[i].pieces |-> thoughts[k]]
        BY <4>2
      <4> HIDE DEF thoughts
      <4> QED BY <4>1, <4>2, <4>3, QuietList
    <3>4. Quiet(args)
      <4>1. \A k \in DOMAIN Pieces(reply, i) : args[k].usage = FALSE
        BY LineIs
      <4>2. DOMAIN Pieces(reply, i) = 1 .. reply.parts[i].pieces /\ reply.parts[i].pieces \in Nat
        BY PiecesAre
      <4>3. args = [k \in 1 .. reply.parts[i].pieces |-> args[k]]
        BY <4>2
      <4> HIDE DEF args
      <4> QED BY <4>1, <4>2, <4>3, QuietList
    <3> QED BY <3>2, <3>3, <3>4
  <2>2. first.usage = FALSE
    BY LineIs
  <2>3. reply.parts[i].kind \in {"text", "thinking", "call"}
    BY DEF CanSay
  <2>4. OpenAIPart(reply, i) = texts \/ OpenAIPart(reply, i) = thoughts \/ OpenAIPart(reply, i) = <<first>> \o args
    BY <2>3 DEF OpenAIPart, Each, at
  <2> HIDE DEF texts, thoughts, args, first
  <2> QED BY <2>1, <2>2, <2>4, QuietOne, QuietConcat
<1>2. Quiet(FlattenSeq(parts))
  <2>1. n \in Nat /\ parts = [i \in 1 .. n |-> parts[i]] /\ \A i \in 1 .. n : Quiet(parts[i])
    BY <1>1, PartsAre
  <2> HIDE DEF n, parts
  <2> QED BY <2>1, QuietFlatten
<1>3. Quiet(start)
  BY LineIs, QuietOne
<1>4. OpenAISays(reply) = q \o b
  BY DEF OpenAISays
<1>5. x.usage = FALSE /\ y.usage = TRUE /\ Done.usage = FALSE /\ Done.type = "[DONE]"
  BY LineIs DEF Done
<1>6. Done \notin {ErrorBody, BadGateway}
  BY <1>5, LineIs DEF ErrorBody, BadGateway
<1> HIDE DEF parts, start, x, y
<1>7. Quiet(q)
  BY <1>2, <1>3, QuietConcat
<1>8. IsSeq(b) /\ Len(b) = 3 /\ DOMAIN b = 1 .. 3 /\ b[1] = x /\ b[2] = y /\ b[3] = Done
  <2>1. b \in Seq({x, y, Done}) /\ Len(b) = 3 /\ DOMAIN b = 1 .. 3
    OBVIOUS
  <2> QED BY <2>1 DEF IsSeq
<1> HIDE DEF q, b
<1>9. b[Len(b)] \notin {ErrorBody, BadGateway} /\ \A i \in DOMAIN b : b[i].usage \in BOOLEAN
  <2>1. \A i \in DOMAIN b : i = 1 \/ i = 2 \/ i = 3
    BY <1>8
  <2> QED BY <1>5, <1>6, <1>8, <2>1
<1>10. Answer("openai", q \o b)
  <2>1. "openai" \in Wires \ {"claude"} /\ Len(b) > 0
    BY <1>8 DEF Wires, Clients
  <2>2. \A i \in DOMAIN b : b[i].usage \in BOOLEAN /\ ("openai" = "responses" => b[i].type = "completed")
    BY <1>9
  <2> QED BY <1>7, <1>8, <1>9, <2>1, <2>2, EndAnswers
<1> QED BY <1>4, <1>10

\* Gemini tells them in its last line.
LEMMA GeminiAnswers ==
  ASSUME NEW reply \in Replies
  PROVE  Answer("gemini", GeminiSays(reply))
<1> DEFINE n == Len(reply.parts)
           parts == [i \in DOMAIN reply.parts |-> GeminiPart(reply, i)]
           end == [Line EXCEPT !.finish = ToGeminiReason(reply.finish), !.usage = TRUE]
<1>1. ASSUME NEW i \in DOMAIN reply.parts PROVE Quiet(GeminiPart(reply, i))
  <2> DEFINE texts == [k \in DOMAIN Pieces(reply, i) |-> [Line EXCEPT !.text = <<Pieces(reply, i)[k]>>]]
             call == [Line EXCEPT !.calls = {[call |-> i, args |-> Pieces(reply, i)]}]
  <2>1. Quiet(texts)
    <3>1. \A p : [Line EXCEPT !.text = <<p>>].usage = FALSE
      BY LineIs
    <3> QED BY <3>1, PiecesAre, QuietList
  <2>2. call.usage = FALSE
    BY LineIs
  <2>3. GeminiPart(reply, i) = texts \/ GeminiPart(reply, i) = <<call>>
    BY DEF GeminiPart, Each
  <2> HIDE DEF texts, call
  <2> QED BY <2>1, <2>2, <2>3, QuietOne
<1>2. Quiet(FlattenSeq(parts))
  <2>1. n \in Nat /\ parts = [i \in 1 .. n |-> parts[i]] /\ \A i \in 1 .. n : Quiet(parts[i])
    BY <1>1, PartsAre
  <2> HIDE DEF n, parts
  <2> QED BY <2>1, QuietFlatten
<1>3. GeminiSays(reply) = FlattenSeq(parts) \o <<end>>
  BY DEF GeminiSays
<1>4. end.usage = TRUE /\ end.type = Blank
  BY LineIs
<1>5. end \notin {ErrorBody, BadGateway}
  BY <1>4, BlankIs, LineIs DEF ErrorBody, BadGateway
<1> HIDE DEF parts, end
<1>6. Answer("gemini", FlattenSeq(parts) \o <<end>>)
  <2>1. "gemini" \in Wires \ {"claude"}
    BY DEF Wires, Clients
  <2>2. end.usage \in BOOLEAN /\ ("gemini" = "responses" => end.type = "completed")
    BY <1>4
  <2> QED BY <1>2, <1>5, <2>1, <2>2, OneAnswers
<1> QED BY <1>3, <1>6

\* The responses tell them in the event of their completion.
LEMMA ResponsesAnswers ==
  ASSUME NEW reply \in Replies
  PROVE  Answer("responses", ResponsesSays(reply))
<1> DEFINE n == Len(reply.parts)
           parts == [i \in DOMAIN reply.parts |-> ResponsesPart(reply, i)]
           start == <<[Line EXCEPT !.type = "created"]>>
           end == [Line EXCEPT !.type = "completed", !.usage = TRUE,
                               !.finish = IF reply.finish = "length" THEN "incomplete" ELSE "completed"]
<1>1. ASSUME NEW i \in DOMAIN reply.parts PROVE Quiet(ResponsesPart(reply, i))
  <2> DEFINE texts == [k \in DOMAIN Pieces(reply, i) |->
                         [Line EXCEPT !.type = "output_text.delta", !.text = <<Pieces(reply, i)[k]>>]]
             call == [Line EXCEPT !.type = "output_item.added"]
  <2>1. Quiet(texts)
    <3>1. \A p : [Line EXCEPT !.type = "output_text.delta", !.text = <<p>>].usage = FALSE
      BY LineIs
    <3> QED BY <3>1, PiecesAre, QuietList
  <2>2. call.usage = FALSE
    BY LineIs
  <2>3. ResponsesPart(reply, i) = texts \/ ResponsesPart(reply, i) = <<call>>
    BY DEF ResponsesPart, Each
  <2> HIDE DEF texts, call
  <2> QED BY <2>1, <2>2, <2>3, QuietOne
<1>2. Quiet(FlattenSeq(parts))
  <2>1. n \in Nat /\ parts = [i \in 1 .. n |-> parts[i]] /\ \A i \in 1 .. n : Quiet(parts[i])
    BY <1>1, PartsAre
  <2> HIDE DEF n, parts
  <2> QED BY <2>1, QuietFlatten
<1>3. ResponsesSays(reply) = start \o FlattenSeq(parts) \o <<end>>
  BY DEF ResponsesSays
<1>4. end.usage = TRUE /\ end.type = "completed"
  BY LineIs
<1>5. end \notin {ErrorBody, BadGateway}
  BY <1>4, LineIs DEF ErrorBody, BadGateway
<1>6. Quiet(start)
  BY LineIs, QuietOne
<1> HIDE DEF parts, end, start
<1>7. Quiet(start \o FlattenSeq(parts))
  BY <1>2, <1>6, QuietConcat
<1> DEFINE q == start \o FlattenSeq(parts)
<1> HIDE DEF q
<1>8. Answer("responses", q \o <<end>>)
  <2>1. "responses" \in Wires \ {"claude"}
    BY DEF Wires, Clients
  <2>2. end.usage \in BOOLEAN /\ ("responses" = "responses" => end.type = "completed")
    BY <1>4
  <2>3. Quiet(q)
    BY <1>7 DEF q
  <2> QED BY <1>5, <2>1, <2>2, <2>3, OneAnswers
<1> QED BY <1>3, <1>8 DEF q

\* Every provider, whatever it replies.
LEMMA ProvidersAnswer ==
  ASSUME NEW f \in Wires, NEW reply \in Replies, \A i \in DOMAIN reply.parts : reply.parts[i].kind \in CanSay(f)
  PROVE  Answer(f, Says(f, reply))
BY ClaudeAnswers, OpenAIAnswers, GeminiAnswers, ResponsesAnswers DEF Says, Wires, Clients

-----------------------------------------------------------------------------
(* The books.                                                              *)

\* Nothing has been read or said of an answer.
Fresh ==
  /\ sent = <<>> /\ said = <<>> /\ rows = <<>> /\ ~learned /\ totalUsage = FALSE
  /\ upstreamState = NewStreamState

\* Claude tells its tokens in the line before the last, and the translator
\* tells them when the message stops, which a failure does not let it.
ClaudeTells ==
  /\ \A i \in DOMAIN coming : coming[i].usage => coming[i].type = "message_delta" /\ i = Len(coming) - 1
  /\ coming # <<>> => Last(coming).type \in {"message_stop", "error"}
  /\ Len(coming) > 1 => Last(coming).type = "message_stop" /\ ~ Tokens(said)
  /\ upstreamState.usage <=> Tokens(said)
  /\ totalUsage => Tokens(said)
  /\ Tokens(said) => totalUsage \/ (coming # <<>> /\ Last(coming).type = "message_stop")

\* The others are told at once.
OthersTell ==
  /\ totalUsage <=> Tokens(said)
  /\ target = "responses" => \A i \in DOMAIN coming : coming[i].usage => coming[i].type = "completed"

\* While a stream is read nothing is booked, and what was said of tokens is
\* known or still to be told.
StreamInv ==
  /\ stream /\ rows = <<>> /\ ~learned
  /\ IsSeq(coming) /\ IsSeq(said) /\ IsSeq(sent)
  /\ totalUsage \in BOOLEAN /\ "usage" \in DOMAIN upstreamState /\ upstreamState.usage \in BOOLEAN
  /\ \A i \in DOMAIN coming : coming[i].usage \in BOOLEAN
  /\ source # target => IF target = "claude" THEN ClaudeTells ELSE OthersTell

\* The books at every step: BooksAreTrue speaks of the last alone.
BooksInv ==
  /\ step \in Steps
  /\ source \in Clients /\ conn \in Connections /\ formatOf \in [Connections -> Wires] /\ stream \in BOOLEAN
  /\ step \notin {"stream", "whole", "over"} => Fresh
  /\ step = "whole" => ~stream /\ Fresh /\ Answer(target, coming)
  /\ step = "stream" => StreamInv
  /\ BooksAreTrue

\* Before the first line no tokens are told.
LEMMA NothingIsToldYet ==
  /\ Tokens(<<>>) <=> FALSE
  /\ NewStreamState.usage = FALSE /\ "usage" \in DOMAIN NewStreamState
BY NoneIs DEF Tokens, NewStreamState

\* A line more tells what it says.
LEMMA AppendTells ==
  ASSUME NEW lines, NEW l, IsSeq(lines), l.usage \in BOOLEAN
  PROVE  Tokens(Append(lines, l)) <=> (Tokens(lines) \/ l.usage)
<1>1. /\ IsSeq(Append(lines, l)) /\ Len(Append(lines, l)) = Len(lines) + 1
      /\ \A i \in 1 .. Len(lines) + 1 : Append(lines, l)[i] = IF i <= Len(lines) THEN lines[i] ELSE l
  BY AppendIs
<1>2. /\ Len(lines) \in Nat /\ DOMAIN lines = 1 .. Len(lines)
      /\ DOMAIN Append(lines, l) = 1 .. Len(lines) + 1
  BY <1>1, SeqIs
<1>3. Append(lines, l)[Len(lines) + 1] = l /\ Len(lines) + 1 \in DOMAIN Append(lines, l)
  BY <1>1, <1>2
<1>4. \A i \in DOMAIN lines : i \in DOMAIN Append(lines, l) /\ Append(lines, l)[i] = lines[i]
  BY <1>1, <1>2
<1>5. \A i \in DOMAIN Append(lines, l) : (i \in DOMAIN lines /\ Append(lines, l)[i] = lines[i]) \/ Append(lines, l)[i] = l
  BY <1>1, <1>2
<1> QED BY <1>3, <1>4, <1>5 DEF Tokens

\* A line is taken off the front: what is left ends as before.
LEMMA RestEnds ==
  ASSUME NEW lines, IsSeq(lines), lines # <<>>
  PROVE  /\ Len(lines) > 0 /\ Len(lines) \in Nat /\ DOMAIN lines = 1 .. Len(lines)
         /\ Head(lines) = lines[1] /\ IsSeq(Tail(lines)) /\ Len(Tail(lines)) = Len(lines) - 1
         /\ DOMAIN Tail(lines) = 1 .. Len(lines) - 1
         /\ \A i \in 1 .. Len(lines) - 1 : Tail(lines)[i] = lines[i + 1]
         /\ (Tail(lines) = <<>>) <=> (Len(lines) = 1)
         /\ Len(lines) = 1 => Head(lines) = Last(lines)
         /\ Len(lines) > 1 => Last(Tail(lines)) = Last(lines)
<1>1. /\ Len(lines) > 0 /\ Head(lines) = lines[1]
      /\ IsSeq(Tail(lines)) /\ Len(Tail(lines)) = Len(lines) - 1
      /\ \A i \in 1 .. Len(lines) - 1 : Tail(lines)[i] = lines[i + 1]
  BY TailIs
<1>2. Len(lines) \in Nat /\ DOMAIN lines = 1 .. Len(lines) /\ DOMAIN Tail(lines) = 1 .. Len(lines) - 1
  BY <1>1, SeqIs
<1>3. (Tail(lines) = <<>>) <=> (Len(lines) = 1)
  <2>1. ASSUME Tail(lines) = <<>> PROVE Len(lines) = 1
    <3>1. Len(lines) - 1 = 0
      BY <1>1, <2>1, NoneIs
    <3> DEFINE n == Len(lines)
    <3>2. n \in Nat /\ n - 1 = 0
      BY <1>2, <3>1
    <3> HIDE DEF n
    <3>3. n = 1
      BY <3>2
    <3> QED BY <3>3 DEF n
  <2>2. ASSUME Len(lines) = 1 PROVE Tail(lines) = <<>>
    <3>1. PICK S : Tail(lines) \in Seq(S)
      BY <1>1 DEF IsSeq
    <3> DEFINE rest == Tail(lines)
    <3>2. rest \in Seq(S) /\ Len(rest) = 0
      BY <1>1, <2>2, <3>1
    <3> HIDE DEF rest
    <3>3. rest = <<>>
      BY <3>2
    <3> QED BY <3>3 DEF rest
  <2> QED BY <2>1, <2>2
<1>4. Len(lines) > 1 => Tail(lines)[Len(lines) - 1] = lines[Len(lines)]
  <2> SUFFICES ASSUME Len(lines) > 1 PROVE Tail(lines)[Len(lines) - 1] = lines[Len(lines)]
    OBVIOUS
  <2>1. Len(lines) - 1 \in 1 .. Len(lines) - 1 /\ (Len(lines) - 1) + 1 = Len(lines)
    BY <1>2
  <2> QED BY <1>1, <2>1
<1> QED BY <1>1, <1>2, <1>3, <1>4 DEF Last

\* No request has books to start with.
LEMMA BooksInit == Init => BooksInv
<1> SUFFICES ASSUME Init PROVE BooksInv
  OBVIOUS
<1>1. formatOf \in [Connections -> Wires]
  BY DEF Init, Variants, Wires, Clients
<1> QED BY <1>1 DEF Init, BooksInv, Steps, Fresh, BooksAreTrue, Clients

\* Until an answer is served nothing is read of one.
LEMMA BooksBefore ==
  ASSUME BooksInv, Connect \/ Attempt \/ Backoff \/ Failed \/ Rejected
  PROVE  BooksInv'
<1>1. step \in {"connect", "execute", "backoff", "failed", "answered"} /\ UNCHANGED <<request, answer, books>>
  BY DEF Connect, Attempt, Backoff, Failed, Rejected
<1>2. step' \in {"connect", "execute", "backoff", "failed", "answered", "error", "over"} /\ conn' \in Connections
  <2>1. CASE Connect
    BY <2>1 DEF Connect, Advance, loop, BooksInv
  <2>2. CASE Attempt
    BY <2>2 DEF Attempt, GiveUp, BooksInv
  <2>3. CASE Backoff
    BY <2>3 DEF Backoff, BooksInv
  <2>4. CASE Failed
    BY <2>4 DEF Failed, Advance, BooksInv
  <2>5. CASE Rejected
    BY <2>5 DEF Rejected, Advance, BooksInv
  <2> QED BY <2>1, <2>2, <2>3, <2>4, <2>5
<1>3. Fresh /\ Fresh'
  BY <1>1 DEF BooksInv, Fresh, answer, books
<1>4. BooksAreTrue'
  BY <1>3, NoneIs DEF BooksAreTrue, Fresh
<1> QED BY <1>1, <1>2, <1>3, <1>4 DEF BooksInv, Steps, request

\* An answer is served: what is to be read ends as its provider ends it.
LEMMA BooksServed ==
  ASSUME BooksInv, Served
  PROVE  BooksInv'
<1>1. PICK reply \in Replies :
        /\ \A i \in DOMAIN reply.parts : reply.parts[i].kind \in CanSay(formatOf[conn])
        /\ coming' = Says(formatOf[conn], reply)
  BY DEF Served
<1>2. /\ step' = IF stream THEN "stream" ELSE "whole"
      /\ UNCHANGED <<request, conn, said, sent, upstreamState, totalUsage, books>>
  BY DEF Served, loop
<1>3. Fresh /\ Fresh' /\ target \in Wires /\ target' = target
  BY <1>2 DEF BooksInv, Served, Fresh, books, request, target
<1>4. Answer(target, coming')
  BY <1>1, <1>3, ProvidersAnswer DEF target
<1>5. BooksAreTrue'
  BY <1>2 DEF BooksAreTrue
<1>6. ASSUME stream PROVE StreamInv'
  <2>1. IsSeq(coming') /\ \A i \in DOMAIN coming' : coming'[i].usage \in BOOLEAN
    BY <1>4 DEF Answer
  <2>2. IsSeq(said') /\ IsSeq(sent') /\ ~Tokens(said') /\ totalUsage' = FALSE
        /\ "usage" \in DOMAIN upstreamState' /\ upstreamState'.usage = FALSE
    BY <1>3, NoneIs, NothingIsToldYet DEF Fresh
  <2>3. ASSUME target = "claude" PROVE ClaudeTells'
    BY <1>4, <2>2, <2>3 DEF ClaudeTells, Answer
  <2>4. OthersTell'
    BY <1>3, <1>4, <2>2 DEF OthersTell, Answer
  <2> QED BY <1>2, <1>3, <1>6, <2>1, <2>2, <2>3, <2>4 DEF StreamInv, Fresh, request
<1> QED BY <1>2, <1>3, <1>4, <1>5, <1>6 DEF BooksInv, Steps, request

\* A line is read: what it tells of tokens is told, or will be.
LEMMA BooksReadLine ==
  ASSUME BooksInv, ReadLine
  PROVE  BooksInv'
<1> DEFINE l == Head(coming)
           chunks == StreamChunkToCanonical(target, l, upstreamState)
           out == WriteAll(source, chunks, clientState)
<1>1. /\ step = "stream" /\ coming # <<>> /\ coming' = Tail(coming) /\ said' = Append(said, l)
      /\ UNCHANGED <<request, step, conn, books>> /\ target' = target
  BY DEF ReadLine, loop, request, target
<1>2. \/ source = target /\ sent' = Append(sent, l) /\ UNCHANGED <<upstreamState, totalUsage>>
      \/ source # target /\ Refused(target, l) /\ UNCHANGED <<sent, upstreamState, totalUsage>>
      \/ /\ source # target /\ ~Refused(target, l)
         /\ upstreamState' = AfterLine(target, l, upstreamState) /\ sent' = sent \o out.lines
         /\ totalUsage' = (totalUsage \/ \E i \in DOMAIN chunks : chunks[i].usage)
  BY DEF ReadLine
<1>3. StreamInv /\ target \in Wires /\ source \in Clients
  BY <1>1 DEF BooksInv, target
<1>4. /\ Len(coming) > 0 /\ Len(coming) \in Nat /\ DOMAIN coming = 1 .. Len(coming)
      /\ l = coming[1] /\ IsSeq(coming') /\ Len(coming') = Len(coming) - 1
      /\ DOMAIN coming' = 1 .. Len(coming) - 1
      /\ \A i \in 1 .. Len(coming) - 1 : coming'[i] = coming[i + 1]
      /\ (coming' = <<>>) <=> (Len(coming) = 1)
      /\ Len(coming) = 1 => l = Last(coming)
      /\ Len(coming) > 1 => Last(coming') = Last(coming)
  BY <1>1, <1>3, RestEnds DEF StreamInv
<1>5. l.usage \in BOOLEAN /\ \A i \in DOMAIN coming' : coming'[i].usage \in BOOLEAN
  BY <1>3, <1>4 DEF StreamInv
<1>6. IsSeq(said') /\ (Tokens(said') <=> Tokens(said) \/ l.usage)
  BY <1>1, <1>3, <1>5, AppendIs, AppendTells DEF StreamInv
<1>7. IsSeq(chunks) /\ ((\E i \in DOMAIN chunks : chunks[i].usage) <=> ToldBy(target, l, upstreamState))
  BY <1>3, <1>5, ChunksTell DEF StreamInv, Tells
<1>8. IsSeq(out.lines)
  BY <1>3, <1>7, WriteAllIs
<1> HIDE DEF l, chunks, out
<1>9. IsSeq(sent')
  <2>1. IsSeq(sent) /\ IsSeq(Append(sent, l)) /\ IsSeq(sent \o out.lines)
    BY <1>3, <1>8, AppendIs, ConcatIs DEF StreamInv
  <2> QED BY <1>2, <2>1
<1>10. totalUsage' \in BOOLEAN
  BY <1>2, <1>3 DEF StreamInv
<1>11. /\ "usage" \in DOMAIN upstreamState' /\ upstreamState'.usage \in BOOLEAN
       /\ source # target /\ target = "claude" =>
            (upstreamState'.usage <=> \/ upstreamState.usage
                                      \/ l.type \in {"message_start", "message_delta"} /\ l.usage)
  BY <1>2, <1>3, <1>5 DEF StreamInv, AfterLine, ClaudeAfter, GeminiAfter, Refused
<1>12. ASSUME source # target, target = "claude" PROVE ClaudeTells'
  <2>1. ClaudeTells
    BY <1>3, <1>12 DEF StreamInv
  <2>2. l.usage => l.type = "message_delta" /\ Len(coming) = 2
    BY <1>4, <2>1 DEF ClaudeTells
  <2>3. upstreamState'.usage <=> Tokens(said')
    BY <1>6, <1>11, <1>12, <2>1, <2>2 DEF ClaudeTells
  <2>4. totalUsage' <=> totalUsage \/ (l.type = "message_stop" /\ Tokens(said))
    BY <1>2, <1>3, <1>7, <1>12, <2>1 DEF ToldBy, ClaudeTells, Refused, StreamInv
  <2>5. \A i \in DOMAIN coming' : coming'[i].usage => coming'[i].type = "message_delta" /\ i = Len(coming') - 1
    <3> SUFFICES ASSUME NEW i \in DOMAIN coming', coming'[i].usage
                 PROVE  coming'[i].type = "message_delta" /\ i = Len(coming') - 1
      OBVIOUS
    <3>1. i \in 1 .. Len(coming) - 1 /\ i + 1 \in DOMAIN coming /\ coming'[i] = coming[i + 1]
      BY <1>4
    <3> QED BY <1>4, <2>1, <3>1 DEF ClaudeTells
  <2>6. coming' # <<>> => Len(coming) > 1 /\ Last(coming') = Last(coming) /\ ~Tokens(said)
    BY <1>4, <2>1 DEF ClaudeTells
  <2>7. coming # <<>> /\ Last(coming).type \in {"message_stop", "error"}
    BY <1>1, <2>1 DEF ClaudeTells
  <2>8. Tokens(said') => totalUsage' \/ (coming' # <<>> /\ Last(coming').type = "message_stop")
    <3> SUFFICES ASSUME Tokens(said'), ~ totalUsage'
                 PROVE  coming' # <<>> /\ Last(coming').type = "message_stop"
      OBVIOUS
    <3>1. CASE l.usage
      <4>1. Len(coming) = 2 /\ coming' # <<>> /\ Last(coming') = Last(coming)
        <5>1. Len(coming) = 2
          BY <2>2, <3>1
        <5>2. Len(coming) # 1 /\ Len(coming) > 1
          BY <5>1
        <5> QED BY <1>4, <5>1, <5>2
      <4>2. Last(coming).type = "message_stop"
        BY <2>1, <4>1 DEF ClaudeTells
      <4> QED BY <4>1, <4>2
    <3>2. CASE ~ l.usage
      <4>1. Tokens(said) /\ ~totalUsage
        BY <1>6, <2>4, <3>2
      <4> QED BY <1>4, <2>1, <2>4, <4>1 DEF ClaudeTells
    <3> QED BY <3>1, <3>2
  <2>9. Len(coming') > 1 => ~ Tokens(said')
    BY <1>4, <1>6, <2>1, <2>2 DEF ClaudeTells
  <2> QED BY <1>6, <2>1, <2>3, <2>4, <2>5, <2>6, <2>7, <2>8, <2>9 DEF ClaudeTells
<1>13. ASSUME source # target, target # "claude" PROVE OthersTell'
  <2>1. OthersTell
    BY <1>3, <1>13 DEF StreamInv
  <2>2. totalUsage' <=> totalUsage \/ ToldBy(target, l, upstreamState)
    BY <1>2, <1>7, <1>13 DEF Refused
  <2>3. ToldBy(target, l, upstreamState) <=> l.usage
    BY <1>4, <1>5, <1>13, <2>1 DEF ToldBy, OthersTell
  <2>4. target = "responses" => \A i \in DOMAIN coming' : coming'[i].usage => coming'[i].type = "completed"
    <3> SUFFICES ASSUME target = "responses", NEW i \in DOMAIN coming', coming'[i].usage
                 PROVE  coming'[i].type = "completed"
      OBVIOUS
    <3>1. i + 1 \in DOMAIN coming /\ coming'[i] = coming[i + 1]
      BY <1>4
    <3> QED BY <2>1, <3>1 DEF OthersTell
  <2> QED BY <1>1, <1>6, <2>1, <2>2, <2>3, <2>4 DEF OthersTell
<1>14. StreamInv'
  BY <1>1, <1>3, <1>4, <1>5, <1>6, <1>9, <1>10, <1>11, <1>12, <1>13 DEF StreamInv, request, books
<1>15. BooksAreTrue'
  BY <1>1 DEF BooksAreTrue
<1> QED BY <1>1, <1>14, <1>15 DEF BooksInv, Steps, request

\* With the whole answer read, what was said of tokens is what is booked.
LEMMA RestTells ==
  ASSUME StreamInv, source # target, target \in Wires, coming \in {<<>>, <<Done>>}
  PROVE  totalUsage = Tokens(said)
<1>1. CASE target = "claude"
  <2>1. ClaudeTells
    BY <1>1 DEF StreamInv
  <2>2. coming # <<Done>>
    <3>1. Last(<<Done>>).type = "[DONE]" /\ <<Done>> # <<>>
      BY OneIs, NoneIs, LineIs DEF Last, Done
    <3> QED BY <2>1, <3>1 DEF ClaudeTells
  <2>3. totalUsage <=> Tokens(said)
    BY <2>1, <2>2 DEF ClaudeTells
  <2> QED BY <2>3 DEF StreamInv, Tokens
<1>2. CASE target # "claude"
  <2>1. totalUsage <=> Tokens(said)
    BY <1>2 DEF StreamInv, OthersTell
  <2> QED BY <2>1 DEF StreamInv, Tokens
<1> QED BY <1>1, <1>2

\* What is left of the answer is a failure.
LEMMA BooksFailsAloud ==
  ASSUME BooksInv, FailsAloud
  PROVE  BooksInv'
<1> DEFINE error == [Line EXCEPT !.type = "error"]
<1>1. /\ step = "stream" /\ Len(coming) > 1 /\ coming' = <<error>> /\ target' = target
      /\ target \in {"claude", "responses"}
      /\ UNCHANGED <<request, step, conn, said, sent, upstreamState, totalUsage, books>>
  BY DEF FailsAloud, loop, answer, request, target
<1>2. StreamInv
  BY <1>1 DEF BooksInv
<1>3. error.usage = FALSE /\ error.type = "error"
  BY LineIs
<1> HIDE DEF error
<1>4. IsSeq(coming') /\ Len(coming') = 1 /\ DOMAIN coming' = {1} /\ coming'[1] = error /\ Last(coming') = error
  BY <1>1, OneIs DEF Last
<1>5. \A i \in DOMAIN coming' : coming'[i].usage = FALSE
  BY <1>3, <1>4
<1>6. Tokens(said') = Tokens(said)
  BY <1>1
<1>7. ASSUME source # target, target = "claude" PROVE ClaudeTells'
  BY <1>1, <1>2, <1>3, <1>4, <1>5, <1>6, <1>7 DEF StreamInv, ClaudeTells
<1>8. ASSUME source # target, target # "claude" PROVE OthersTell'
  BY <1>1, <1>2, <1>5, <1>6, <1>8 DEF StreamInv, OthersTell
<1>9. StreamInv'
  BY <1>1, <1>2, <1>4, <1>5, <1>7, <1>8 DEF StreamInv, request, books
<1>10. BooksAreTrue'
  BY <1>1 DEF BooksAreTrue
<1> QED BY <1>1, <1>9, <1>10 DEF BooksInv, Steps, request

\* The end of a stream, or its breaking off, is the last word to the client
\* and one row.
LEMMA BooksClose ==
  ASSUME BooksInv, Ends \/ Breaks
  PROVE  BooksInv'
<1> DEFINE status == IF Ends THEN "success" ELSE "error"
           word == IF Ends THEN Done ELSE Truncated
<1>1. /\ step = "stream" /\ step' = "over"
      /\ Ends => coming \in {<<>>, <<Done>>}
      /\ UNCHANGED <<request, conn, coming, said, totalUsage>>
  BY DEF Ends, Breaks, loop
<1>2. sent' = Append(sent, word) /\ Record(status, totalUsage) /\ (learned' <=> learned \/ Ends)
  BY DEF Ends, Breaks, AfterBreak
<1>3. StreamInv /\ target \in Wires /\ target' = target
  <2>1. StreamInv
    <3>1. step = "stream"
      BY <1>1
    <3> QED BY <3>1 DEF BooksInv
  <2>2. target \in Wires
    BY DEF BooksInv, target
  <2>3. target' = target
    BY <1>1 DEF target, request
  <2> QED BY <2>1, <2>2, <2>3
<1>4. word \notin {ErrorBody, BadGateway} /\ word = IF status = "success" THEN Done ELSE Truncated
  BY LineIs DEF Done, Truncated, ErrorBody, BadGateway
<1>5. status \in {"success", "error"} /\ (status = "success" <=> Ends)
  OBVIOUS
<1> HIDE DEF status, word
<1>6. sent' # <<>> /\ Last(sent') = word
  <2>1. /\ IsSeq(sent) /\ Len(sent) \in Nat /\ Len(sent') = Len(sent) + 1
        /\ sent'[Len(sent) + 1] = word
    BY <1>2, <1>3, SeqIs, AppendIs DEF StreamInv
  <2> QED BY <2>1, NoneIs DEF Last
<1>7. rows' = <<[status |-> status, usage |-> totalUsage]>>
  BY <1>2, <1>3 DEF StreamInv, Record
<1>8. Len(rows') = 1 /\ rows' # <<>> /\ rows'[1] = [status |-> status, usage |-> totalUsage]
  BY <1>7, OneIs, NoneIs
<1>9. learned' <=> Ends
  BY <1>2, <1>3 DEF StreamInv
<1>10. source # target /\ coming \in {<<>>, <<Done>>} => totalUsage = Tokens(said)
  BY <1>3, RestTells
<1>11. BooksAreTrue'
  <2>1. Len(rows') = 1 /\ sent' # <<>> /\ Last(sent') \notin {ErrorBody, BadGateway}
    BY <1>4, <1>6, <1>8
  <2>2. rows'[1].status = status /\ rows'[1].usage = totalUsage
    BY <1>8
  <2>3. Tokens(said') = Tokens(said)
    BY <1>1
  <2>4. Last(sent') = IF rows'[1].status = "success" THEN Done ELSE Truncated
    BY <1>4, <1>6, <2>2
  <2>5. rows'[1].status = "success" => coming' \in {<<>>, <<Done>>}
    <3>1. Ends => coming \in {<<>>, <<Done>>}
      BY <1>1
    <3>2. coming' = coming
      BY <1>1
    <3> QED BY <1>5, <2>2, <3>1, <3>2
  <2>6. source' # target' /\ coming' \in {<<>>, <<Done>>} => rows'[1].usage = Tokens(said')
    BY <1>1, <1>3, <1>10, <2>2, <2>3 DEF request
  <2>7. learned' <=> rows' # <<>> /\ rows'[1].status = "success"
    BY <1>5, <1>8, <1>9, <2>2
  <2> HIDE DEF target
  <2> QED BY <2>1, <2>4, <2>5, <2>6, <2>7 DEF BooksAreTrue
<1> QED BY <1>1, <1>11 DEF BooksInv, Steps, request

\* A whole answer, or the failure to read one.
LEMMA BooksForwardWhole ==
  ASSUME BooksInv, ForwardWhole
  PROVE  BooksInv'
<1>1. step = "whole" /\ step' = "over" /\ UNCHANGED <<request, conn>>
  BY DEF ForwardWhole, loop
<1>2. ~stream /\ Fresh /\ Answer(target, coming) /\ ~stream'
  BY <1>1 DEF BooksInv, Steps, request
<1>3. CASE sent' = <<BadGateway>> /\ UNCHANGED books
  <2>1. Len(rows') = 0 /\ rows' = <<>> /\ ~learned' /\ Last(sent') = BadGateway
    BY <1>2, <1>3, OneIs, NoneIs DEF Fresh, books, Last
  <2>2. BooksAreTrue'
    BY <1>2, <2>1 DEF BooksAreTrue
  <2> QED BY <1>1, <2>2 DEF BooksInv, Steps, request
<1>4. CASE /\ sent' = IF Converted(target, source)
                      THEN <<[Line EXCEPT !.text = TextIn(coming), !.usage = Tokens(coming)]>> ELSE coming
           /\ Record("success", target = "openai") /\ learned'
  <2>1. rows' = <<[status |-> "success", usage |-> target = "openai"]>>
    BY <1>2, <1>4 DEF Fresh, Record
  <2>2. Len(rows') = 1 /\ rows' # <<>> /\ rows'[1].status = "success"
    BY <2>1, OneIs, NoneIs
  <2>3. sent' # <<>> /\ Last(sent') \notin {ErrorBody, BadGateway}
    <3>1. CASE sent' = coming
      BY <1>2, <3>1, NoneIs DEF Answer
    <3> DEFINE line == [Line EXCEPT !.text = TextIn(coming), !.usage = Tokens(coming)]
    <3>2. CASE sent' = <<line>>
      <4>1. line.type = Blank
        BY LineIs
      <4>2. line \notin {ErrorBody, BadGateway}
        BY <4>1, BlankIs, LineIs DEF ErrorBody, BadGateway
      <4> HIDE DEF line
      <4> QED BY <3>2, <4>2, OneIs, NoneIs DEF Last
    <3> QED BY <1>4, <3>1, <3>2
  <2>4. BooksAreTrue'
    BY <1>2, <1>4, <2>2, <2>3 DEF BooksAreTrue
  <2> QED BY <1>1, <2>4 DEF BooksInv, Steps, request
<1> QED BY <1>3, <1>4 DEF ForwardWhole

\* The body of an error is forwarded and nothing is booked.
LEMMA BooksForwardError ==
  ASSUME BooksInv, ForwardError
  PROVE  BooksInv'
<1>1. /\ step = "error" /\ step' = "over" /\ sent' = <<ErrorBody>>
      /\ UNCHANGED <<request, conn, rows, learned>>
  BY DEF ForwardError, loop, books
<1>2. Fresh
  BY <1>1 DEF BooksInv
<1>3. Len(rows') = 0 /\ rows' = <<>> /\ ~learned' /\ Last(sent') = ErrorBody
  BY <1>1, <1>2, OneIs, NoneIs DEF Fresh, Last
<1>4. BooksAreTrue'
  BY <1>3 DEF BooksAreTrue
<1> QED BY <1>1, <1>4 DEF BooksInv, Steps, request

\* The books do not look at the bodies, nor whether the client is there.
LEMMA BooksUntouched ==
  ASSUME BooksInv, UNCHANGED <<request, step, conn, answer, books>>
  PROVE  BooksInv'
<1> USE DEF request, answer, books, target
<1>1. /\ source' = source /\ stream' = stream /\ formatOf' = formatOf /\ conn' = conn /\ step' = step
      /\ coming' = coming /\ said' = said /\ sent' = sent /\ upstreamState' = upstreamState
      /\ totalUsage' = totalUsage /\ rows' = rows /\ learned' = learned
  OBVIOUS
<1>2. BooksAreTrue'
  BY <1>1 DEF BooksInv, BooksAreTrue
<1>3. StreamInv <=> StreamInv'
  BY <1>1 DEF StreamInv, ClaudeTells, OthersTell
<1> QED BY <1>1, <1>2, <1>3 DEF BooksInv, Fresh

\* The books of executeRequest and forwardResult at every step, for every
\* reply of every provider in any number of parts and pieces.
THEOREM BooksInvariant == Spec => []BooksInv
<1>1. BooksInv /\ [Next]_vars => BooksInv'
  <2>1. ASSUME BooksInv, UNCHANGED vars \/ Leave PROVE BooksInv'
    BY <2>1, BooksUntouched DEF vars, loop, Leave
  <2> QED BY <2>1, BooksBefore, BooksServed, BooksForwardError, BooksReadLine, BooksFailsAloud, BooksClose,
             BooksForwardWhole DEF Next
<1> QED BY <1>1, BooksInit, PTL DEF Spec

\* What forwardResult books is what the client was told: one row for an
\* answer, a success only if it was whole, with its tokens when a translated
\* stream told of them, and only a whole answer is learned from.
THEOREM BooksAreTrueHolds == Spec => []BooksAreTrue
<1>1. BooksInv => BooksAreTrue
  BY DEF BooksInv
<1> QED BY <1>1, BooksInvariant, PTL

-----------------------------------------------------------------------------
(* What is said in lines: text, thoughts and calls.                        *)

\* What is said in lines, or in chunks: text, thoughts, and calls announced.
Spoken(l) == IsSeq(l.text) /\ IsSeq(l.thinking)

\* The call that is announced, if any.
CallIn(l) == IF l.call = 0 THEN <<>> ELSE <<l.call>>

\* The lines say this text, these thoughts and these calls.
Say(lines, text, thinking, calls) ==
  /\ IsSeq(lines) /\ \A i \in DOMAIN lines : Spoken(lines[i])
  /\ TextIn(lines) = text /\ ThinkingIn(lines) = thinking /\ Announced(lines) = calls

\* No lines say nothing.
LEMMA SayNothing == Say(<<>>, <<>>, <<>>, <<>>)
<1>1. /\ TextIn(<<>>) = FlattenSeq(<<>>) /\ ThinkingIn(<<>>) = FlattenSeq(<<>>)
      /\ Announced(<<>>) = FlattenSeq(<<>>)
  <2>1. \A u : u = [i \in DOMAIN <<>> |-> u[i]] => u = <<>>
    BY NoneIs
  <2>2. /\ [i \in DOMAIN <<>> |-> <<>>[i].text] = <<>> /\ [i \in DOMAIN <<>> |-> <<>>[i].thinking] = <<>>
        /\ [i \in DOMAIN <<>> |-> IF <<>>[i].call = 0 THEN <<>> ELSE << <<>>[i].call >>] = <<>>
    BY NoneIs
  <2> QED BY <2>2 DEF TextIn, ThinkingIn, Announced
<1> QED BY <1>1, FlattenNone, NoneIs DEF Say

\* One line says its own.
LEMMA SayOne ==
  ASSUME NEW l, Spoken(l)
  PROVE  Say(<<l>>, l.text, l.thinking, CallIn(l))
<1>1. IsSeq(<<l>>) /\ DOMAIN <<l>> = {1} /\ <<l>>[1] = l
  BY OneIs
<1>2. IsSeq(CallIn(l))
  BY OneIs, NoneIs DEF CallIn
<1> DEFINE s == <<l>>
<1> HIDE DEF s
<1>3. DOMAIN s = {1} /\ s[1] = l
  BY <1>1 DEF s
<1>4. TextIn(s) = l.text
  <2>1. [i \in DOMAIN s |-> s[i].text] = [i \in {1} |-> l.text]
    BY <1>3
  <2> QED BY <2>1, FlattenOne DEF TextIn, Spoken
<1>5. ThinkingIn(s) = l.thinking
  <2>1. [i \in DOMAIN s |-> s[i].thinking] = [i \in {1} |-> l.thinking]
    BY <1>3
  <2> QED BY <2>1, FlattenOne DEF ThinkingIn, Spoken
<1>6. Announced(s) = CallIn(l)
  <2>1. [i \in DOMAIN s |-> IF s[i].call = 0 THEN <<>> ELSE <<s[i].call>>] = [i \in {1} |-> CallIn(l)]
    BY <1>3 DEF CallIn
  <2> QED BY <1>2, <2>1, FlattenOne DEF Announced
<1> QED BY <1>1, <1>4, <1>5, <1>6 DEF Say, s

\* Lines after lines say the ones and then the others.
LEMMA SayConcat ==
  ASSUME NEW a, NEW b, NEW t1, NEW h1, NEW c1, NEW t2, NEW h2, NEW c2, Say(a, t1, h1, c1), Say(b, t2, h2, c2)
  PROVE  Say(a \o b, t1 \o t2, h1 \o h2, c1 \o c2)
<1>1. IsSeq(a) /\ IsSeq(b) /\ (\A i \in DOMAIN a : Spoken(a[i])) /\ (\A i \in DOMAIN b : Spoken(b[i]))
  BY DEF Say
<1>2. /\ IsSeq(a \o b) /\ Len(a \o b) = Len(a) + Len(b)
      /\ \A i \in 1 .. Len(a) + Len(b) : (a \o b)[i] = IF i <= Len(a) THEN a[i] ELSE b[i - Len(a)]
  BY <1>1, ConcatIs
<1>3. /\ Len(a) \in Nat /\ Len(b) \in Nat /\ DOMAIN a = 1 .. Len(a) /\ DOMAIN b = 1 .. Len(b)
      /\ DOMAIN (a \o b) = 1 .. Len(a) + Len(b)
  BY <1>1, <1>2, SeqIs
<1> DEFINE w == a \o b
           n == Len(a)
           m == Len(b)
<1>9. n \in Nat /\ m \in Nat /\ DOMAIN a = 1 .. n /\ DOMAIN b = 1 .. m /\ DOMAIN w = 1 .. n + m
  BY <1>3
<1> HIDE DEF w
<1>4. /\ \A i \in DOMAIN a : i \in DOMAIN w /\ w[i] = a[i]
      /\ \A i \in DOMAIN b : Len(a) + i \in DOMAIN w /\ w[Len(a) + i] = b[i]
  BY <1>2, <1>3 DEF w
<1>5. \A i \in DOMAIN w : Spoken(w[i])
  <2> SUFFICES ASSUME NEW i \in DOMAIN w PROVE Spoken(w[i])
    OBVIOUS
  <2>1. CASE i <= Len(a)
    <3>1. i \in DOMAIN a
      BY <1>3, <2>1 DEF w
    <3> QED BY <1>1, <1>4, <3>1
  <2>2. CASE ~ (i <= Len(a))
    <3>1. i - Len(a) \in DOMAIN b /\ w[i] = b[i - Len(a)]
      BY <1>2, <1>3, <2>2 DEF w
    <3> QED BY <1>1, <3>1
  <2> QED BY <2>1, <2>2
<1>6. TextIn(w) = t1 \o t2
  <2> DEFINE u == [i \in DOMAIN a |-> a[i].text]
             v == [i \in DOMAIN b |-> b[i].text]
             x == [i \in DOMAIN w |-> w[i].text]
  <2>1. u = [i \in 1 .. n |-> u[i]] /\ v = [i \in 1 .. m |-> v[i]] /\ x = [i \in 1 .. n + m |-> x[i]]
    BY <1>9
  <2>3. /\ \A i \in 1 .. n : IsSeq(u[i]) /\ x[i] = u[i]
        /\ \A i \in 1 .. m : IsSeq(v[i]) /\ x[n + i] = v[i]
    BY <1>1, <1>4, <1>9 DEF Spoken
  <2>2. t1 = FlattenSeq(u) /\ t2 = FlattenSeq(v) /\ TextIn(w) = FlattenSeq(x)
    BY DEF Say, TextIn
  <2> HIDE DEF u, v, x, n, m
  <2>5. Joined(x, u, v, n, m)
    BY <2>1, <2>3 DEF Joined
  <2>6. FlattenSeq(x) = FlattenSeq(u) \o FlattenSeq(v)
    BY <1>9, <2>5, FlattenFields
  <2> QED BY <2>2, <2>6
<1>7. ThinkingIn(w) = h1 \o h2
  <2> DEFINE u == [i \in DOMAIN a |-> a[i].thinking]
             v == [i \in DOMAIN b |-> b[i].thinking]
             x == [i \in DOMAIN w |-> w[i].thinking]
  <2>1. u = [i \in 1 .. n |-> u[i]] /\ v = [i \in 1 .. m |-> v[i]] /\ x = [i \in 1 .. n + m |-> x[i]]
    BY <1>9
  <2>3. /\ \A i \in 1 .. n : IsSeq(u[i]) /\ x[i] = u[i]
        /\ \A i \in 1 .. m : IsSeq(v[i]) /\ x[n + i] = v[i]
    BY <1>1, <1>4, <1>9 DEF Spoken
  <2>2. h1 = FlattenSeq(u) /\ h2 = FlattenSeq(v) /\ ThinkingIn(w) = FlattenSeq(x)
    BY DEF Say, ThinkingIn
  <2> HIDE DEF u, v, x, n, m
  <2>5. Joined(x, u, v, n, m)
    BY <2>1, <2>3 DEF Joined
  <2>6. FlattenSeq(x) = FlattenSeq(u) \o FlattenSeq(v)
    BY <1>9, <2>5, FlattenFields
  <2> QED BY <2>2, <2>6
<1>8. Announced(w) = c1 \o c2
  <2> DEFINE u == [i \in DOMAIN a |-> CallIn(a[i])]
             v == [i \in DOMAIN b |-> CallIn(b[i])]
             x == [i \in DOMAIN w |-> CallIn(w[i])]
  <2>1. \A l : IsSeq(CallIn(l))
    BY OneIs, NoneIs DEF CallIn
  <2>2. c1 = FlattenSeq(u) /\ c2 = FlattenSeq(v) /\ Announced(w) = FlattenSeq(x)
    BY DEF Say, Announced, CallIn
  <2>4. u = [i \in 1 .. n |-> u[i]] /\ v = [i \in 1 .. m |-> v[i]] /\ x = [i \in 1 .. n + m |-> x[i]]
    BY <1>9
  <2>3. /\ \A i \in 1 .. n : IsSeq(u[i]) /\ x[i] = u[i]
        /\ \A i \in 1 .. m : IsSeq(v[i]) /\ x[n + i] = v[i]
    BY <1>4, <1>9, <2>1
  <2> HIDE DEF u, v, x, n, m
  <2>5. Joined(x, u, v, n, m)
    BY <2>3, <2>4 DEF Joined
  <2>6. FlattenSeq(x) = FlattenSeq(u) \o FlattenSeq(v)
    BY <1>9, <2>5, FlattenFields
  <2> QED BY <2>2, <2>6
<1> QED BY <1>2, <1>5, <1>6, <1>7, <1>8 DEF Say, w

-----------------------------------------------------------------------------
(* What the client's lines say of a chunk.                                 *)

\* Lines written one by one.
LEMMA PairIs ==
  ASSUME NEW x, NEW y
  PROVE  <<x, y>> = <<x>> \o <<y>>
<1>1. /\ IsSeq(<<x, y>>) /\ Len(<<x, y>>) = 2 /\ <<x, y>>[1] = x /\ <<x, y>>[2] = y
      /\ IsSeq(<<x>>) /\ Len(<<x>>) = 1 /\ <<x>>[1] = x
      /\ IsSeq(<<y>>) /\ Len(<<y>>) = 1 /\ <<y>>[1] = y
  BY OneIs, TwoIs
<1> DEFINE w == <<x, y>>
           u == <<x>>
           v == <<y>>
<1> HIDE DEF w, u, v
<1>2. /\ IsSeq(u) /\ IsSeq(v) /\ IsSeq(w) /\ Len(w) = Len(u) + Len(v) /\ Len(u) = 1 /\ Len(v) = 1
      /\ w[1] = u[1] /\ w[2] = v[1]
  BY <1>1 DEF u, v, w
<1>3. /\ \A i \in 1 .. Len(u) : w[i] = u[i]
      /\ \A i \in 1 .. Len(v) : w[Len(u) + i] = v[i]
  BY <1>2
<1>4. w = u \o v
  BY <1>2, <1>3, IsConcat
<1> QED BY <1>4 DEF u, v, w

\* A sequence of three is one of two and one more.
LEMMA TripleIs ==
  ASSUME NEW x, NEW y, NEW z
  PROVE  <<x, y, z>> = <<x, y>> \o <<z>>
<1> DEFINE w == <<x, y, z>>
           u == <<x, y>>
           v == <<z>>
<1>1. w \in Seq({x, y, z}) /\ Len(w) = 3 /\ w[1] = x /\ w[2] = y /\ w[3] = z
  OBVIOUS
<1>2. IsSeq(u) /\ Len(u) = 2 /\ u[1] = x /\ u[2] = y /\ IsSeq(v) /\ Len(v) = 1 /\ v[1] = z /\ IsSeq(w)
  BY <1>1, OneIs, TwoIs DEF IsSeq
<1> HIDE DEF w, u, v
<1>3. /\ Len(w) = Len(u) + Len(v)
      /\ \A i \in 1 .. Len(u) : w[i] = u[i]
      /\ \A i \in 1 .. Len(v) : w[Len(u) + i] = v[i]
  BY <1>1, <1>2
<1>4. w = u \o v
  BY <1>2, <1>3, IsConcat
<1> QED BY <1>4 DEF u, v, w

\* What is said is sequences.
LEMMA SaidIsSeq ==
  ASSUME NEW a, NEW t, NEW h, NEW c, Say(a, t, h, c)
  PROVE  IsSeq(t) /\ IsSeq(h) /\ IsSeq(c)
<1>1. Len(a) \in Nat /\ DOMAIN a = 1 .. Len(a) /\ \A i \in DOMAIN a : IsSeq(a[i].text) /\ IsSeq(a[i].thinking)
  BY SeqIs DEF Say, Spoken
<1> DEFINE u == [i \in DOMAIN a |-> a[i].text]
           v == [i \in DOMAIN a |-> a[i].thinking]
           w == [i \in DOMAIN a |-> CallIn(a[i])]
<1>2. t = FlattenSeq(u) /\ h = FlattenSeq(v) /\ c = FlattenSeq(w)
  BY DEF Say, TextIn, ThinkingIn, Announced, CallIn
<1>3. \A l : IsSeq(CallIn(l))
  BY OneIs, NoneIs DEF CallIn
<1> DEFINE n == Len(a)
<1>4. /\ n \in Nat
      /\ u = [i \in 1 .. n |-> u[i]] /\ \A i \in 1 .. n : IsSeq(u[i])
      /\ v = [i \in 1 .. n |-> v[i]] /\ \A i \in 1 .. n : IsSeq(v[i])
      /\ w = [i \in 1 .. n |-> w[i]] /\ \A i \in 1 .. n : IsSeq(w[i])
  BY <1>1, <1>3
<1> HIDE DEF u, v, w, n
<1>5. IsSeq(FlattenSeq(u)) /\ IsSeq(FlattenSeq(v)) /\ IsSeq(FlattenSeq(w))
  BY <1>4, FlattenIs
<1> QED BY <1>2, <1>5

\* Lines that say nothing.
Mute(lines) == Say(lines, <<>>, <<>>, <<>>)

\* A line that says nothing.
LEMMA MuteOne ==
  ASSUME NEW l, l.text = <<>>, l.thinking = <<>>, l.call = 0
  PROVE  Mute(<<l>>)
BY SayOne, NoneIs DEF Mute, Spoken, CallIn

\* It adds nothing to what others say, before them or after.
LEMMA MuteBefore ==
  ASSUME NEW a, Mute(a), NEW b, NEW t, NEW h, NEW c, Say(b, t, h, c)
  PROVE  Say(a \o b, t, h, c) /\ Say(b \o a, t, h, c)
<1>1. IsSeq(t) /\ IsSeq(h) /\ IsSeq(c)
  BY SaidIsSeq
<1>2. Say(a \o b, <<>> \o t, <<>> \o h, <<>> \o c)
  BY SayConcat DEF Mute
<1>3. Say(b \o a, t \o <<>>, h \o <<>>, c \o <<>>)
  BY SayConcat DEF Mute
<1> QED BY <1>1, <1>2, <1>3, ConcatNone

\* A chunk with at most one thing in it; a call may come with its arguments.
Single(c) ==
  /\ Spoken(c)
  /\ c.text # <<>> => ~c.role /\ c.thinking = <<>> /\ c.call = 0 /\ c.args = <<>>
  /\ c.thinking # <<>> => ~c.role /\ c.text = <<>> /\ c.call = 0
  /\ c.call # 0 => ~c.role /\ c.text = <<>> /\ c.thinking = <<>>
  /\ c.finish # Blank => ~c.role /\ c.text = <<>> /\ c.thinking = <<>> /\ c.call = 0 /\ c.args = <<>>
  /\ c.args # <<>> => ~c.role

\* The fields of the lines of a block.
LEMMA BlockLines ==
  ASSUME NEW kind, NEW call, NEW c, NEW s
  PROVE  /\ BlockStart(kind, call, s).text = <<>> /\ BlockStart(kind, call, s).thinking = <<>>
         /\ BlockStart(kind, call, s).call = call
         /\ BlockDelta(c, s).thinking = c.thinking /\ BlockDelta(c, s).call = 0
         /\ BlockDelta(c, s).text = IF c.thinking # <<>> THEN <<>> ELSE c.text
         /\ BlockStop(s).text = <<>> /\ BlockStop(s).thinking = <<>> /\ BlockStop(s).call = 0
BY DEF BlockStart, BlockDelta, BlockStop, Line

\* Claude's lines say what is in the chunk.
LEMMA ClaudeLinesSay ==
  ASSUME NEW c, NEW s, Single(c)
  PROVE  Say(ClaudeLines(c, s), c.text, c.thinking, CallIn(c))
<1>1. Mute(<<>>) /\ \A x : Mute(<<BlockStop(x)>>)
  BY SayNothing, MuteOne, BlockLines DEF Mute
<1>2. Mute(CloseActive(s))
  BY <1>1 DEF CloseActive
<1>3. \A kind, x : Mute(<<BlockStart(kind, 0, x)>>)
  BY MuteOne, BlockLines
<1>4. ASSUME NEW x, Aspect(c) \in {"thinking", "text", "args"}
      PROVE  Say(<<BlockDelta(c, x)>>, c.text, c.thinking, CallIn(c))
  <2>1. c.call = 0 \/ Aspect(c) = "args"
    BY <1>4 DEF Single, Aspect
  <2>2. c.call = 0
    BY <1>4, <2>1 DEF Single, Aspect
  <2>3. BlockDelta(c, x).text = c.text /\ BlockDelta(c, x).thinking = c.thinking /\ BlockDelta(c, x).call = c.call
    BY <2>2, BlockLines DEF Single
  <2>4. Spoken(BlockDelta(c, x)) /\ CallIn(BlockDelta(c, x)) = CallIn(c)
    BY <2>3 DEF Single, Spoken, CallIn
  <2> QED BY <2>3, <2>4, SayOne
<1>5. CASE Aspect(c) = "role"
  <2>1. ClaudeLines(c, s) = <<[Line EXCEPT !.type = "message_start"]>>
    BY <1>5 DEF ClaudeLines
  <2>2. c.text = <<>> /\ c.thinking = <<>> /\ c.call = 0
    BY <1>5 DEF Aspect, Single
  <2>3. Mute(<<[Line EXCEPT !.type = "message_start"]>>)
    BY MuteOne DEF Line
  <2> QED BY <2>1, <2>2, <2>3 DEF Mute, CallIn
<1>6. CASE Aspect(c) = "thinking"
  <2> DEFINE start == IF s.thinking THEN <<>> ELSE <<BlockStart("thinking", 0, s)>>
  <2>1. ClaudeLines(c, s) = start \o <<BlockDelta(c, s)>>
    BY <1>6 DEF ClaudeLines
  <2>2. Mute(start)
    BY <1>1, <1>3
  <2> HIDE DEF start
  <2> QED BY <1>4, <1>6, <2>1, <2>2, MuteBefore
<1>7. CASE Aspect(c) = "text"
  <2>1. CASE s.thinking
    <3>1. ClaudeLines(c, s)
            = <<BlockStop(s), BlockStart("text", 0, NextIndex(s)), BlockDelta(c, NextIndex(s))>>
      BY <1>7, <2>1 DEF ClaudeLines
    <3>2. ClaudeLines(c, s)
            = (<<BlockStop(s)>> \o <<BlockStart("text", 0, NextIndex(s))>>) \o <<BlockDelta(c, NextIndex(s))>>
      BY <3>1, PairIs, TripleIs
    <3>3. Mute(<<BlockStop(s)>> \o <<BlockStart("text", 0, NextIndex(s))>>)
      BY <1>1, <1>3, MuteBefore DEF Mute
    <3> QED BY <1>4, <1>7, <3>2, <3>3, MuteBefore
  <2>2. CASE ~ s.thinking
    <3> DEFINE start == IF s.active = "text" THEN <<>> ELSE <<BlockStart("text", 0, s)>>
    <3>1. ClaudeLines(c, s) = start \o <<BlockDelta(c, s)>>
      BY <1>7, <2>2 DEF ClaudeLines
    <3>2. Mute(start)
      BY <1>1, <1>3
    <3> HIDE DEF start
    <3> QED BY <1>4, <1>7, <3>1, <3>2, MuteBefore
  <2> QED BY <2>1, <2>2
<1>8. CASE Aspect(c) = "call"
  <2> DEFINE l == BlockStart("tool_use", c.call, ForCall(s))
  <2>1. ClaudeLines(c, s) = CloseActive(s) \o <<l>>
    BY <1>8 DEF ClaudeLines
  <2>2. c.call # 0 /\ c.text = <<>> /\ c.thinking = <<>>
    BY <1>8 DEF Aspect, Single
  <2>3. l.text = c.text /\ l.thinking = c.thinking /\ l.call = c.call
    BY <2>2, BlockLines
  <2> HIDE DEF l
  <2>4. Say(<<l>>, c.text, c.thinking, CallIn(c))
    <3>1. Spoken(l) /\ CallIn(l) = CallIn(c)
      BY <2>3 DEF Single, Spoken, CallIn
    <3> QED BY <2>3, <3>1, SayOne
  <2> QED BY <1>2, <2>1, <2>4, MuteBefore
<1>9. CASE Aspect(c) = "args"
  <2>1. ClaudeLines(c, s) = <<BlockDelta(c, s)>>
    BY <1>9 DEF ClaudeLines
  <2> QED BY <1>4, <1>9, <2>1
<1>10. CASE Aspect(c) = "finish"
  <2> DEFINE x == [Line EXCEPT !.type = "message_delta", !.finish = Renamed(c.finish, StopReason, "end_turn"),
                               !.usage = c.usage]
             y == [Line EXCEPT !.type = "message_stop"]
  <2>1. ClaudeLines(c, s) = CloseActive(s) \o <<x, y>>
    BY <1>10 DEF ClaudeLines
  <2>2. c.call = 0 /\ c.text = <<>> /\ c.thinking = <<>>
    BY <1>10 DEF Aspect, Single
  <2>3. x.text = <<>> /\ x.thinking = <<>> /\ x.call = 0 /\ y.text = <<>> /\ y.thinking = <<>> /\ y.call = 0
    BY DEF Line
  <2> HIDE DEF x, y
  <2>4. Mute(<<x>>) /\ Mute(<<y>>)
    BY <2>3, MuteOne
  <2>5. Mute(<<x, y>>)
    BY <2>4, PairIs, MuteBefore DEF Mute
  <2>6. Mute(CloseActive(s) \o <<x, y>>)
    BY <1>2, <2>5, MuteBefore DEF Mute
  <2> QED BY <2>1, <2>2, <2>6 DEF Mute, CallIn
<1>11. CASE Aspect(c) = "none"
  <2>1. ClaudeLines(c, s) = <<>>
    BY <1>11 DEF ClaudeLines
  <2>2. c.call = 0 /\ c.text = <<>> /\ c.thinking = <<>>
    BY <1>11 DEF Aspect
  <2> QED BY <2>1, <2>2, SayNothing DEF CallIn
<1>12. Aspect(c) \in {"role", "thinking", "text", "call", "args", "finish", "none"}
  BY DEF Aspect
<1> QED BY <1>5, <1>6, <1>7, <1>8, <1>9, <1>10, <1>11, <1>12

\* OpenAI's line says what is in the chunk.
LEMMA OpenAILinesSay ==
  ASSUME NEW c, NEW s, Single(c)
  PROVE  Say(OpenAILines(c, s), c.text, c.thinking, CallIn(c))
<1> DEFINE l == [Line EXCEPT !.role = c.role, !.text = c.text, !.thinking = c.thinking, !.call = c.call, !.args = c.args,
                             !.index = IF c.call # 0 \/ c.args # <<>> THEN s.index ELSE 0, !.finish = c.finish,
                             !.usage = c.usage]
<1>1. OpenAILines(c, s) = <<l>>
  BY DEF OpenAILines
<1>2. l.text = c.text /\ l.thinking = c.thinking /\ l.call = c.call
  BY DEF Line
<1> HIDE DEF l
<1>3. Spoken(l) /\ CallIn(l) = CallIn(c)
  BY <1>2 DEF Single, Spoken, CallIn
<1> QED BY <1>1, <1>2, <1>3, SayOne

\* Gemini's line, if there is one, has the text of the chunk; thoughts and
\* announcements have no place in it.
LEMMA GeminiLinesSay ==
  ASSUME NEW c, NEW s, Single(c)
  PROVE  Say(GeminiLines(c, s), c.text, <<>>, <<>>)
<1> DEFINE silent == c.thinking # <<>> \/ c.call # 0 \/ c.args # <<>>
           l == [Line EXCEPT !.role = c.role, !.text = IF silent THEN <<>> ELSE c.text,
                             !.calls = IF c.finish = Blank THEN {} ELSE s.calls,
                             !.finish = ToGeminiReason(c.finish), !.usage = c.usage]
<1>1. GeminiLines(c, s) = IF l = Line THEN <<>> ELSE <<l>>
  BY DEF GeminiLines
<1>2. l.text = c.text /\ l.thinking = <<>> /\ l.call = 0
  <2>1. l.text = IF silent THEN <<>> ELSE c.text
    BY DEF Line
  <2>2. silent => c.text = <<>>
    BY DEF Single
  <2>3. l.thinking = <<>> /\ l.call = 0
    BY DEF Line
  <2> QED BY <2>1, <2>2, <2>3
<1>3. Line.text = <<>>
  BY DEF Line
<1> HIDE DEF l
<1>4. Say(<<l>>, c.text, <<>>, <<>>)
  <2>1. Spoken(l) /\ CallIn(l) = <<>>
    BY <1>2, NoneIs DEF Single, Spoken, CallIn
  <2> QED BY <1>2, <2>1, SayOne
<1>5. l = Line => c.text = <<>>
  BY <1>2, <1>3
<1> QED BY <1>1, <1>4, <1>5, SayNothing

\* What is written of a chunk, by format.
Heard(f, text, thinking, calls, lines) ==
  Say(lines, text, IF f = "gemini" THEN <<>> ELSE thinking, IF f = "gemini" THEN <<>> ELSE calls)

\* Every client's lines say what is in the chunk.
LEMMA LinesSay ==
  ASSUME NEW f \in Clients, NEW c, NEW s, Single(c)
  PROVE  Heard(f, c.text, c.thinking, CallIn(c), CanonicalToStreamChunk(f, c, s))
BY ClaudeLinesSay, OpenAILinesSay, GeminiLinesSay DEF Heard, CanonicalToStreamChunk, Clients

-----------------------------------------------------------------------------
(* What they say of a sequence of chunks.                                  *)

\* The recursion of WriteAll.
WroteBy(wrote, f, chunks, s) ==
  /\ wrote[0] = [lines |-> <<>>, state |-> s]
  /\ \A k \in 1 .. Len(chunks) : wrote[k] = WriteChunk(f, wrote[k - 1], chunks[k])
  /\ WriteAll(f, chunks, s) = wrote[Len(chunks)]

\* WriteAll writes the chunks one by one.
LEMMA WroteDefined ==
  ASSUME NEW f, NEW chunks, NEW s, IsSeq(chunks)
  PROVE  \E wrote : WroteBy(wrote, f, chunks, s)
<1> DEFINE n == Len(chunks)
           wrote == CHOOSE g : g = [k \in 0 .. n |-> IF k = 0 THEN [lines |-> <<>>, state |-> s]
                                                     ELSE WriteChunk(f, g[k - 1], chunks[k])]
<1>1. n \in Nat
  BY SeqIs
<1>2. WriteAll(f, chunks, s) = wrote[n]
  BY DEF WriteAll
<1> HIDE DEF n
<1>3. wrote = [k \in 0 .. n |-> IF k = 0 THEN [lines |-> <<>>, state |-> s] ELSE WriteChunk(f, wrote[k - 1], chunks[k])]
  BY <1>1, WrittenDefined
<1> HIDE DEF wrote
<1>4. wrote[0] = [lines |-> <<>>, state |-> s]
  <2>1. 0 \in 0 .. n
    BY <1>1
  <2> QED BY <1>3, <2>1
<1>5. \A k \in 1 .. n : wrote[k] = WriteChunk(f, wrote[k - 1], chunks[k])
  <2> SUFFICES ASSUME NEW k \in 1 .. n PROVE wrote[k] = WriteChunk(f, wrote[k - 1], chunks[k])
    OBVIOUS
  <2>1. k \in 0 .. n /\ k # 0
    BY <1>1
  <2> QED BY <1>3, <2>1
<1>6. WroteBy(wrote, f, chunks, s)
  BY <1>2, <1>4, <1>5 DEF WroteBy, n
<1> QED BY <1>6

\* What one chunk adds to what was written.
LEMMA WriteChunkIs ==
  ASSUME NEW f, NEW w, NEW c
  PROVE  /\ WriteChunk(f, w, c).lines = w.lines \o CanonicalToStreamChunk(f, c, w.state)
         /\ WriteChunk(f, w, c).state = AfterChunk(f, c, w.state)
BY Zenon DEF WriteChunk

\* Nothing is written of no chunks.
LEMMA WriteNone ==
  ASSUME NEW f, NEW s
  PROVE  WriteAll(f, <<>>, s).lines = <<>> /\ WriteAll(f, <<>>, s).state = s
<1>1. IsSeq(<<>>) /\ Len(<<>>) = 0
  BY NoneIs
<1> DEFINE chunks == <<>>
<1> HIDE DEF chunks
<1>2. PICK wrote : WroteBy(wrote, f, chunks, s)
  BY <1>1, WroteDefined DEF chunks
<1>3. WriteAll(f, chunks, s) = [lines |-> <<>>, state |-> s]
  BY <1>1, <1>2 DEF WroteBy, chunks
<1>4. WriteAll(f, chunks, s).lines = <<>> /\ WriteAll(f, chunks, s).state = s
  BY <1>3
<1> QED BY <1>4 DEF chunks

\* What is written of one chunk.
LEMMA WriteOne ==
  ASSUME NEW f \in Clients, NEW c, NEW s
  PROVE  /\ WriteAll(f, <<c>>, s).lines = CanonicalToStreamChunk(f, c, s)
         /\ WriteAll(f, <<c>>, s).state = AfterChunk(f, c, s)
<1> DEFINE chunks == <<c>>
<1>1. IsSeq(chunks) /\ Len(chunks) = 1 /\ chunks[1] = c
  BY OneIs
<1> HIDE DEF chunks
<1>2. PICK wrote : WroteBy(wrote, f, chunks, s)
  BY <1>1, WroteDefined
<1>3. wrote[0].lines = <<>> /\ wrote[0].state = s
  BY <1>2 DEF WroteBy
<1>4. WriteAll(f, chunks, s) = WriteChunk(f, wrote[0], c)
  <2>1. 1 \in 1 .. 1 /\ 1 - 1 = 0
    OBVIOUS
  <2> QED BY <1>1, <1>2, <2>1 DEF WroteBy
<1>5. /\ WriteAll(f, chunks, s).lines = <<>> \o CanonicalToStreamChunk(f, c, s)
      /\ WriteAll(f, chunks, s).state = AfterChunk(f, c, s)
  <2>1. /\ WriteChunk(f, wrote[0], c).lines = wrote[0].lines \o CanonicalToStreamChunk(f, c, wrote[0].state)
        /\ WriteChunk(f, wrote[0], c).state = AfterChunk(f, c, wrote[0].state)
    BY WriteChunkIs
  <2> QED BY <1>3, <1>4, <2>1, Zenon
<1>6. IsSeq(CanonicalToStreamChunk(f, c, s))
  BY LinesAreWritten
<1> QED BY <1>5, <1>6, ConcatNone DEF chunks

\* The first k of a sequence.
First(s, k) == [i \in 1 .. k |-> s[i]]

\* The first elements of a sequence, one more at a time.
LEMMA FirstOf ==
  ASSUME NEW s, IsSeq(s)
  PROVE  /\ First(s, 0) = <<>> /\ First(s, Len(s)) = s
         /\ \A k \in 1 .. Len(s) : First(s, k) = First(s, k - 1) \o <<s[k]>>
<1>1. Len(s) \in Nat /\ DOMAIN s = 1 .. Len(s) /\ s = [i \in 1 .. Len(s) |-> s[i]]
  <2>1. PICK S : s \in Seq(S)
    BY DEF IsSeq
  <2> QED BY <2>1
<1>2. ASSUME NEW k \in 1 .. Len(s) PROVE First(s, k) = First(s, k - 1) \o <<s[k]>>
  <2> DEFINE w == First(s, k)
             u == First(s, k - 1)
             v == <<s[k]>>
  <2>1. k \in Nat /\ k - 1 \in Nat /\ k - 1 + 1 = k
    BY <1>1
  <2>2. /\ w = [i \in 1 .. k |-> w[i]] /\ u = [i \in 1 .. k - 1 |-> u[i]]
        /\ \A i \in 1 .. k - 1 : w[i] = u[i]
        /\ w[k] = s[k]
    BY <2>1 DEF First
  <2>3. IsSeq(v) /\ Len(v) = 1 /\ v[1] = s[k]
    BY OneIs
  <2> HIDE DEF w, u, v
  <2>4. IsSeq(w) /\ Len(w) = k /\ IsSeq(u) /\ Len(u) = k - 1
    BY <2>1, <2>2, ListIsSeq
  <2>5. /\ Len(w) = Len(u) + Len(v)
        /\ \A i \in 1 .. Len(u) : w[i] = u[i]
        /\ \A i \in 1 .. Len(v) : w[Len(u) + i] = v[i]
    <3>1. Len(w) = Len(u) + Len(v) /\ \A i \in 1 .. Len(u) : w[i] = u[i]
      BY <2>1, <2>2, <2>3, <2>4
    <3>2. \A i \in 1 .. Len(v) : i = 1
      BY <2>3
    <3>3. w[Len(u) + 1] = v[1]
      BY <2>1, <2>2, <2>3, <2>4
    <3> QED BY <3>1, <3>2, <3>3
  <2>6. w = u \o v
    BY <2>3, <2>4, <2>5, IsConcat
  <2> QED BY <2>6 DEF w, u, v
<1> QED BY <1>1, <1>2 DEF First

\* What is written of chunks says what they say.
LEMMA WriteAllSays ==
  ASSUME NEW f \in Clients, NEW chunks, NEW s, IsSeq(chunks), \A i \in DOMAIN chunks : Single(chunks[i])
  PROVE  Heard(f, TextIn(chunks), ThinkingIn(chunks), Announced(chunks), WriteAll(f, chunks, s).lines)
<1> DEFINE n == Len(chunks)
           pre(k) == First(chunks, k)
<1>1. n \in Nat /\ DOMAIN chunks = 1 .. n
  BY SeqIs
<1>2. PICK wrote : WroteBy(wrote, f, chunks, s)
  BY WroteDefined
<1> DEFINE Right(k) == /\ Say(pre(k), TextIn(pre(k)), ThinkingIn(pre(k)), Announced(pre(k)))
                       /\ Heard(f, TextIn(pre(k)), ThinkingIn(pre(k)), Announced(pre(k)), wrote[k].lines)
           B == {k \in 0 .. n : ~ Right(k)}
<1>3. Right(0)
  <2>1. pre(0) = <<>> /\ wrote[0].lines = <<>>
    BY <1>2, FirstOf DEF WroteBy
  <2>2. Say(pre(0), <<>>, <<>>, <<>>)
    BY <2>1, SayNothing
  <2> QED BY <2>1, <2>2 DEF Say, Heard
<1>4. ASSUME NEW m \in 1 .. n, Right(m - 1) PROVE Right(m)
  <2> DEFINE c == chunks[m]
             w == wrote[m - 1]
             out == CanonicalToStreamChunk(f, c, w.state)
  <2>1. Single(c)
    BY <1>1
  <2>2. wrote[m].lines = w.lines \o out
    <3>1. wrote[m] = WriteChunk(f, w, c)
      BY <1>2 DEF WroteBy
    <3>2. WriteChunk(f, w, c).lines = w.lines \o CanonicalToStreamChunk(f, c, w.state)
      BY WriteChunkIs
    <3> QED BY <3>1, <3>2, Zenon
  <2>3. pre(m) = pre(m - 1) \o <<c>>
    BY FirstOf
  <2>4. Say(<<c>>, c.text, c.thinking, CallIn(c))
    BY <2>1, SayOne DEF Single
  <2>5. Heard(f, c.text, c.thinking, CallIn(c), out)
    BY <2>1, LinesSay
  <2> HIDE DEF pre, c, w, out
  <2>6. Say(pre(m), TextIn(pre(m - 1)) \o c.text, ThinkingIn(pre(m - 1)) \o c.thinking, Announced(pre(m - 1)) \o CallIn(c))
    BY <1>4, <2>3, <2>4, SayConcat
  <2>7. /\ TextIn(pre(m)) = TextIn(pre(m - 1)) \o c.text
        /\ ThinkingIn(pre(m)) = ThinkingIn(pre(m - 1)) \o c.thinking
        /\ Announced(pre(m)) = Announced(pre(m - 1)) \o CallIn(c)
    BY <2>6 DEF Say
  <2>8. CASE f = "gemini"
    <3>1. Say(wrote[m - 1].lines, TextIn(pre(m - 1)), <<>>, <<>>) /\ Say(out, c.text, <<>>, <<>>)
      BY <1>4, <2>5, <2>8 DEF Heard
    <3>2. Say(wrote[m].lines, TextIn(pre(m - 1)) \o c.text, <<>> \o <<>>, <<>> \o <<>>)
      BY <2>2, <3>1, SayConcat DEF w
    <3>3. <<>> \o <<>> = <<>>
      BY NoneIs, ConcatNone
    <3>4. Say(wrote[m].lines, TextIn(pre(m)), <<>>, <<>>)
      BY <2>7, <3>2, <3>3
    <3> QED BY <2>6, <2>7, <2>8, <3>4 DEF Heard
  <2>9. CASE f # "gemini"
    <3>1. /\ Say(wrote[m - 1].lines, TextIn(pre(m - 1)), ThinkingIn(pre(m - 1)), Announced(pre(m - 1)))
          /\ Say(out, c.text, c.thinking, CallIn(c))
      BY <1>4, <2>5, <2>9 DEF Heard
    <3>2. Say(wrote[m].lines, TextIn(pre(m - 1)) \o c.text, ThinkingIn(pre(m - 1)) \o c.thinking,
              Announced(pre(m - 1)) \o CallIn(c))
      BY <2>2, <3>1, SayConcat DEF w
    <3> QED BY <2>6, <2>7, <2>9, <3>2 DEF Heard
  <2> QED BY <2>8, <2>9
<1> HIDE DEF Right
<1>5. B = {}
  <2> SUFFICES ASSUME B # {} PROVE FALSE
    OBVIOUS
  <2>1. PICK m \in B : \A b \in B : m <= b
    <3>1. B \in SUBSET Nat
      BY <1>1
    <3> HIDE DEF B
    <3> QED BY <3>1, SmallestNatIn
  <2>2. m \in 0 .. n /\ ~ Right(m)
    OBVIOUS
  <2>3. m \in 1 .. n /\ m - 1 \in 0 .. n /\ ~ (m <= m - 1)
    BY <1>1, <1>3, <2>2
  <2>4. m - 1 \notin B
    <3> HIDE DEF B
    <3> QED BY <2>1, <2>3
  <2> QED BY <1>4, <2>2, <2>3, <2>4
<1>6. Right(n)
  BY <1>1, <1>5
<1>7. pre(n) = chunks /\ WriteAll(f, chunks, s) = wrote[n]
  BY <1>2, FirstOf DEF WroteBy
<1> QED BY <1>6, <1>7 DEF Right

-----------------------------------------------------------------------------
(* The end of a reply in the client's lines.                               *)

\* The ends of a reply, and the word for its limit, in every format.
Limits == {"max_tokens", "length", "MAX_TOKENS", "incomplete"}

\* A chunk's finish: none, or one of these.
Reasons == {Blank, "stop", "length", "tool_calls", "error"}

\* An absent field is none of the words.
LEMMA BlankIsNoWord ==
  /\ Blank \notin Limits
  /\ Blank \notin {"failed", "error", "stop", "tool_calls", "end_turn", "tool_use", "STOP", "completed"}
  /\ Blank \notin {"message_start", "block_start", "block_delta", "block_stop", "message_delta", "message_stop"}
  /\ Blank \notin {"created", "output_text.delta", "output_item.added", "[DONE]"}
  /\ Blank \notin {"server_tool_use", "server_tool", "text", "thinking"}
BY Zenon DEF Blank, Limits

\* Lines that finish just if fin, at the limit just if cut.
EndsAs(lines, fin, cut) == IsSeq(lines) /\ (Finished(lines) <=> fin) /\ (CutShort(lines) <=> cut)

\* No lines finish nothing.
LEMMA EndsNone == EndsAs(<<>>, FALSE, FALSE)
BY NoneIs DEF EndsAs, Finished, CutShort

\* One line.
LEMMA EndsOne ==
  ASSUME NEW l
  PROVE  EndsAs(<<l>>, l.finish # Blank \/ l.type \in {"failed", "error"}, l.finish \in Limits)
<1> DEFINE s == <<l>>
<1>1. IsSeq(s) /\ DOMAIN s = {1} /\ s[1] = l
  BY OneIs
<1> HIDE DEF s
<1>2. EndsAs(s, l.finish # Blank \/ l.type \in {"failed", "error"}, l.finish \in Limits)
  BY <1>1 DEF EndsAs, Finished, CutShort, Limits
<1> QED BY <1>2 DEF s

\* Lines after lines.
LEMMA EndsConcat ==
  ASSUME NEW a, NEW b, NEW f1 \in BOOLEAN, NEW c1 \in BOOLEAN, NEW f2 \in BOOLEAN, NEW c2 \in BOOLEAN,
         EndsAs(a, f1, c1), EndsAs(b, f2, c2)
  PROVE  EndsAs(a \o b, f1 \/ f2, c1 \/ c2)
<1>1. /\ IsSeq(a \o b) /\ Len(a \o b) = Len(a) + Len(b)
      /\ \A i \in 1 .. Len(a) + Len(b) : (a \o b)[i] = IF i <= Len(a) THEN a[i] ELSE b[i - Len(a)]
  BY ConcatIs DEF EndsAs
<1>2. /\ Len(a) \in Nat /\ DOMAIN a = 1 .. Len(a) /\ Len(b) \in Nat /\ DOMAIN b = 1 .. Len(b)
      /\ DOMAIN (a \o b) = 1 .. Len(a) + Len(b)
  BY <1>1, SeqIs DEF EndsAs
<1> DEFINE w == a \o b
<1> HIDE DEF w
<1>3. \A i \in DOMAIN a : i \in DOMAIN w /\ w[i] = a[i]
  BY <1>1, <1>2 DEF w
<1>4. \A i \in DOMAIN b : Len(a) + i \in DOMAIN w /\ w[Len(a) + i] = b[i]
  BY <1>1, <1>2 DEF w
<1>5. \A i \in DOMAIN w : (i \in DOMAIN a /\ w[i] = a[i]) \/ (i - Len(a) \in DOMAIN b /\ w[i] = b[i - Len(a)])
  BY <1>1, <1>2 DEF w
<1>6. Finished(w) <=> Finished(a) \/ Finished(b)
  BY <1>3, <1>4, <1>5 DEF Finished
<1>7. CutShort(w) <=> CutShort(a) \/ CutShort(b)
  BY <1>3, <1>4, <1>5 DEF CutShort
<1>8. IsSeq(w)
  BY <1>1 DEF w
<1>9. EndsAs(w, f1 \/ f2, c1 \/ c2)
  BY <1>6, <1>7, <1>8 DEF EndsAs
<1> QED BY <1>9 DEF w

\* Lines without an end, before or after.
LEMMA EndsBeside ==
  ASSUME NEW a, NEW b, NEW fin \in BOOLEAN, NEW cut \in BOOLEAN, EndsAs(a, FALSE, FALSE), EndsAs(b, fin, cut)
  PROVE  EndsAs(a \o b, fin, cut) /\ EndsAs(b \o a, fin, cut)
<1>1. EndsAs(a \o b, FALSE \/ fin, FALSE \/ cut)
  BY EndsConcat
<1>2. EndsAs(b \o a, fin \/ FALSE, cut \/ FALSE)
  BY EndsConcat
<1> QED BY <1>1, <1>2 DEF EndsAs

\* Lines with no end in them.
LEMMA EndsQuiet ==
  ASSUME NEW l, l.finish = Blank, l.type \notin {"failed", "error"}
  PROVE  EndsAs(<<l>>, FALSE, FALSE)
BY EndsOne, BlankIsNoWord DEF EndsAs

\* The fields of the lines of a block.
LEMMA BlockEnds ==
  ASSUME NEW kind, NEW call, NEW c, NEW s
  PROVE  /\ EndsAs(<<BlockStart(kind, call, s)>>, FALSE, FALSE)
         /\ EndsAs(<<BlockDelta(c, s)>>, FALSE, FALSE)
         /\ EndsAs(<<BlockStop(s)>>, FALSE, FALSE)
<1>1. /\ BlockStart(kind, call, s).finish = Blank /\ BlockStart(kind, call, s).type = "block_start"
      /\ BlockDelta(c, s).finish = Blank /\ BlockDelta(c, s).type = "block_delta"
      /\ BlockStop(s).finish = Blank /\ BlockStop(s).type = "block_stop"
  BY DEF BlockStart, BlockDelta, BlockStop, Line
<1> QED BY <1>1, EndsQuiet

\* Claude's lines finish with the chunk.
LEMMA ClaudeLinesEnd ==
  ASSUME NEW c, NEW s, Single(c), c.finish \in Reasons
  PROVE  EndsAs(ClaudeLines(c, s), c.finish # Blank, c.finish = "length")
<1> DEFINE Still(lines) == EndsAs(lines, FALSE, FALSE)
<1>1. /\ Still(<<>>) /\ \A x : Still(<<BlockStop(x)>>) /\ Still(<<BlockDelta(c, x)>>)
      /\ \A kind, call, x : Still(<<BlockStart(kind, call, x)>>)
  BY EndsNone, BlockEnds
<1>2. ASSUME NEW a, NEW b, Still(a), Still(b) PROVE Still(a \o b)
  BY <1>2, EndsConcat
<1>3. Still(CloseActive(s))
  BY <1>1 DEF CloseActive
<1> HIDE DEF Still
<1>4. CASE Aspect(c) = "role"
  <2>1. ClaudeLines(c, s) = <<[Line EXCEPT !.type = "message_start"]>>
    BY <1>4 DEF ClaudeLines
  <2>2. [Line EXCEPT !.type = "message_start"].finish = Blank /\ [Line EXCEPT !.type = "message_start"].type = "message_start"
    BY DEF Line
  <2>3. c.finish = Blank
    BY <1>4 DEF Aspect, Single
  <2> QED BY <2>1, <2>2, <2>3, EndsQuiet, BlankIsNoWord DEF Limits
<1>5. CASE Aspect(c) = "thinking"
  <2> DEFINE start == IF s.thinking THEN <<>> ELSE <<BlockStart("thinking", 0, s)>>
  <2>1. ClaudeLines(c, s) = start \o <<BlockDelta(c, s)>>
    BY <1>5 DEF ClaudeLines
  <2>2. Still(start)
    BY <1>1
  <2>3. c.finish = Blank
    BY <1>5 DEF Aspect, Single
  <2> HIDE DEF start
  <2>4. Still(ClaudeLines(c, s))
    BY <1>1, <1>2, <2>1, <2>2
  <2> QED BY <2>3, <2>4, BlankIsNoWord DEF Still, Limits
<1>6. CASE Aspect(c) = "text"
  <2>3. c.finish = Blank
    BY <1>6 DEF Aspect, Single
  <2>1. CASE s.thinking
    <3>1. ClaudeLines(c, s)
            = <<BlockStop(s), BlockStart("text", 0, NextIndex(s)), BlockDelta(c, NextIndex(s))>>
      BY <1>6, <2>1 DEF ClaudeLines
    <3>2. ClaudeLines(c, s)
            = (<<BlockStop(s)>> \o <<BlockStart("text", 0, NextIndex(s))>>) \o <<BlockDelta(c, NextIndex(s))>>
      BY <3>1, PairIs, TripleIs
    <3>3. Still(<<BlockStop(s)>> \o <<BlockStart("text", 0, NextIndex(s))>>)
      BY <1>1, <1>2
    <3>4. Still(ClaudeLines(c, s))
      BY <1>1, <1>2, <3>2, <3>3
    <3> QED BY <2>3, <3>4, BlankIsNoWord DEF Still, Limits
  <2>2. CASE ~ s.thinking
    <3> DEFINE start == IF s.active = "text" THEN <<>> ELSE <<BlockStart("text", 0, s)>>
    <3>1. ClaudeLines(c, s) = start \o <<BlockDelta(c, s)>>
      BY <1>6, <2>2 DEF ClaudeLines
    <3>2. Still(start)
      BY <1>1
    <3> HIDE DEF start
    <3>4. Still(ClaudeLines(c, s))
      BY <1>1, <1>2, <3>1, <3>2
    <3> QED BY <2>3, <3>4, BlankIsNoWord DEF Still, Limits
  <2> QED BY <2>1, <2>2
<1>7. CASE Aspect(c) = "call"
  <2>1. ClaudeLines(c, s) = CloseActive(s) \o <<BlockStart("tool_use", c.call, ForCall(s))>>
    BY <1>7 DEF ClaudeLines
  <2>2. c.finish = Blank
    BY <1>7 DEF Aspect, Single
  <2>3. Still(ClaudeLines(c, s))
    BY <1>1, <1>2, <1>3, <2>1
  <2> QED BY <2>2, <2>3, BlankIsNoWord DEF Still, Limits
<1>8. CASE Aspect(c) = "args"
  <2>1. ClaudeLines(c, s) = <<BlockDelta(c, s)>>
    BY <1>8 DEF ClaudeLines
  <2>2. c.finish = Blank
    BY <1>8 DEF Aspect, Single
  <2>3. Still(ClaudeLines(c, s))
    BY <1>1, <2>1
  <2> QED BY <2>2, <2>3, BlankIsNoWord DEF Still, Limits
<1>9. CASE Aspect(c) = "finish"
  <2> DEFINE x == [Line EXCEPT !.type = "message_delta", !.finish = Renamed(c.finish, StopReason, "end_turn"),
                               !.usage = c.usage]
             y == [Line EXCEPT !.type = "message_stop"]
  <2>1. ClaudeLines(c, s) = CloseActive(s) \o <<x, y>>
    BY <1>9 DEF ClaudeLines
  <2>2. c.finish \in {"stop", "length", "tool_calls", "error"} /\ c.finish # Blank
    BY <1>9 DEF Aspect, Reasons
  <2>3. Renamed(c.finish, StopReason, "end_turn")
          = IF c.finish = "length" THEN "max_tokens" ELSE IF c.finish = "tool_calls" THEN "tool_use" ELSE "end_turn"
    BY <2>2 DEF Renamed, StopReason
  <2>4. /\ x.finish = Renamed(c.finish, StopReason, "end_turn") /\ x.type = "message_delta"
        /\ y.finish = Blank /\ y.type = "message_stop"
    BY DEF Line
  <2> HIDE DEF x, y
  <2>5. x.finish # Blank /\ (x.finish \in Limits <=> c.finish = "length")
    BY <2>3, <2>4, BlankIsNoWord DEF Limits
  <2>6. EndsAs(<<x>>, TRUE, c.finish = "length") /\ EndsAs(<<y>>, FALSE, FALSE)
    BY <2>4, <2>5, EndsOne, EndsQuiet DEF EndsAs
  <2>7. <<x, y>> = <<x>> \o <<y>>
    BY PairIs
  <2> DEFINE cut == c.finish = "length"
             u == <<x>>
             v == <<y>>
             w == CloseActive(s)
  <2>8. EndsAs(u, TRUE, cut) /\ EndsAs(v, FALSE, FALSE) /\ EndsAs(w, FALSE, FALSE) /\ cut \in BOOLEAN
    BY <1>3, <2>6 DEF Still
  <2>9. ClaudeLines(c, s) = w \o (u \o v)
    BY <2>1, <2>7
  <2> HIDE DEF cut, u, v, w
  <2>10. EndsAs(u \o v, TRUE, cut)
    BY <2>8, EndsBeside
  <2>11. EndsAs(w \o (u \o v), TRUE, cut)
    BY <2>8, <2>10, EndsBeside
  <2> QED BY <2>2, <2>9, <2>11 DEF EndsAs, cut
<1>10. CASE Aspect(c) = "none"
  <2>1. ClaudeLines(c, s) = <<>> /\ c.finish = Blank
    BY <1>10 DEF ClaudeLines, Aspect
  <2> QED BY <2>1, EndsNone, BlankIsNoWord DEF Limits
<1>11. Aspect(c) \in {"role", "thinking", "text", "call", "args", "finish", "none"}
  BY DEF Aspect
<1> QED BY <1>4, <1>5, <1>6, <1>7, <1>8, <1>9, <1>10, <1>11

\* So does a line of OpenAI's.
LEMMA OpenAILinesEnd ==
  ASSUME NEW c, NEW s, c.finish \in Reasons
  PROVE  EndsAs(OpenAILines(c, s), c.finish # Blank, c.finish = "length")
<1> DEFINE l == [Line EXCEPT !.role = c.role, !.text = c.text, !.thinking = c.thinking, !.call = c.call, !.args = c.args,
                             !.index = IF c.call # 0 \/ c.args # <<>> THEN s.index ELSE 0, !.finish = c.finish,
                             !.usage = c.usage]
<1>1. OpenAILines(c, s) = <<l>>
  BY DEF OpenAILines
<1>2. l.finish = c.finish /\ l.type = Blank
  BY DEF Line
<1> HIDE DEF l
<1>3. l.type \notin {"failed", "error"} /\ (l.finish \in Limits <=> c.finish = "length")
  BY <1>2, BlankIsNoWord DEF Reasons, Limits
<1> QED BY <1>1, <1>2, <1>3, EndsOne DEF EndsAs

\* And the line of Gemini's, which there is if the chunk has an end.
LEMMA GeminiLinesEnd ==
  ASSUME NEW c, NEW s, c.finish \in Reasons
  PROVE  EndsAs(GeminiLines(c, s), c.finish # Blank, c.finish = "length")
<1> DEFINE silent == c.thinking # <<>> \/ c.call # 0 \/ c.args # <<>>
           l == [Line EXCEPT !.role = c.role, !.text = IF silent THEN <<>> ELSE c.text,
                             !.calls = IF c.finish = Blank THEN {} ELSE s.calls,
                             !.finish = ToGeminiReason(c.finish), !.usage = c.usage]
<1>1. GeminiLines(c, s) = IF l = Line THEN <<>> ELSE <<l>>
  BY DEF GeminiLines
<1>2. l.finish = ToGeminiReason(c.finish) /\ l.type = Blank /\ Line.finish = Blank
  BY DEF Line
<1>3. /\ ToGeminiReason(c.finish) # Blank <=> c.finish # Blank
      /\ ToGeminiReason(c.finish) \in Limits <=> c.finish = "length"
  <2>1. ToGeminiReason(c.finish) = IF c.finish = Blank THEN Blank ELSE IF c.finish = "length" THEN "MAX_TOKENS" ELSE "STOP"
    BY DEF ToGeminiReason
  <2> QED BY <2>1, BlankIsNoWord DEF Limits
<1> HIDE DEF l
<1>4. l = Line => c.finish = Blank
  BY <1>2, <1>3
<1>5. l.type \notin {"failed", "error"}
  BY <1>2, BlankIsNoWord
<1>6. EndsAs(<<l>>, c.finish # Blank, c.finish = "length")
  BY <1>2, <1>3, <1>5, EndsOne DEF EndsAs
<1> QED BY <1>1, <1>4, <1>6, EndsNone, BlankIsNoWord DEF Limits

\* What is written of a chunk finishes with it, in every format.
LEMMA LinesEnd ==
  ASSUME NEW f \in Clients, NEW c, NEW s, Single(c), c.finish \in Reasons
  PROVE  EndsAs(CanonicalToStreamChunk(f, c, s), c.finish # Blank, c.finish = "length")
BY ClaudeLinesEnd, OpenAILinesEnd, GeminiLinesEnd DEF CanonicalToStreamChunk, Clients

-----------------------------------------------------------------------------
(* What chunks bring: words and an end.                                    *)

\* What chunks bring: text, thoughts, calls, an end, and that of the limit.
Bring(chunks, text, thinking, calls, fin, cut) ==
  /\ Say(chunks, text, thinking, calls)
  /\ \A i \in DOMAIN chunks : Single(chunks[i]) /\ chunks[i].finish \in Reasons
  /\ (\E i \in DOMAIN chunks : chunks[i].finish # Blank) <=> fin
  /\ (\E i \in DOMAIN chunks : chunks[i].finish = "length") <=> cut

\* No chunks bring nothing.
Nothing(chunks) == Bring(chunks, <<>>, <<>>, <<>>, FALSE, FALSE)

\* No chunks bring nothing.
LEMMA BringNone == Nothing(<<>>)
BY SayNothing, NoneIs DEF Bring, Nothing

\* One chunk brings its own.
LEMMA BringOne ==
  ASSUME NEW c, Single(c), c.finish \in Reasons
  PROVE  Bring(<<c>>, c.text, c.thinking, CallIn(c), c.finish # Blank, c.finish = "length")
<1> DEFINE s == <<c>>
<1>1. DOMAIN s = {1} /\ s[1] = c
  BY OneIs
<1>2. Say(s, c.text, c.thinking, CallIn(c))
  BY SayOne DEF Single
<1> HIDE DEF s
<1>3. Bring(s, c.text, c.thinking, CallIn(c), c.finish # Blank, c.finish = "length")
  BY <1>1, <1>2 DEF Bring
<1> QED BY <1>3 DEF s

\* Chunks after chunks bring the ones and then the others.
LEMMA BringConcat ==
  ASSUME NEW a, NEW b, NEW t1, NEW h1, NEW k1, NEW f1 \in BOOLEAN, NEW c1 \in BOOLEAN,
         NEW t2, NEW h2, NEW k2, NEW f2 \in BOOLEAN, NEW c2 \in BOOLEAN,
         Bring(a, t1, h1, k1, f1, c1), Bring(b, t2, h2, k2, f2, c2)
  PROVE  Bring(a \o b, t1 \o t2, h1 \o h2, k1 \o k2, f1 \/ f2, c1 \/ c2)
<1>1. IsSeq(a) /\ IsSeq(b)
  BY DEF Bring, Say
<1>2. /\ IsSeq(a \o b) /\ Len(a \o b) = Len(a) + Len(b)
      /\ \A i \in 1 .. Len(a) + Len(b) : (a \o b)[i] = IF i <= Len(a) THEN a[i] ELSE b[i - Len(a)]
  BY <1>1, ConcatIs
<1>3. /\ Len(a) \in Nat /\ DOMAIN a = 1 .. Len(a) /\ Len(b) \in Nat /\ DOMAIN b = 1 .. Len(b)
      /\ DOMAIN (a \o b) = 1 .. Len(a) + Len(b)
  BY <1>1, <1>2, SeqIs
<1>4. Say(a \o b, t1 \o t2, h1 \o h2, k1 \o k2)
  BY SayConcat DEF Bring
<1> DEFINE w == a \o b
<1> HIDE DEF w
<1>5. \A i \in DOMAIN a : i \in DOMAIN w /\ w[i] = a[i]
  BY <1>2, <1>3 DEF w
<1>6. \A i \in DOMAIN b : Len(a) + i \in DOMAIN w /\ w[Len(a) + i] = b[i]
  BY <1>2, <1>3 DEF w
<1>7. \A i \in DOMAIN w : (i \in DOMAIN a /\ w[i] = a[i]) \/ (i - Len(a) \in DOMAIN b /\ w[i] = b[i - Len(a)])
  BY <1>2, <1>3 DEF w
<1>8. \A i \in DOMAIN w : Single(w[i]) /\ w[i].finish \in Reasons
  <2> SUFFICES ASSUME NEW i \in DOMAIN w PROVE Single(w[i]) /\ w[i].finish \in Reasons
    OBVIOUS
  <2>1. CASE i \in DOMAIN a /\ w[i] = a[i]
    BY <2>1 DEF Bring
  <2>2. CASE i - Len(a) \in DOMAIN b /\ w[i] = b[i - Len(a)]
    BY <2>2 DEF Bring
  <2> QED BY <1>7, <2>1, <2>2
<1>9. (\E i \in DOMAIN w : w[i].finish # Blank) <=> f1 \/ f2
  <2>1. ASSUME NEW i \in DOMAIN w, w[i].finish # Blank PROVE f1 \/ f2
    BY <1>7, <2>1 DEF Bring
  <2>2. ASSUME f1 PROVE \E i \in DOMAIN w : w[i].finish # Blank
    <3>1. PICK i \in DOMAIN a : a[i].finish # Blank
      BY <2>2 DEF Bring
    <3> QED BY <1>5, <3>1
  <2>3. ASSUME f2 PROVE \E i \in DOMAIN w : w[i].finish # Blank
    <3>1. PICK i \in DOMAIN b : b[i].finish # Blank
      BY <2>3 DEF Bring
    <3> QED BY <1>6, <3>1
  <2> QED BY <2>1, <2>2, <2>3
<1>10. (\E i \in DOMAIN w : w[i].finish = "length") <=> c1 \/ c2
  <2>1. ASSUME NEW i \in DOMAIN w, w[i].finish = "length" PROVE c1 \/ c2
    BY <1>7, <2>1 DEF Bring
  <2>2. ASSUME c1 PROVE \E i \in DOMAIN w : w[i].finish = "length"
    <3>1. PICK i \in DOMAIN a : a[i].finish = "length"
      BY <2>2 DEF Bring
    <3> QED BY <1>5, <3>1
  <2>3. ASSUME c2 PROVE \E i \in DOMAIN w : w[i].finish = "length"
    <3>1. PICK i \in DOMAIN b : b[i].finish = "length"
      BY <2>3 DEF Bring
    <3> QED BY <1>6, <3>1
  <2> QED BY <2>1, <2>2, <2>3
<1>11. Bring(w, t1 \o t2, h1 \o h2, k1 \o k2, f1 \/ f2, c1 \/ c2)
  BY <1>4, <1>8, <1>9, <1>10 DEF Bring, w
<1> QED BY <1>11 DEF w

\* What is brought is sequences.
LEMMA BroughtIsSeq ==
  ASSUME NEW a, NEW t, NEW h, NEW k, NEW f, NEW c, Bring(a, t, h, k, f, c)
  PROVE  IsSeq(a) /\ IsSeq(t) /\ IsSeq(h) /\ IsSeq(k)
<1>1. Say(a, t, h, k)
  BY DEF Bring
<1>2. IsSeq(t) /\ IsSeq(h) /\ IsSeq(k)
  BY <1>1, SaidIsSeq
<1> QED BY <1>1, <1>2 DEF Say

\* Chunks that bring nothing, before or after.
LEMMA BringBeside ==
  ASSUME NEW a, Nothing(a), NEW b, NEW t, NEW h, NEW k, NEW f \in BOOLEAN, NEW c \in BOOLEAN, Bring(b, t, h, k, f, c)
  PROVE  Bring(a \o b, t, h, k, f, c) /\ Bring(b \o a, t, h, k, f, c)
<1>1. IsSeq(t) /\ IsSeq(h) /\ IsSeq(k)
  BY BroughtIsSeq
<1>2. Bring(a \o b, <<>> \o t, <<>> \o h, <<>> \o k, FALSE \/ f, FALSE \/ c)
  <2>1. ASSUME NEW t1, NEW h1, NEW k1, NEW f1 \in BOOLEAN, NEW c1 \in BOOLEAN, Bring(a, t1, h1, k1, f1, c1)
        PROVE  Bring(a \o b, t1 \o t, h1 \o h, k1 \o k, f1 \/ f, c1 \/ c)
    BY <2>1, BringConcat
  <2>2. Bring(a, <<>>, <<>>, <<>>, FALSE, FALSE)
    BY DEF Nothing
  <2> QED BY <2>1, <2>2
<1>3. Bring(b \o a, t \o <<>>, h \o <<>>, k \o <<>>, f \/ FALSE, c \/ FALSE)
  BY BringConcat DEF Nothing
<1>4. <<>> \o t = t /\ <<>> \o h = h /\ <<>> \o k = k /\ t \o <<>> = t /\ h \o <<>> = h /\ k \o <<>> = k
  BY <1>1, ConcatNone
<1>5. Bring(a \o b, t, h, k, FALSE \/ f, FALSE \/ c) /\ Bring(b \o a, t, h, k, f \/ FALSE, c \/ FALSE)
  BY <1>2, <1>3, <1>4
<1> QED BY <1>5 DEF Bring

\* An empty chunk has nothing in it.
LEMMA ChunkIs ==
  /\ Chunk.role = FALSE /\ Chunk.text = <<>> /\ Chunk.thinking = <<>> /\ Chunk.call = 0 /\ Chunk.args = <<>>
  /\ Chunk.finish = Blank /\ Chunk.usage = FALSE
  /\ DOMAIN Chunk = {"role", "text", "thinking", "call", "args", "finish", "usage"}
BY DEF Chunk

\* A chunk that is left out if there is nothing in it.
LEMMA BringTold ==
  ASSUME NEW c, Single(c), c.finish \in Reasons
  PROVE  Bring(Told(c), c.text, c.thinking, CallIn(c), c.finish # Blank, c.finish = "length")
<1>1. CASE c = Chunk
  <2>1. c.text = <<>> /\ c.thinking = <<>> /\ CallIn(c) = <<>> /\ c.finish = Blank /\ Told(c) = <<>>
    BY <1>1, ChunkIs DEF CallIn, Told
  <2>2. c.finish # "length"
    BY <2>1, BlankIsNoWord DEF Limits
  <2> QED BY <2>1, <2>2, BringNone DEF Nothing, Bring
<1>2. CASE c # Chunk
  BY <1>2, BringOne DEF Told
<1> QED BY <1>1, <1>2

\* What is written of chunks finishes with them.
LEMMA WriteAllEnds ==
  ASSUME NEW f \in Clients, NEW chunks, NEW s, IsSeq(chunks),
         \A i \in DOMAIN chunks : Single(chunks[i]) /\ chunks[i].finish \in Reasons
  PROVE  EndsAs(WriteAll(f, chunks, s).lines, \E i \in DOMAIN chunks : chunks[i].finish # Blank,
                \E i \in DOMAIN chunks : chunks[i].finish = "length")
<1> DEFINE n == Len(chunks)
           fin(k) == \E i \in 1 .. k : chunks[i].finish # Blank
           cut(k) == \E i \in 1 .. k : chunks[i].finish = "length"
<1>1. n \in Nat /\ DOMAIN chunks = 1 .. n
  BY SeqIs
<1>2. PICK wrote : WroteBy(wrote, f, chunks, s)
  BY WroteDefined
<1> DEFINE Right(k) == EndsAs(wrote[k].lines, fin(k), cut(k))
           B == {k \in 0 .. n : ~ Right(k)}
<1>3. Right(0)
  <2>1. wrote[0].lines = <<>>
    BY <1>2 DEF WroteBy
  <2> QED BY <2>1, EndsNone DEF EndsAs
<1>4. ASSUME NEW m \in 1 .. n, Right(m - 1) PROVE Right(m)
  <2> DEFINE c == chunks[m]
             w == wrote[m - 1]
             out == CanonicalToStreamChunk(f, c, w.state)
             f1 == fin(m - 1)
             c1 == cut(m - 1)
             f2 == c.finish # Blank
             c2 == c.finish = "length"
  <2>1. Single(c) /\ c.finish \in Reasons
    BY <1>1
  <2>2. wrote[m].lines = w.lines \o out
    <3>1. wrote[m] = WriteChunk(f, w, c)
      BY <1>2 DEF WroteBy
    <3>2. WriteChunk(f, w, c).lines = w.lines \o CanonicalToStreamChunk(f, c, w.state)
      BY WriteChunkIs
    <3> QED BY <3>1, <3>2, Zenon
  <2>3. EndsAs(out, f2, c2)
    BY <2>1, LinesEnd
  <2>4. EndsAs(w.lines, f1, c1) /\ f1 \in BOOLEAN /\ c1 \in BOOLEAN /\ f2 \in BOOLEAN /\ c2 \in BOOLEAN
    BY <1>4
  <2>5. \A i \in 1 .. m : i = m \/ i \in 1 .. m - 1
    BY <1>1
  <2>6. m \in 1 .. m /\ \A i \in 1 .. m - 1 : i \in 1 .. m
    BY <1>1
  <2>7. (fin(m) <=> f1 \/ f2) /\ (cut(m) <=> c1 \/ c2)
    BY <2>5, <2>6
  <2> HIDE DEF c, w, out, f1, c1, f2, c2, fin, cut
  <2>8. EndsAs(w.lines \o out, f1 \/ f2, c1 \/ c2)
    BY <2>3, <2>4, EndsConcat
  <2> QED BY <2>2, <2>7, <2>8 DEF EndsAs
<1> HIDE DEF Right
<1>5. B = {}
  <2> SUFFICES ASSUME B # {} PROVE FALSE
    OBVIOUS
  <2>1. PICK m \in B : \A b \in B : m <= b
    <3>1. B \in SUBSET Nat
      BY <1>1
    <3> HIDE DEF B
    <3> QED BY <3>1, SmallestNatIn
  <2>2. m \in 0 .. n /\ ~ Right(m)
    OBVIOUS
  <2>3. m \in 1 .. n /\ m - 1 \in 0 .. n /\ ~ (m <= m - 1)
    BY <1>1, <1>3, <2>2
  <2>4. m - 1 \notin B
    <3> HIDE DEF B
    <3> QED BY <2>1, <2>3
  <2> QED BY <1>4, <2>2, <2>3, <2>4
<1>6. Right(n)
  BY <1>1, <1>5
<1>7. WriteAll(f, chunks, s) = wrote[n]
  BY <1>2 DEF WroteBy
<1> QED BY <1>1, <1>6, <1>7 DEF Right

\* What is written of what chunks bring.
LEMMA BroughtIsWritten ==
  ASSUME NEW f \in Clients, NEW chunks, NEW s, NEW t, NEW h, NEW k, NEW fin \in BOOLEAN, NEW cut \in BOOLEAN,
         Bring(chunks, t, h, k, fin, cut)
  PROVE  /\ Heard(f, t, h, k, WriteAll(f, chunks, s).lines)
         /\ EndsAs(WriteAll(f, chunks, s).lines, fin, cut)
<1>1. /\ IsSeq(chunks) /\ TextIn(chunks) = t /\ ThinkingIn(chunks) = h /\ Announced(chunks) = k
      /\ \A i \in DOMAIN chunks : Single(chunks[i]) /\ chunks[i].finish \in Reasons
      /\ (\E i \in DOMAIN chunks : chunks[i].finish # Blank) <=> fin
      /\ (\E i \in DOMAIN chunks : chunks[i].finish = "length") <=> cut
  BY DEF Bring, Say
<1>2. Heard(f, t, h, k, WriteAll(f, chunks, s).lines)
  BY <1>1, WriteAllSays
<1>3. EndsAs(WriteAll(f, chunks, s).lines, \E i \in DOMAIN chunks : chunks[i].finish # Blank,
             \E i \in DOMAIN chunks : chunks[i].finish = "length")
  BY <1>1, WriteAllEnds
<1> QED BY <1>1, <1>2, <1>3 DEF EndsAs

\* The end a line is, and that of the limit.
EndsHere(l) == l.finish # Blank \/ l.type \in {"failed", "error"}

\* The line says that the reply was cut.
CutHere(l) == l.finish \in Limits

\* Chunks with one thing in them.
LEMMA SinglesAre ==
  ASSUME NEW x
  PROVE  /\ Single([Chunk EXCEPT !.role = x]) /\ [Chunk EXCEPT !.role = x].finish = Blank
         /\ Single([Chunk EXCEPT !.finish = x]) /\ [Chunk EXCEPT !.finish = x].finish = x
         /\ \A y : Single([Chunk EXCEPT !.finish = x, !.usage = y]) /\ [Chunk EXCEPT !.finish = x, !.usage = y].finish = x
         /\ \A y : /\ Single([Chunk EXCEPT !.call = x, !.args = y]) /\ [Chunk EXCEPT !.call = x, !.args = y].finish = Blank
                   /\ [Chunk EXCEPT !.call = x, !.args = y].call = x
         /\ Single([Chunk EXCEPT !.call = x]) /\ [Chunk EXCEPT !.call = x].finish = Blank /\ [Chunk EXCEPT !.call = x].call = x
         /\ Single([Chunk EXCEPT !.usage = x]) /\ [Chunk EXCEPT !.usage = x].finish = Blank
         /\ IsSeq(x) => Single([Chunk EXCEPT !.text = x]) /\ Single([Chunk EXCEPT !.thinking = x])
         /\ [Chunk EXCEPT !.text = x].finish = Blank /\ [Chunk EXCEPT !.thinking = x].finish = Blank
BY ChunkIs, NoneIs DEF Single, Spoken

\* The chunks of one part each, of which there is one or none.
LEMMA PartsBring ==
  ASSUME NEW x
  PROVE  /\ Nothing(Told([Chunk EXCEPT !.role = x])) /\ Nothing(Told([Chunk EXCEPT !.usage = x]))
         /\ IsSeq(x) => /\ Bring(Told([Chunk EXCEPT !.text = x]), x, <<>>, <<>>, FALSE, FALSE)
                        /\ Bring(Told([Chunk EXCEPT !.thinking = x]), <<>>, x, <<>>, FALSE, FALSE)
         /\ x \in Reasons => Bring(Told([Chunk EXCEPT !.finish = x]), <<>>, <<>>, <<>>, x # Blank, x = "length")
         /\ \A y : Bring(Told([Chunk EXCEPT !.call = x, !.args = y]), <<>>, <<>>, IF x = 0 THEN <<>> ELSE <<x>>, FALSE, FALSE)
<1>1. Blank \in Reasons /\ Blank # "length"
  BY BlankIsNoWord DEF Reasons, Limits
<1>2. ASSUME NEW c, Single(c), c.finish \in Reasons, NEW t, NEW h, NEW k, NEW e, c.text = t, c.thinking = h, CallIn(c) = k,
             c.finish = e
      PROVE  Bring(Told(c), t, h, k, e # Blank, e = "length")
  BY <1>2, BringTold
<1>3. ASSUME NEW c, Single(c), c.finish = Blank, NEW t, NEW h, NEW k, c.text = t, c.thinking = h, CallIn(c) = k
      PROVE  Bring(Told(c), t, h, k, FALSE, FALSE)
  <2>1. Bring(Told(c), t, h, k, c.finish # Blank, c.finish = "length")
    BY <1>1, <1>3, BringTold
  <2> QED BY <1>1, <1>3, <2>1 DEF Bring
<1>4. Nothing(Told([Chunk EXCEPT !.role = x]))
  <2> DEFINE c == [Chunk EXCEPT !.role = x]
  <2>1. Single(c) /\ c.finish = Blank /\ c.text = <<>> /\ c.thinking = <<>> /\ CallIn(c) = <<>>
    BY SinglesAre, ChunkIs DEF CallIn
  <2> HIDE DEF c
  <2>2. Bring(Told(c), <<>>, <<>>, <<>>, FALSE, FALSE)
    BY <1>3, <2>1
  <2> QED BY <2>2 DEF Nothing, c
<1>5. Nothing(Told([Chunk EXCEPT !.usage = x]))
  <2> DEFINE c == [Chunk EXCEPT !.usage = x]
  <2>1. Single(c) /\ c.finish = Blank /\ c.text = <<>> /\ c.thinking = <<>> /\ CallIn(c) = <<>>
    BY SinglesAre, ChunkIs DEF CallIn
  <2> HIDE DEF c
  <2>2. Bring(Told(c), <<>>, <<>>, <<>>, FALSE, FALSE)
    BY <1>3, <2>1
  <2> QED BY <2>2 DEF Nothing, c
<1>6. ASSUME IsSeq(x) PROVE Bring(Told([Chunk EXCEPT !.text = x]), x, <<>>, <<>>, FALSE, FALSE)
  <2> DEFINE c == [Chunk EXCEPT !.text = x]
  <2>1. Single(c) /\ c.finish = Blank /\ c.text = x /\ c.thinking = <<>> /\ CallIn(c) = <<>>
    BY <1>6, SinglesAre, ChunkIs DEF CallIn
  <2> HIDE DEF c
  <2>2. Bring(Told(c), x, <<>>, <<>>, FALSE, FALSE)
    BY <1>3, <2>1
  <2> QED BY <2>2 DEF c
<1>7. ASSUME IsSeq(x) PROVE Bring(Told([Chunk EXCEPT !.thinking = x]), <<>>, x, <<>>, FALSE, FALSE)
  <2> DEFINE c == [Chunk EXCEPT !.thinking = x]
  <2>1. Single(c) /\ c.finish = Blank /\ c.text = <<>> /\ c.thinking = x /\ CallIn(c) = <<>>
    BY <1>7, SinglesAre, ChunkIs DEF CallIn
  <2> HIDE DEF c
  <2>2. Bring(Told(c), <<>>, x, <<>>, FALSE, FALSE)
    BY <1>3, <2>1
  <2> QED BY <2>2 DEF c
<1>8. ASSUME x \in Reasons PROVE Bring(Told([Chunk EXCEPT !.finish = x]), <<>>, <<>>, <<>>, x # Blank, x = "length")
  <2> DEFINE c == [Chunk EXCEPT !.finish = x]
  <2>1. Single(c) /\ c.finish = x /\ c.text = <<>> /\ c.thinking = <<>> /\ CallIn(c) = <<>>
    BY SinglesAre, ChunkIs DEF CallIn
  <2> HIDE DEF c
  <2>2. Bring(Told(c), <<>>, <<>>, <<>>, x # Blank, x = "length")
    BY <1>2, <1>8, <2>1
  <2> QED BY <2>2 DEF c
<1>9. ASSUME NEW y
      PROVE  Bring(Told([Chunk EXCEPT !.call = x, !.args = y]), <<>>, <<>>, IF x = 0 THEN <<>> ELSE <<x>>, FALSE, FALSE)
  <2> DEFINE c == [Chunk EXCEPT !.call = x, !.args = y]
             k == IF x = 0 THEN <<>> ELSE <<x>>
  <2>1. Single(c) /\ c.finish = Blank /\ c.text = <<>> /\ c.thinking = <<>> /\ CallIn(c) = k
    BY SinglesAre, ChunkIs DEF CallIn
  <2> HIDE DEF c, k
  <2>2. Bring(Told(c), <<>>, <<>>, k, FALSE, FALSE)
    BY <1>3, <2>1
  <2> QED BY <2>2 DEF c, k
<1> QED BY <1>4, <1>5, <1>6, <1>7, <1>8, <1>9

\* Text, then thoughts, then calls, then the end.
LEMMA PartsInOrder ==
  ASSUME NEW a, NEW b, NEW c, NEW d, NEW t, NEW h, NEW k, NEW fin \in BOOLEAN, NEW cut \in BOOLEAN,
         Bring(a, t, <<>>, <<>>, FALSE, FALSE), Bring(b, <<>>, h, <<>>, FALSE, FALSE),
         Bring(c, <<>>, <<>>, k, FALSE, FALSE), Bring(d, <<>>, <<>>, <<>>, fin, cut)
  PROVE  Bring(a \o b \o c \o d, t, h, k, fin, cut)
<1>1. IsSeq(t) /\ IsSeq(h) /\ IsSeq(k) /\ IsSeq(<<>>)
  BY BroughtIsSeq, NoneIs
<1>2. /\ t \o <<>> = t /\ <<>> \o h = h /\ h \o <<>> = h /\ <<>> \o k = k /\ k \o <<>> = k /\ <<>> \o <<>> = <<>>
  BY <1>1, ConcatNone
<1> DEFINE no == FALSE
           none == <<>>
<1>3. /\ Bring(a, t, none, none, no, no) /\ Bring(b, none, h, none, no, no) /\ Bring(c, none, none, k, no, no)
      /\ Bring(d, none, none, none, fin, cut) /\ no \in BOOLEAN
  OBVIOUS
<1>4. t \o none = t /\ none \o h = h /\ h \o none = h /\ none \o k = k /\ k \o none = k /\ none \o none = none
  BY <1>2
<1>5. ~ no
  OBVIOUS
<1> HIDE DEF no, none
<1>6. Bring(a \o b, t, h, none, no \/ no, no \/ no)
  <2>1. Bring(a \o b, t \o none, none \o h, none \o none, no \/ no, no \/ no)
    BY <1>3, BringConcat
  <2> QED BY <1>4, <2>1
<1>7. Bring(a \o b, t, h, none, no, no)
  BY <1>5, <1>6 DEF Bring
<1>8. Bring((a \o b) \o c, t, h, k, no \/ no, no \/ no)
  <2>1. Bring((a \o b) \o c, t \o none, h \o none, none \o k, no \/ no, no \/ no)
    BY <1>3, <1>7, BringConcat
  <2> QED BY <1>4, <2>1
<1>9. Bring((a \o b) \o c, t, h, k, no, no)
  BY <1>5, <1>8 DEF Bring
<1>10. Bring(((a \o b) \o c) \o d, t, h, k, no \/ fin, no \/ cut)
  <2> DEFINE e == (a \o b) \o c
  <2>1. Bring(e, t, h, k, no, no)
    BY <1>9
  <2> HIDE DEF e
  <2>3. ASSUME NEW f1 \in BOOLEAN, NEW c1 \in BOOLEAN, Bring(e, t, h, k, f1, c1)
        PROVE  Bring(e \o d, t \o none, h \o none, k \o none, f1 \/ fin, c1 \/ cut)
    BY <1>3, <2>3, BringConcat
  <2>2. Bring(e \o d, t \o none, h \o none, k \o none, no \/ fin, no \/ cut)
    BY <1>3, <2>1, <2>3
  <2> QED BY <1>4, <2>2 DEF e
<1> QED BY <1>5, <1>10 DEF Bring

\* OpenAI's line brings what it says.
LEMMA OpenAIBrings ==
  ASSUME NEW l, NEW s, Spoken(l), l.finish \in Reasons
  PROVE  Bring(OpenAIChunks(l, s), l.text, l.thinking, CallIn(l), l.finish # Blank, l.finish = "length")
<1> DEFINE r == Told([Chunk EXCEPT !.role = l.role])
           a == Told([Chunk EXCEPT !.text = l.text])
           b == Told([Chunk EXCEPT !.thinking = l.thinking])
           c == Told([Chunk EXCEPT !.call = l.call, !.args = l.args])
           d == Told([Chunk EXCEPT !.finish = l.finish])
           u == Told([Chunk EXCEPT !.usage = l.usage])
           fin == l.finish # Blank
           cut == l.finish = "length"
<1>1. OpenAIChunks(l, s) = r \o a \o b \o c \o d \o u
  BY DEF OpenAIChunks
<1>2. Nothing(r) /\ Nothing(u)
  BY PartsBring
<1>3. Bring(a, l.text, <<>>, <<>>, FALSE, FALSE)
  BY PartsBring DEF Spoken
<1>4. Bring(b, <<>>, l.thinking, <<>>, FALSE, FALSE)
  BY PartsBring DEF Spoken
<1>5. Bring(c, <<>>, <<>>, CallIn(l), FALSE, FALSE)
  BY PartsBring DEF CallIn
<1>6. Bring(d, <<>>, <<>>, <<>>, fin, cut) /\ fin \in BOOLEAN /\ cut \in BOOLEAN
  BY PartsBring
<1> HIDE DEF r, a, b, c, d, u, fin, cut
<1>7. Bring(r \o a, l.text, <<>>, <<>>, FALSE, FALSE)
  BY <1>2, <1>3, BringBeside
<1>8. Bring((r \o a) \o b \o c \o d, l.text, l.thinking, CallIn(l), fin, cut)
  BY <1>4, <1>5, <1>6, <1>7, PartsInOrder
<1>9. Bring(((r \o a) \o b \o c \o d) \o u, l.text, l.thinking, CallIn(l), fin, cut)
  BY <1>2, <1>6, <1>8, BringBeside
<1> QED BY <1>1, <1>9 DEF fin, cut

\* Gemini's line: a call in it is brought as one of the others.
CallOf(l) == IF l.calls = {} THEN <<>> ELSE CallIn(CHOOSE c \in l.calls : TRUE)

\* What the chunks of Gemini's line bring.
LEMMA GeminiBrings ==
  ASSUME NEW l, NEW s, IsSeq(l.text)
  PROVE  Bring(GeminiChunks(l, s), l.text, <<>>, CallOf(l), l.finish # Blank, l.finish = "MAX_TOKENS")
<1> DEFINE first == CHOOSE c \in l.calls : TRUE
           reason == FromGeminiReason(l.finish)
           r == Told([Chunk EXCEPT !.role = HasContent(l) /\ ~s.announced])
           a == Told([Chunk EXCEPT !.text = l.text])
           c == IF l.calls = {} THEN <<>> ELSE Told([Chunk EXCEPT !.call = first.call, !.args = first.args])
           d == Told([Chunk EXCEPT !.finish = reason])
           u == Told([Chunk EXCEPT !.usage = l.usage])
           fin == l.finish # Blank
           cut == l.finish = "MAX_TOKENS"
<1>1. GeminiChunks(l, s) = r \o a \o c \o d \o u
  BY DEF GeminiChunks
<1>2. Nothing(r) /\ Nothing(u)
  BY PartsBring
<1>3. Bring(a, l.text, <<>>, <<>>, FALSE, FALSE)
  BY PartsBring
<1>5. Bring(c, <<>>, <<>>, CallOf(l), FALSE, FALSE)
  <2>1. CASE l.calls = {}
    BY <2>1, BringNone DEF CallOf, Nothing
  <2>2. CASE l.calls # {}
    <3>1. Bring(Told([Chunk EXCEPT !.call = first.call, !.args = first.args]), <<>>, <<>>,
                IF first.call = 0 THEN <<>> ELSE <<first.call>>, FALSE, FALSE)
      <4> HIDE DEF first
      <4> QED BY PartsBring
    <3>2. CallOf(l) = IF first.call = 0 THEN <<>> ELSE <<first.call>>
      BY <2>2 DEF CallOf, CallIn
    <3> HIDE DEF first
    <3> QED BY <2>2, <3>1, <3>2
  <2> QED BY <2>1, <2>2
<1>6. Bring(d, <<>>, <<>>, <<>>, fin, cut) /\ fin \in BOOLEAN /\ cut \in BOOLEAN
  <2>1. reason = IF l.finish = Blank THEN Blank ELSE IF l.finish = "MAX_TOKENS" THEN "length" ELSE "stop"
    BY DEF FromGeminiReason
  <2>2. reason \in Reasons /\ (reason # Blank <=> fin) /\ (reason = "length" <=> cut)
    BY <2>1, BlankIsNoWord DEF Reasons, Limits
  <2> HIDE DEF reason
  <2>3. Bring(Told([Chunk EXCEPT !.finish = reason]), <<>>, <<>>, <<>>, reason # Blank, reason = "length")
    BY <2>2, PartsBring
  <2> QED BY <2>2, <2>3 DEF Bring
<1>7. IsSeq(<<>>) /\ <<>> \o <<>> = <<>>
  BY NoneIs, ConcatNone
<1> HIDE DEF r, a, c, d, u, fin, cut, first, reason
<1>8. Bring(r \o a, l.text, <<>>, <<>>, FALSE, FALSE)
  BY <1>2, <1>3, BringBeside
<1>9. Bring((r \o a) \o <<>> \o c \o d, l.text, <<>>, CallOf(l), fin, cut)
  <2>1. Bring(<<>>, <<>>, <<>>, <<>>, FALSE, FALSE)
    BY BringNone DEF Nothing
  <2> QED BY <1>5, <1>6, <1>8, <2>1, PartsInOrder
<1>10. (r \o a) \o <<>> = r \o a
  BY <1>8, BroughtIsSeq, ConcatNone
<1>11. Bring((r \o a) \o c \o d, l.text, <<>>, CallOf(l), fin, cut)
  BY <1>9, <1>10
<1>12. Bring(((r \o a) \o c \o d) \o u, l.text, <<>>, CallOf(l), fin, cut)
  BY <1>2, <1>6, <1>11, BringBeside
<1> QED BY <1>1, <1>12 DEF fin, cut

-----------------------------------------------------------------------------
(* The lines of each provider, and what their chunks bring.                *)

\* A line with nothing for the reader in it.
Bare(l) == l.text = <<>> /\ l.thinking = <<>> /\ l.args = <<>> /\ l.call = 0 /\ l.calls = {}

\* The lines of each provider.
ClaudeShape(l) ==
  /\ l.type \in {"message_start", "block_start", "block_delta", "block_stop", "message_delta", "message_stop", "error"}
  /\ l.type \notin {"block_start", "block_delta"} => Bare(l)
  /\ l.type = "block_start" =>
       /\ l.text = <<>> /\ l.thinking = <<>> /\ l.args = <<>> /\ l.kind # "server_tool"
       /\ l.call # 0 <=> l.kind = "tool_use"
  /\ l.type # "block_start" => l.call = 0 /\ l.kind = Blank
  /\ l.type = "block_delta" => \/ l.text = <<>> /\ l.thinking = <<>>
                               \/ l.thinking = <<>> /\ l.args = <<>>
                               \/ l.text = <<>> /\ l.args = <<>>
  /\ IF l.type = "message_delta" THEN l.finish \in {"end_turn", "max_tokens", "tool_use"} ELSE l.finish = Blank

\* OpenAI's: of its parts a line has one.
OpenAIShape(l) ==
  \/ l.text # <<>> /\ l = [Line EXCEPT !.text = l.text]
  \/ l.thinking # <<>> /\ l = [Line EXCEPT !.thinking = l.thinking]
  \/ l.call # 0 /\ l = [Line EXCEPT !.index = l.index, !.call = l.call]
  \/ l.args # <<>> /\ l = [Line EXCEPT !.index = l.index, !.args = l.args]
  \/ l = [Line EXCEPT !.role = TRUE]
  \/ l.finish \in {"stop", "length", "tool_calls"} /\ l = [Line EXCEPT !.finish = l.finish]
  \/ l = [Line EXCEPT !.usage = TRUE]
  \/ l = Done

\* Gemini's: a call comes whole.
GeminiShape(l) ==
  /\ l.thinking = <<>> /\ l.args = <<>> /\ l.call = 0
  /\ l.calls = {} \/ \E c \in l.calls : l.calls = {c} /\ c.call # 0
  /\ l.finish \in {Blank, "MAX_TOKENS", "STOP"}
  /\ l.type = Blank

\* The Responses API's.
ResponsesShape(l) ==
  /\ l.type \in {"created", "output_text.delta", "output_item.added", "completed", "error"} /\ l.kind = Blank
  /\ IF l.type = "output_text.delta" THEN l.thinking = <<>> /\ l.args = <<>> /\ l.call = 0 ELSE Bare(l)
  /\ IF l.type = "completed" THEN l.finish \in {"incomplete", "completed"} ELSE l.finish = Blank

\* A line as a provider of format f writes it.
Shape(f, l) ==
  /\ Spoken(l) /\ IsSeq(l.args)
  /\ CASE f = "claude" -> ClaudeShape(l) [] f = "openai" -> OpenAIShape(l)
       [] f = "gemini" -> GeminiShape(l) [] f = "responses" -> ResponsesShape(l)

\* A chunk that is read as its parts are.
LEMMA BringThis ==
  ASSUME NEW c, Single(c), c.finish \in Reasons, NEW t, NEW h, NEW k, NEW e, c.text = t, c.thinking = h, CallIn(c) = k,
         c.finish = e
  PROVE  Bring(<<c>>, t, h, k, e # Blank, e = "length")
BY BringOne

\* A chunk that finishes nothing.
LEMMA BringQuietly ==
  ASSUME NEW c, Single(c), c.finish = Blank, NEW t, NEW h, NEW k, c.text = t, c.thinking = h, CallIn(c) = k
  PROVE  Bring(<<c>>, t, h, k, FALSE, FALSE)
<1>1. Blank \in Reasons /\ Blank # "length"
  BY BlankIsNoWord DEF Reasons, Limits
<1>2. Bring(<<c>>, t, h, k, c.finish # Blank, c.finish = "length")
  BY <1>1, BringOne
<1> QED BY <1>1, <1>2 DEF Bring

\* The chunks of the Responses API's line bring its text.
LEMMA ResponsesBrings ==
  ASSUME NEW l, NEW s, Spoken(l), ResponsesShape(l)
  PROVE  Bring(ResponsesChunks(l, s), l.text, <<>>, <<>>, EndsHere(l), CutHere(l))
<1>1. CASE l.type = "created"
  <2> DEFINE c == [Chunk EXCEPT !.role = TRUE]
  <2>1. ResponsesChunks(l, s) = <<c>>
    BY <1>1 DEF ResponsesChunks
  <2>2. Single(c) /\ c.finish = Blank /\ c.text = <<>> /\ c.thinking = <<>> /\ CallIn(c) = <<>>
    BY SinglesAre, ChunkIs DEF CallIn
  <2>3. l.text = <<>> /\ ~EndsHere(l) /\ ~CutHere(l)
    BY <1>1, BlankIsNoWord DEF ResponsesShape, Bare, EndsHere, CutHere
  <2> HIDE DEF c
  <2>4. Bring(<<c>>, <<>>, <<>>, <<>>, FALSE, FALSE)
    BY <2>2, BringQuietly
  <2> QED BY <2>1, <2>3, <2>4 DEF Bring
<1>2. CASE l.type = "output_text.delta" /\ l.text # <<>>
  <2> DEFINE c == [Chunk EXCEPT !.text = l.text]
  <2>1. ResponsesChunks(l, s) = <<c>>
    BY <1>2 DEF ResponsesChunks
  <2>2. Single(c) /\ c.finish = Blank /\ c.text = l.text /\ c.thinking = <<>> /\ CallIn(c) = <<>>
    BY SinglesAre, ChunkIs DEF CallIn, Spoken
  <2>3. ~EndsHere(l) /\ ~CutHere(l)
    BY <1>2, BlankIsNoWord DEF ResponsesShape, EndsHere, CutHere
  <2> HIDE DEF c
  <2>4. Bring(<<c>>, l.text, <<>>, <<>>, FALSE, FALSE)
    BY <2>2, BringQuietly
  <2> QED BY <2>1, <2>3, <2>4 DEF Bring
<1>3. CASE l.type = "completed"
  <2> DEFINE e == Renamed(l.finish, FromStatus, "stop")
             c == [Chunk EXCEPT !.finish = e, !.usage = l.usage]
  <2>1. ResponsesChunks(l, s) = <<c>>
    BY <1>3 DEF ResponsesChunks
  <2>2. Single(c) /\ c.finish = e /\ c.text = <<>> /\ c.thinking = <<>> /\ CallIn(c) = <<>>
    BY SinglesAre, ChunkIs DEF CallIn
  <2>3. l.text = <<>> /\ l.finish \in {"incomplete", "completed"}
    BY <1>3 DEF ResponsesShape, Bare
  <2>4. e = IF l.finish = "incomplete" THEN "length" ELSE "stop"
    BY <2>3 DEF Renamed, FromStatus
  <2>5. e \in Reasons /\ e # Blank /\ EndsHere(l) /\ (CutHere(l) <=> e = "length")
    BY <2>3, <2>4, BlankIsNoWord DEF Reasons, EndsHere, CutHere, Limits
  <2> HIDE DEF c, e
  <2>6. Bring(<<c>>, <<>>, <<>>, <<>>, e # Blank, e = "length")
    BY <2>2, <2>5, BringThis
  <2> QED BY <2>1, <2>3, <2>5, <2>6 DEF Bring
<1>4. CASE l.type = "error"
  <2> DEFINE c == [Chunk EXCEPT !.finish = "error"]
  <2>1. ResponsesChunks(l, s) = <<c>>
    BY <1>4 DEF ResponsesChunks
  <2>2. Single(c) /\ c.finish = "error" /\ c.text = <<>> /\ c.thinking = <<>> /\ CallIn(c) = <<>>
    BY SinglesAre, ChunkIs DEF CallIn
  <2>3. l.text = <<>> /\ l.finish = Blank
    BY <1>4 DEF ResponsesShape, Bare
  <2>5. "error" \in Reasons /\ "error" # Blank /\ EndsHere(l) /\ ~ CutHere(l)
    BY <1>4, <2>3, BlankIsNoWord DEF Reasons, EndsHere, CutHere
  <2> HIDE DEF c
  <2>6. c.finish \in Reasons
    BY <2>2, <2>5
  <2>7. Bring(<<c>>, <<>>, <<>>, <<>>, "error" # Blank, "error" = "length")
    BY <2>2, <2>6, BringThis
  <2> QED BY <2>1, <2>3, <2>5, <2>7 DEF Bring
<1>5. CASE l.type = "output_item.added" \/ (l.type = "output_text.delta" /\ l.text = <<>>)
  <2>1. ResponsesChunks(l, s) = <<>>
    BY <1>5 DEF ResponsesChunks
  <2>2. l.text = <<>> /\ ~EndsHere(l) /\ ~CutHere(l)
    BY <1>5, BlankIsNoWord DEF ResponsesShape, Bare, EndsHere, CutHere
  <2> QED BY <2>1, <2>2, BringNone DEF Bring, Nothing
<1> QED BY <1>1, <1>2, <1>3, <1>4, <1>5 DEF ResponsesShape

\* The chunks of Claude's line bring what it says, in no block of a tool of
\* Claude's own; the end comes with the stop.
LEMMA ClaudeBrings ==
  ASSUME NEW l, NEW s, Spoken(l), ClaudeShape(l), s.finish \in Reasons,
         l.type = "block_delta" /\ s.active = "server_tool" => l.text = <<>> /\ l.thinking = <<>>
  PROVE  Bring(ClaudeChunks(l, s), l.text, l.thinking, CallIn(l), l.type = "message_stop" /\ s.finish # Blank,
               l.type = "message_stop" /\ s.finish = "length")
<1>1. CASE l.type = "message_start"
  <2> DEFINE c == [Chunk EXCEPT !.role = TRUE]
  <2>1. ClaudeChunks(l, s) = <<c>>
    BY <1>1 DEF ClaudeChunks
  <2>2. Single(c) /\ c.finish = Blank /\ c.text = <<>> /\ c.thinking = <<>> /\ CallIn(c) = <<>>
    BY SinglesAre, ChunkIs DEF CallIn
  <2>3. l.text = <<>> /\ l.thinking = <<>> /\ CallIn(l) = <<>>
    BY <1>1 DEF ClaudeShape, Bare, CallIn
  <2> HIDE DEF c
  <2>4. Bring(<<c>>, <<>>, <<>>, <<>>, FALSE, FALSE)
    BY <2>2, BringQuietly
  <2> QED BY <1>1, <2>1, <2>3, <2>4 DEF Bring
<1>2. CASE l.type = "block_start" /\ l.kind = "tool_use"
  <2> DEFINE c == [Chunk EXCEPT !.call = l.call]
  <2>1. ClaudeChunks(l, s) = <<c>>
    BY <1>2 DEF ClaudeChunks
  <2>2. Single(c) /\ c.finish = Blank /\ c.text = <<>> /\ c.thinking = <<>> /\ CallIn(c) = CallIn(l)
    BY SinglesAre, ChunkIs DEF CallIn
  <2>3. l.text = <<>> /\ l.thinking = <<>>
    BY <1>2 DEF ClaudeShape
  <2> HIDE DEF c
  <2>4. Bring(<<c>>, <<>>, <<>>, CallIn(l), FALSE, FALSE)
    BY <2>2, BringQuietly
  <2> QED BY <1>2, <2>1, <2>3, <2>4 DEF Bring
<1>3. CASE l.type = "block_delta" /\ s.active # "server_tool"
  <2> DEFINE c == [Chunk EXCEPT !.text = l.text, !.thinking = l.thinking, !.args = l.args]
  <2>1. ClaudeChunks(l, s) = <<c>>
    BY <1>3 DEF ClaudeChunks
  <2>2. l.call = 0 /\ CallIn(l) = <<>>
    BY <1>3 DEF ClaudeShape, CallIn
  <2>3. /\ c.finish = Blank /\ c.text = l.text /\ c.thinking = l.thinking /\ c.call = 0 /\ c.args = l.args
        /\ c.role = FALSE /\ CallIn(c) = <<>>
    BY ChunkIs DEF CallIn
  <2> HIDE DEF c
  <2>4. Single(c)
    BY <1>3, <2>3 DEF Single, Spoken, ClaudeShape
  <2>5. Bring(<<c>>, l.text, l.thinking, <<>>, FALSE, FALSE)
    BY <2>3, <2>4, BringQuietly
  <2> QED BY <1>3, <2>1, <2>2, <2>5 DEF Bring
<1>4. CASE l.type = "message_stop"
  <2> DEFINE c == [Chunk EXCEPT !.finish = s.finish, !.usage = s.usage]
             e == s.finish
  <2>1. ClaudeChunks(l, s) = <<c>>
    BY <1>4 DEF ClaudeChunks
  <2>2. Single(c) /\ c.finish = e /\ c.text = <<>> /\ c.thinking = <<>> /\ CallIn(c) = <<>>
    BY SinglesAre, ChunkIs DEF CallIn
  <2>3. l.text = <<>> /\ l.thinking = <<>> /\ CallIn(l) = <<>> /\ e \in Reasons
    BY <1>4 DEF ClaudeShape, Bare, CallIn
  <2> HIDE DEF c, e
  <2>4. Bring(<<c>>, <<>>, <<>>, <<>>, e # Blank, e = "length")
    BY <2>2, <2>3, BringThis
  <2> QED BY <1>4, <2>1, <2>3, <2>4 DEF Bring, e
<1>5. CASE \/ l.type \in {"block_stop", "message_delta", "error"}
           \/ l.type = "block_start" /\ l.kind # "tool_use"
           \/ l.type = "block_delta" /\ s.active = "server_tool"
  <2>1. ClaudeChunks(l, s) = <<>>
    BY <1>5 DEF ClaudeChunks
  <2>2. l.text = <<>> /\ l.thinking = <<>> /\ CallIn(l) = <<>> /\ l.type # "message_stop"
    BY <1>5 DEF ClaudeShape, Bare, CallIn
  <2> QED BY <2>1, <2>2, BringNone DEF Bring, Nothing
<1> QED BY <1>1, <1>2, <1>3, <1>4, <1>5 DEF ClaudeShape

-----------------------------------------------------------------------------
(* The call whose arguments a line has.                                    *)

\* A line that opens the call that is at its index from then on, and the
\* call last opened at an index.
Starts(f, l) == IF f = "claude" THEN l.type = "block_start" ELSE l.call # 0

\* The lines that opened a call at an index.
StartsAt(f, lines, x) == {j \in DOMAIN lines : lines[j].index = x /\ Starts(f, lines[j])}

\* The last of them.
Latest(starts) == CHOOSE j \in starts : \A k \in starts : k <= j

\* The call last opened at an index, 0 if there is none.
OpenAt(f, lines, x) == IF StartsAt(f, lines, x) = {} THEN 0 ELSE lines[Latest(StartsAt(f, lines, x))].call

\* A bounded set of numbers has a greatest.
LEMMA LatestIs ==
  ASSUME NEW n \in Nat, NEW S, S \subseteq 1 .. n, S # {}
  PROVE  Latest(S) \in S /\ \A k \in S : k <= Latest(S)
<1> DEFINE D == {m \in 0 .. n : n - m \in S}
<1>1. D \in SUBSET Nat /\ D # {}
  <2>1. PICK j \in S : TRUE
    OBVIOUS
  <2>2. j \in 1 .. n
    BY <2>1
  <2>3. n - j \in 0 .. n /\ n - (n - j) = j
    BY <2>2
  <2>4. n - j \in D
    BY <2>1, <2>3
  <2>5. D \subseteq Nat
    OBVIOUS
  <2> HIDE DEF D
  <2> QED BY <2>4, <2>5
<1>2. PICK m \in D : \A d \in D : m <= d
  <2> HIDE DEF D
  <2> QED BY <1>1, SmallestNatIn
<1>3. n - m \in S
  OBVIOUS
<1>4. ASSUME NEW k \in S PROVE k <= n - m
  <2>1. k \in 1 .. n
    OBVIOUS
  <2>2. n - k \in D
    <3>1. n - k \in 0 .. n /\ n - (n - k) = k
      BY <2>1
    <3> QED BY <3>1
  <2>3. m <= n - k /\ m \in 0 .. n
    BY <1>2, <2>2
  <2> QED BY <2>1, <2>3
<1> HIDE DEF D
<1> QED BY <1>3, <1>4 DEF Latest

\* The greatest is one.
LEMMA LatestOnly ==
  ASSUME NEW n \in Nat, NEW S, S \subseteq 1 .. n, NEW j \in S, \A k \in S : k <= j
  PROVE  Latest(S) = j
<1>1. Latest(S) \in S /\ \A k \in S : k <= Latest(S)
  BY LatestIs
<1>2. Latest(S) <= j /\ j <= Latest(S) /\ Latest(S) \in 1 .. n /\ j \in 1 .. n
  BY <1>1
<1> QED BY <1>2

\* One line more.
LEMMA OneMore ==
  ASSUME NEW a, IsSeq(a), NEW l
  PROVE  /\ IsSeq(a \o <<l>>) /\ Len(a) \in Nat /\ DOMAIN a = 1 .. Len(a)
         /\ DOMAIN (a \o <<l>>) = 1 .. Len(a) + 1 /\ Len(a \o <<l>>) = Len(a) + 1
         /\ \A i \in 1 .. Len(a) : (a \o <<l>>)[i] = a[i]
         /\ (a \o <<l>>)[Len(a) + 1] = l
<1> DEFINE b == <<l>>
<1>1. IsSeq(b) /\ Len(b) = 1 /\ b[1] = l
  BY OneIs
<1> HIDE DEF b
<1>2. /\ IsSeq(a \o b) /\ Len(a \o b) = Len(a) + 1
      /\ \A i \in 1 .. Len(a) + 1 : (a \o b)[i] = IF i <= Len(a) THEN a[i] ELSE b[i - Len(a)]
  BY <1>1, ConcatIs
<1>3. Len(a) \in Nat /\ DOMAIN a = 1 .. Len(a) /\ DOMAIN (a \o b) = 1 .. Len(a) + 1
  BY <1>2, SeqIs
<1>4. /\ \A i \in 1 .. Len(a) : (a \o b)[i] = a[i]
      /\ (a \o b)[Len(a) + 1] = l
  BY <1>1, <1>2, <1>3
<1> QED BY <1>2, <1>3, <1>4 DEF b

\* It opens its call at its index, and leaves the others as they are.
LEMMA OpensOne ==
  ASSUME NEW f, NEW a, IsSeq(a), NEW l, NEW x
  PROVE  OpenAt(f, a \o <<l>>, x) = IF Starts(f, l) /\ l.index = x THEN l.call ELSE OpenAt(f, a, x)
<1> DEFINE w == a \o <<l>>
           n == Len(a)
           S == StartsAt(f, a, x)
           T == StartsAt(f, w, x)
<1>1. /\ n \in Nat /\ DOMAIN a = 1 .. n /\ DOMAIN w = 1 .. n + 1
      /\ \A i \in 1 .. n : w[i] = a[i]
      /\ w[n + 1] = l
  BY OneMore
<1> HIDE DEF w, n
<1>2. \A i \in 1 .. n + 1 : i \in 1 .. n \/ i = n + 1
  BY <1>1
<1>3. S \subseteq 1 .. n /\ T \subseteq 1 .. n + 1
  BY <1>1 DEF StartsAt
<1>4. CASE Starts(f, l) /\ l.index = x
  <2>1. n + 1 \in T
    BY <1>1, <1>4 DEF StartsAt
  <2>2. \A k \in T : k <= n + 1
    BY <1>1, <1>3
  <2>3. Latest(T) = n + 1
    <3>1. ASSUME NEW R, NEW m \in Nat, R \subseteq 1 .. m, m \in R, \A k \in R : k <= m PROVE Latest(R) = m
      BY <3>1, LatestOnly
    <3>2. n + 1 \in Nat
      BY <1>1
    <3> HIDE DEF T
    <3> QED BY <1>3, <2>1, <2>2, <3>1, <3>2
  <2>4. OpenAt(f, w, x) = w[Latest(T)].call
    BY <2>1 DEF OpenAt, T
  <2> QED BY <1>1, <1>4, <2>3, <2>4 DEF w
<1>5. CASE ~ (Starts(f, l) /\ l.index = x)
  <2>1. T = S
    <3>1. \A j \in T : j \in S
      BY <1>1, <1>2, <1>5 DEF StartsAt
    <3>2. \A j \in S : j \in T
      BY <1>1, <1>2 DEF StartsAt
    <3> QED BY <3>1, <3>2
  <2>2. S # {} => Latest(S) \in S
    <3> HIDE DEF S
    <3> QED BY <1>1, <1>3, LatestIs
  <2>3. S # {} => w[Latest(S)] = a[Latest(S)]
    BY <1>1, <1>3, <2>2
  <2>4. OpenAt(f, w, x) = IF T = {} THEN 0 ELSE w[Latest(T)].call
    BY DEF OpenAt
  <2>5. OpenAt(f, a, x) = IF S = {} THEN 0 ELSE a[Latest(S)].call
    BY DEF OpenAt
  <2> HIDE DEF S, T
  <2>6. OpenAt(f, w, x) = OpenAt(f, a, x)
    BY <2>1, <2>3, <2>4, <2>5
  <2> QED BY <1>5, <2>6 DEF w
<1> QED BY <1>4, <1>5

\* A line that opens nothing.
LEMMA OpensNone ==
  ASSUME NEW f, NEW x
  PROVE  OpenAt(f, <<>>, x) = 0
BY NoneIs DEF OpenAt, StartsAt

\* The call a line adds arguments to, in the terms of the calls that are open.
LEMMA CallAtIs ==
  ASSUME NEW f, NEW a, IsSeq(a), NEW l
  PROVE  /\ CallAt(f, a \o <<l>>, Len(a) + 1) = OpenAt(f, a \o <<l>>, l.index)
         /\ \A i \in 1 .. Len(a) : CallAt(f, a \o <<l>>, i) = CallAt(f, a, i)
<1> DEFINE w == a \o <<l>>
           n == Len(a)
           S(s, i) == {j \in 1 .. i : s[j].index = s[i].index
                                        /\ IF f = "claude" THEN s[j].type = "block_start" ELSE s[j].call # 0}
<1>1. /\ n \in Nat /\ DOMAIN a = 1 .. n /\ DOMAIN w = 1 .. n + 1
      /\ \A i \in 1 .. n : w[i] = a[i]
      /\ w[n + 1] = l
  BY OneMore
<1> HIDE DEF w, n
<1>2. \A s, i : CallAt(f, s, i) = IF S(s, i) = {} THEN 0 ELSE s[Latest(S(s, i))].call
  BY DEF CallAt, Latest
<1>3. CallAt(f, w, n + 1) = OpenAt(f, w, l.index)
  <2>1. S(w, n + 1) = StartsAt(f, w, l.index)
    BY <1>1 DEF StartsAt, Starts
  <2> HIDE DEF S
  <2> QED BY <1>2, <2>1 DEF OpenAt
<1>4. ASSUME NEW i \in 1 .. n PROVE CallAt(f, w, i) = CallAt(f, a, i)
  <2>1. \A j \in 1 .. i : j \in 1 .. n /\ w[j] = a[j]
    BY <1>1
  <2>2. i \in 1 .. i /\ w[i] = a[i] /\ i \in Nat
    BY <1>1
  <2>3. S(w, i) = S(a, i)
    BY <2>1, <2>2
  <2>4. S(a, i) \subseteq 1 .. i
    OBVIOUS
  <2> HIDE DEF S
  <2>5. S(a, i) # {} => Latest(S(a, i)) \in 1 .. i
    BY <2>2, <2>4, LatestIs
  <2>6. S(a, i) # {} => w[Latest(S(a, i))] = a[Latest(S(a, i))]
    BY <2>1, <2>5
  <2> QED BY <1>2, <2>3, <2>6
<1> QED BY <1>3, <1>4 DEF w, n

\* Lines whose arguments are sequences.
Argued(lines) == IsSeq(lines) /\ \A i \in DOMAIN lines : IsSeq(lines[i].args)

\* What a line more adds to the arguments of a call.
Adds(f, a, l, x) == IF OpenAt(f, a \o <<l>>, l.index) = x THEN l.args ELSE <<>>

\* A line more adds its arguments to the call open at its index.
LEMMA ArguesOne ==
  ASSUME NEW f, f # "gemini", NEW a, Argued(a), NEW l, IsSeq(l.args), NEW x
  PROVE  /\ Argued(a \o <<l>>)
         /\ ArgumentsIn(f, a \o <<l>>, x) = ArgumentsIn(f, a, x) \o Adds(f, a, l, x)
<1> DEFINE w == a \o <<l>>
           n == Len(a)
           u == [i \in DOMAIN a |-> IF CallAt(f, a, i) = x THEN a[i].args ELSE <<>>]
           add == IF OpenAt(f, w, l.index) = x THEN l.args ELSE <<>>
           v == [i \in {1} |-> add]
           z == [i \in DOMAIN w |-> IF CallAt(f, w, i) = x THEN w[i].args ELSE <<>>]
<1>1. /\ n \in Nat /\ DOMAIN a = 1 .. n /\ DOMAIN w = 1 .. n + 1 /\ IsSeq(w)
      /\ \A i \in 1 .. n : w[i] = a[i]
      /\ w[n + 1] = l
  BY OneMore DEF Argued
<1>2. /\ CallAt(f, w, n + 1) = OpenAt(f, w, l.index)
      /\ \A i \in 1 .. n : CallAt(f, w, i) = CallAt(f, a, i)
  BY CallAtIs DEF Argued
<1> HIDE DEF w, n
<1>3. \A i \in 1 .. n + 1 : i \in 1 .. n \/ i = n + 1
  BY <1>1
<1>4. Argued(w)
  BY <1>1, <1>3 DEF Argued
<1>5. ArgumentsIn(f, w, x) = FlattenSeq(z) /\ ArgumentsIn(f, a, x) = FlattenSeq(u)
  BY DEF ArgumentsIn
<1>6. IsSeq(add)
  BY NoneIs
<1>7. Joined(z, u, v, n, 1)
  <2>1. 1 .. 1 = {1}
    OBVIOUS
  <2>2. u = [i \in 1 .. n |-> u[i]] /\ v = [i \in 1 .. 1 |-> v[i]] /\ z = [i \in 1 .. n + 1 |-> z[i]]
    BY <1>1, <2>1
  <2>3. ASSUME NEW i \in 1 .. n PROVE IsSeq(u[i]) /\ z[i] = u[i]
    <3>1. i \in DOMAIN a /\ i \in DOMAIN w /\ w[i] = a[i] /\ CallAt(f, w, i) = CallAt(f, a, i)
      BY <1>1, <1>2
    <3>2. u[i] = IF CallAt(f, a, i) = x THEN a[i].args ELSE <<>>
      BY <3>1
    <3>3. z[i] = IF CallAt(f, w, i) = x THEN w[i].args ELSE <<>>
      BY <3>1
    <3>4. IsSeq(a[i].args) /\ IsSeq(<<>>)
      BY <3>1, NoneIs DEF Argued
    <3> HIDE DEF u, z
    <3> QED BY <3>1, <3>2, <3>3, <3>4
  <2>4. ASSUME NEW i \in 1 .. 1 PROVE IsSeq(v[i]) /\ z[n + i] = v[i]
    <3>1. i = 1 /\ n + 1 \in DOMAIN w /\ i \in {1}
      BY <1>1
    <3>2. z[n + 1] = IF CallAt(f, w, n + 1) = x THEN w[n + 1].args ELSE <<>>
      BY <3>1
    <3>3. z[n + 1] = add
      BY <1>1, <1>2, <3>2
    <3>4. v[i] = add
      BY <3>1
    <3> HIDE DEF z, v, add
    <3> QED BY <1>6, <3>1, <3>3, <3>4
  <2> HIDE DEF u, v, z
  <2> QED BY <2>2, <2>3, <2>4 DEF Joined
<1>8. FlattenSeq(v) = add
  <2> HIDE DEF add
  <2> QED BY <1>6, FlattenOne
<1> HIDE DEF u, v, z, add
<1>9. FlattenSeq(z) = FlattenSeq(u) \o FlattenSeq(v)
  BY <1>1, <1>7, FlattenFields
<1>10. add = Adds(f, a, l, x)
  BY DEF add, Adds, w
<1> QED BY <1>4, <1>5, <1>8, <1>9, <1>10 DEF w

\* The arguments of a call are a sequence.
LEMMA ArgumentsAreSeq ==
  ASSUME NEW f, f # "gemini", NEW a, Argued(a), NEW x
  PROVE  IsSeq(ArgumentsIn(f, a, x))
<1> DEFINE n == Len(a)
           u == [i \in DOMAIN a |-> IF CallAt(f, a, i) = x THEN a[i].args ELSE <<>>]
<1>1. n \in Nat /\ DOMAIN a = 1 .. n
  BY SeqIs DEF Argued
<1>2. ArgumentsIn(f, a, x) = FlattenSeq(u)
  BY DEF ArgumentsIn
<1>3. u = [i \in 1 .. n |-> u[i]] /\ \A i \in 1 .. n : IsSeq(u[i])
  <2>1. \A i \in 1 .. n : IsSeq(a[i].args) /\ IsSeq(<<>>)
    BY <1>1, NoneIs DEF Argued
  <2> QED BY <1>1, <2>1
<1> HIDE DEF u, n
<1> QED BY <1>1, <1>2, <1>3, FlattenIs

\* No lines, no arguments.
LEMMA ArguesNone ==
  ASSUME NEW f, f # "gemini", NEW x
  PROVE  ArgumentsIn(f, <<>>, x) = <<>> /\ Argued(<<>>)
<1>1. [i \in DOMAIN <<>> |-> IF CallAt(f, <<>>, i) = x THEN <<>>[i].args ELSE <<>>] = <<>>
  BY NoneIs
<1> QED BY <1>1, FlattenNone, NoneIs DEF ArgumentsIn, Argued

\* A line without arguments adds none.
LEMMA ArguesNothing ==
  ASSUME NEW f, f # "gemini", NEW a, Argued(a), NEW l, l.args = <<>>, NEW x
  PROVE  Argued(a \o <<l>>) /\ ArgumentsIn(f, a \o <<l>>, x) = ArgumentsIn(f, a, x)
<1>1. IsSeq(l.args)
  BY NoneIs
<1>2. Argued(a \o <<l>>)
  BY <1>1, ArguesOne
<1>3. ArgumentsIn(f, a \o <<l>>, x) = ArgumentsIn(f, a, x) \o Adds(f, a, l, x)
  BY <1>1, ArguesOne
<1>4. Adds(f, a, l, x) = <<>>
  BY DEF Adds
<1>5. ArgumentsIn(f, a \o <<l>>, x) = ArgumentsIn(f, a, x) \o <<>>
  BY <1>3, <1>4
<1> QED BY <1>2, <1>5, ArgumentsAreSeq, ConcatNone

\* The calls a line announces, when it finishes the reply and when it says
\* that it was cut: at Claude the message that stops does.
CallsOf(f, l) == IF f = "gemini" THEN CallOf(l) ELSE CallIn(l)

\* The line finishes the reply: at Claude the one that stops the message.
FinishOf(f, l, u) == IF f = "claude" THEN l.type = "message_stop" /\ u.finish # Blank ELSE EndsHere(l)

\* It says that the reply was cut.
CutOf(f, l, u) == IF f = "claude" THEN l.type = "message_stop" /\ u.finish = "length" ELSE CutHere(l)

\* What comes is for a tool of the provider's own.
Silent(f, u) == f = "claude" /\ u.active = "server_tool"

\* The fields of the line that has none.
LEMMA LineFields ==
  /\ Line.role = FALSE /\ Line.index = 0 /\ Line.kind = Blank /\ Line.call = 0 /\ Line.calls = {} /\ Line.text = <<>>
  /\ Line.thinking = <<>> /\ Line.args = <<>> /\ Line.finish = Blank /\ Line.usage = FALSE /\ Line.type = Blank
<1> QED BY Zenon DEF Line

\* The fields of OpenAI's line.
LEMMA OpenAILineIs ==
  ASSUME NEW l, OpenAIShape(l)
  PROVE  /\ l.type \in {Blank, "[DONE]"} /\ l.kind = Blank /\ l.calls = {}
         /\ l.finish \in {Blank, "stop", "length", "tool_calls"}
         /\ l.call # 0 => l.args = <<>>
<1> DEFINE R == {"type", "role", "index", "kind", "call", "calls", "text", "thinking", "args", "finish", "usage"}
<1>1. DOMAIN Line = R
  BY LineIs
<1>2. CASE l.text # <<>> /\ l = [Line EXCEPT !.text = l.text]
  <2>1. l.type = Blank /\ l.kind = Blank /\ l.calls = {} /\ l.finish = Blank /\ l.call = 0
    BY <1>1, <1>2, LineFields
  <2> QED BY <2>1
<1>3. CASE l.thinking # <<>> /\ l = [Line EXCEPT !.thinking = l.thinking]
  <2>1. l.type = Blank /\ l.kind = Blank /\ l.calls = {} /\ l.finish = Blank /\ l.call = 0
    BY <1>1, <1>3, LineFields
  <2> QED BY <2>1
<1>4. CASE l.call # 0 /\ l = [Line EXCEPT !.index = l.index, !.call = l.call]
  <2>1. l.type = Blank /\ l.kind = Blank /\ l.calls = {} /\ l.finish = Blank /\ l.args = <<>>
    BY <1>1, <1>4, LineFields
  <2> QED BY <2>1
<1>5. CASE l.args # <<>> /\ l = [Line EXCEPT !.index = l.index, !.args = l.args]
  <2>1. l.type = Blank /\ l.kind = Blank /\ l.calls = {} /\ l.finish = Blank /\ l.call = 0
    BY <1>1, <1>5, LineFields
  <2> QED BY <2>1
<1>6. CASE l = [Line EXCEPT !.role = TRUE]
  <2>1. l.type = Blank /\ l.kind = Blank /\ l.calls = {} /\ l.finish = Blank /\ l.call = 0
    BY <1>1, <1>6, LineFields
  <2> QED BY <2>1
<1>7. CASE l.finish \in {"stop", "length", "tool_calls"} /\ l = [Line EXCEPT !.finish = l.finish]
  <2>1. l.type = Blank /\ l.kind = Blank /\ l.calls = {} /\ l.call = 0
    BY <1>1, <1>7, LineFields
  <2> QED BY <1>7, <2>1
<1>8. CASE l = [Line EXCEPT !.usage = TRUE]
  <2>1. l.type = Blank /\ l.kind = Blank /\ l.calls = {} /\ l.finish = Blank /\ l.call = 0
    BY <1>1, <1>8, LineFields
  <2> QED BY <2>1
<1>9. CASE l = Done
  <2>1. l.type = "[DONE]" /\ l.kind = Blank /\ l.calls = {} /\ l.finish = Blank /\ l.call = 0
    BY <1>1, <1>9, LineFields DEF Done
  <2> QED BY <2>1
<1> QED BY <1>2, <1>3, <1>4, <1>5, <1>6, <1>7, <1>8, <1>9 DEF OpenAIShape

\* What a line of each format brings.
LEMMA LineBrings ==
  ASSUME NEW f \in Wires, NEW l, NEW u, Shape(f, l), f = "claude" => u.finish \in Reasons,
         l.type = "block_delta" /\ Silent(f, u) => l.text = <<>> /\ l.thinking = <<>>
  PROVE  Bring(StreamChunkToCanonical(f, l, u), l.text, l.thinking, CallsOf(f, l), FinishOf(f, l, u), CutOf(f, l, u))
<1>1. CASE f = "claude"
  <2>1. Spoken(l) /\ ClaudeShape(l)
    BY <1>1 DEF Shape
  <2>2. StreamChunkToCanonical(f, l, u) = ClaudeChunks(l, u)
    BY <1>1 DEF StreamChunkToCanonical
  <2>3. CallsOf(f, l) = CallIn(l) /\ FinishOf(f, l, u) = (l.type = "message_stop" /\ u.finish # Blank)
        /\ CutOf(f, l, u) = (l.type = "message_stop" /\ u.finish = "length")
    BY <1>1 DEF CallsOf, FinishOf, CutOf
  <2>4. l.type = "block_delta" /\ u.active = "server_tool" => l.text = <<>> /\ l.thinking = <<>>
    BY <1>1 DEF Silent
  <2>5. Bring(ClaudeChunks(l, u), l.text, l.thinking, CallIn(l), l.type = "message_stop" /\ u.finish # Blank,
               l.type = "message_stop" /\ u.finish = "length")
    BY <1>1, <2>1, <2>4, ClaudeBrings
  <2> QED BY <2>2, <2>3, <2>5
<1>2. CASE f = "openai"
  <2>1. Spoken(l) /\ OpenAIShape(l)
    BY <1>2 DEF Shape
  <2>2. StreamChunkToCanonical(f, l, u) = OpenAIChunks(l, u)
    BY <1>2 DEF StreamChunkToCanonical
  <2>3. l.type \in {Blank, "[DONE]"} /\ l.finish \in {Blank, "stop", "length", "tool_calls"}
    BY <2>1, OpenAILineIs
  <2>4. l.type \notin {"failed", "error"}
    BY <2>3, BlankIsNoWord
  <2>5. (l.finish \in Limits) <=> l.finish = "length"
    BY <2>3, BlankIsNoWord DEF Limits
  <2>6. CallsOf(f, l) = CallIn(l) /\ FinishOf(f, l, u) = (l.finish # Blank) /\ CutOf(f, l, u) = (l.finish = "length")
    BY <1>2, <2>4, <2>5 DEF CallsOf, FinishOf, CutOf, EndsHere, CutHere
  <2>7. l.finish \in Reasons
    BY <2>3 DEF Reasons
  <2>8. Bring(OpenAIChunks(l, u), l.text, l.thinking, CallIn(l), l.finish # Blank, l.finish = "length")
    BY <2>1, <2>7, OpenAIBrings
  <2> QED BY <2>2, <2>6, <2>8
<1>3. CASE f = "gemini"
  <2>1. Spoken(l) /\ GeminiShape(l)
    BY <1>3 DEF Shape
  <2>2. StreamChunkToCanonical(f, l, u) = GeminiChunks(l, u)
    BY <1>3 DEF StreamChunkToCanonical
  <2>3. l.type = Blank /\ l.finish \in {Blank, "MAX_TOKENS", "STOP"} /\ l.thinking = <<>>
    BY <2>1 DEF GeminiShape
  <2>4. l.type \notin {"failed", "error"}
    BY <2>3, BlankIsNoWord
  <2>5. (l.finish \in Limits) <=> l.finish = "MAX_TOKENS"
    BY <2>3, BlankIsNoWord DEF Limits
  <2>6. CallsOf(f, l) = CallOf(l) /\ FinishOf(f, l, u) = (l.finish # Blank) /\ CutOf(f, l, u) = (l.finish = "MAX_TOKENS")
    BY <1>3, <2>4, <2>5 DEF CallsOf, FinishOf, CutOf, EndsHere, CutHere
  <2>8. Bring(GeminiChunks(l, u), l.text, <<>>, CallOf(l), l.finish # Blank, l.finish = "MAX_TOKENS")
    BY <2>1, GeminiBrings DEF Spoken
  <2> QED BY <2>2, <2>3, <2>6, <2>8
<1>4. CASE f = "responses"
  <2>1. Spoken(l) /\ ResponsesShape(l)
    BY <1>4 DEF Shape
  <2>2. StreamChunkToCanonical(f, l, u) = ResponsesChunks(l, u)
    BY <1>4 DEF StreamChunkToCanonical
  <2>3. l.thinking = <<>> /\ CallIn(l) = <<>>
    BY <2>1 DEF ResponsesShape, Bare, CallIn
  <2>6. CallsOf(f, l) = <<>> /\ FinishOf(f, l, u) = EndsHere(l) /\ CutOf(f, l, u) = CutHere(l)
    BY <1>4, <2>3 DEF CallsOf, FinishOf, CutOf
  <2>8. Bring(ResponsesChunks(l, u), l.text, <<>>, <<>>, EndsHere(l), CutHere(l))
    BY <2>1, ResponsesBrings
  <2> QED BY <2>2, <2>3, <2>6, <2>8
<1> QED BY <1>1, <1>2, <1>3, <1>4 DEF Wires, Clients

-----------------------------------------------------------------------------
(* A line becomes one chunk at most.                                       *)

\* A line becomes one chunk at most, with its call and its arguments, but
\* for what a tool of the provider's own is asked.
AtMostOne(f, chunks, l, u) ==
  \/ chunks = <<>> /\ l.call = 0 /\ (l.args = <<>> \/ Silent(f, u))
  \/ \E c : chunks = <<c>> /\ c.call = l.call /\ c.args = l.args /\ (l.args # <<>> => ~Silent(f, u))

\* A chunk with what the line has of a call.
LEMMA OneOfThem ==
  ASSUME NEW f, NEW c, NEW l, NEW u, c.call = l.call, c.args = l.args, l.args # <<>> => ~Silent(f, u)
  PROVE  AtMostOne(f, <<c>>, l, u)
BY DEF AtMostOne

\* The Responses API's line.
LEMMA ResponsesOne ==
  ASSUME NEW l, NEW u, ResponsesShape(l)
  PROVE  AtMostOne("responses", ResponsesChunks(l, u), l, u)
<1>1. l.call = 0 /\ l.args = <<>>
  BY DEF ResponsesShape, Bare
<1>2. l.type \in {"created", "output_text.delta", "output_item.added", "completed", "error"}
  BY DEF ResponsesShape
<1>3. \/ ResponsesChunks(l, u) = <<>>
      \/ ResponsesChunks(l, u) = <<[Chunk EXCEPT !.role = TRUE]>>
      \/ ResponsesChunks(l, u) = <<[Chunk EXCEPT !.text = l.text]>>
      \/ ResponsesChunks(l, u) = <<[Chunk EXCEPT !.finish = Renamed(l.finish, FromStatus, "stop"), !.usage = l.usage]>>
      \/ ResponsesChunks(l, u) = <<[Chunk EXCEPT !.finish = "error"]>>
  BY <1>2 DEF ResponsesChunks
<1>4. \A x, y : /\ [Chunk EXCEPT !.role = x].call = 0 /\ [Chunk EXCEPT !.role = x].args = <<>>
                /\ [Chunk EXCEPT !.text = x].call = 0 /\ [Chunk EXCEPT !.text = x].args = <<>>
                /\ [Chunk EXCEPT !.finish = x].call = 0 /\ [Chunk EXCEPT !.finish = x].args = <<>>
                /\ [Chunk EXCEPT !.finish = x, !.usage = y].call = 0 /\ [Chunk EXCEPT !.finish = x, !.usage = y].args = <<>>
  BY ChunkIs
<1>5. ASSUME NEW c, c.call = 0, c.args = <<>> PROVE AtMostOne("responses", <<c>>, l, u)
  BY <1>1, <1>5 DEF AtMostOne
<1>6. AtMostOne("responses", <<>>, l, u)
  BY <1>1 DEF AtMostOne
<1> QED BY <1>3, <1>4, <1>5, <1>6

\* Claude's line.
LEMMA ClaudeOne ==
  ASSUME NEW l, NEW u, ClaudeShape(l)
  PROVE  AtMostOne("claude", ClaudeChunks(l, u), l, u)
<1>1. l.type \in {"message_start", "block_start", "block_delta", "block_stop", "message_delta", "message_stop", "error"}
  BY DEF ClaudeShape
<1>2. \A x, y, z : /\ [Chunk EXCEPT !.role = x].call = 0 /\ [Chunk EXCEPT !.role = x].args = <<>>
                /\ [Chunk EXCEPT !.call = x].call = x /\ [Chunk EXCEPT !.call = x].args = <<>>
                /\ [Chunk EXCEPT !.text = x, !.thinking = y, !.args = z].call = 0
                /\ [Chunk EXCEPT !.text = x, !.thinking = y, !.args = z].args = z
                /\ [Chunk EXCEPT !.finish = x, !.usage = y].call = 0 /\ [Chunk EXCEPT !.finish = x, !.usage = y].args = <<>>
  BY ChunkIs
<1>4. l.call = 0 /\ (l.args = <<>> \/ Silent("claude", u)) => AtMostOne("claude", <<>>, l, u)
  BY DEF AtMostOne
<1>5. CASE l.type \notin {"block_start", "block_delta"}
  <2>1. l.call = 0 /\ l.args = <<>>
    BY <1>5 DEF ClaudeShape, Bare
  <2>2. \/ ClaudeChunks(l, u) = <<>>
        \/ ClaudeChunks(l, u) = <<[Chunk EXCEPT !.role = TRUE]>>
        \/ ClaudeChunks(l, u) = <<[Chunk EXCEPT !.finish = u.finish, !.usage = u.usage]>>
    BY <1>1, <1>5 DEF ClaudeChunks
  <2>3. ASSUME NEW c, c.call = 0, c.args = <<>> PROVE AtMostOne("claude", <<c>>, l, u)
    BY <2>1, <2>3, OneOfThem
  <2>4. CASE ClaudeChunks(l, u) = <<>>
    BY <1>4, <2>1, <2>4
  <2>5. CASE ClaudeChunks(l, u) = <<[Chunk EXCEPT !.role = TRUE]>>
    BY <1>2, <2>3, <2>5
  <2>6. CASE ClaudeChunks(l, u) = <<[Chunk EXCEPT !.finish = u.finish, !.usage = u.usage]>>
    <3> DEFINE c == [Chunk EXCEPT !.finish = u.finish, !.usage = u.usage]
    <3>1. c.call = 0 /\ c.args = <<>>
      BY <1>2
    <3> HIDE DEF c
    <3>2. AtMostOne("claude", <<c>>, l, u)
      BY <2>3, <3>1
    <3> QED BY <2>6, <3>2 DEF c
  <2> QED BY <2>2, <2>4, <2>5, <2>6
<1>6. CASE l.type = "block_start"
  <2>1. l.args = <<>> /\ (l.call # 0 <=> l.kind = "tool_use")
    BY <1>6 DEF ClaudeShape
  <2>2. CASE l.kind = "tool_use"
    <3>1. ClaudeChunks(l, u) = <<[Chunk EXCEPT !.call = l.call]>>
      BY <1>6, <2>2 DEF ClaudeChunks
    <3>2. ASSUME NEW c, c.call = l.call, c.args = <<>> PROVE AtMostOne("claude", <<c>>, l, u)
      BY <2>1, <3>2, OneOfThem
    <3> QED BY <1>2, <3>1, <3>2
  <2>3. CASE l.kind # "tool_use"
    <3>1. ClaudeChunks(l, u) = <<>>
      BY <1>6, <2>3 DEF ClaudeChunks
    <3> QED BY <1>4, <2>1, <2>3, <3>1
  <2> QED BY <2>2, <2>3
<1>7. CASE l.type = "block_delta"
  <2>1. l.call = 0
    BY <1>7 DEF ClaudeShape
  <2>2. CASE Silent("claude", u)
    <3>1. ClaudeChunks(l, u) = <<>>
      BY <1>7, <2>2 DEF ClaudeChunks, Silent
    <3> QED BY <1>4, <2>1, <2>2, <3>1
  <2>3. CASE ~Silent("claude", u)
    <3>1. ClaudeChunks(l, u) = <<[Chunk EXCEPT !.text = l.text, !.thinking = l.thinking, !.args = l.args]>>
      BY <1>7, <2>3 DEF ClaudeChunks, Silent
    <3> DEFINE c == [Chunk EXCEPT !.text = l.text, !.thinking = l.thinking, !.args = l.args]
    <3>2. c.call = l.call /\ c.args = l.args
      BY <1>2, <2>1
    <3> HIDE DEF c
    <3>3. AtMostOne("claude", <<c>>, l, u)
      BY <2>3, <3>2, OneOfThem
    <3> QED BY <3>1, <3>3 DEF c
  <2> QED BY <2>2, <2>3
<1> QED BY <1>1, <1>5, <1>6, <1>7

\* The parts of a line that are told.
LEMMA ToldParts ==
  /\ Told([Chunk EXCEPT !.role = FALSE]) = <<>> /\ Told([Chunk EXCEPT !.role = TRUE]) = <<[Chunk EXCEPT !.role = TRUE]>>
  /\ Told([Chunk EXCEPT !.usage = FALSE]) = <<>> /\ Told([Chunk EXCEPT !.usage = TRUE]) = <<[Chunk EXCEPT !.usage = TRUE]>>
  /\ Told([Chunk EXCEPT !.text = <<>>]) = <<>> /\ Told([Chunk EXCEPT !.thinking = <<>>]) = <<>>
  /\ Told([Chunk EXCEPT !.call = 0, !.args = <<>>]) = <<>> /\ Told([Chunk EXCEPT !.finish = Blank]) = <<>>
  /\ \A x : x # <<>> => /\ Told([Chunk EXCEPT !.text = x]) = <<[Chunk EXCEPT !.text = x]>>
                        /\ Told([Chunk EXCEPT !.thinking = x]) = <<[Chunk EXCEPT !.thinking = x]>>
  /\ \A x, y : x # 0 \/ y # <<>> => Told([Chunk EXCEPT !.call = x, !.args = y]) = <<[Chunk EXCEPT !.call = x, !.args = y]>>
  /\ \A x : x # Blank => Told([Chunk EXCEPT !.finish = x]) = <<[Chunk EXCEPT !.finish = x]>>
<1>1. /\ [Chunk EXCEPT !.role = FALSE] = Chunk /\ [Chunk EXCEPT !.usage = FALSE] = Chunk
      /\ [Chunk EXCEPT !.text = <<>>] = Chunk /\ [Chunk EXCEPT !.thinking = <<>>] = Chunk
      /\ [Chunk EXCEPT !.call = 0, !.args = <<>>] = Chunk /\ [Chunk EXCEPT !.finish = Blank] = Chunk
  <2>1. \A x \in DOMAIN Chunk : \A v : v = Chunk[x] => [Chunk EXCEPT ![x] = v] = Chunk
    <3>1. Chunk = [x \in DOMAIN Chunk |-> Chunk[x]]
      BY DEF Chunk
    <3> QED BY <3>1
  <2>2. [Chunk EXCEPT !.role = FALSE] = Chunk
    BY <2>1, ChunkIs
  <2>3. [Chunk EXCEPT !.usage = FALSE] = Chunk
    BY <2>1, ChunkIs
  <2>4. [Chunk EXCEPT !.text = <<>>] = Chunk
    BY <2>1, ChunkIs
  <2>5. [Chunk EXCEPT !.thinking = <<>>] = Chunk
    BY <2>1, ChunkIs
  <2>6. [Chunk EXCEPT !.call = 0] = Chunk
    BY <2>1, ChunkIs
  <2>7. [Chunk EXCEPT !.args = <<>>] = Chunk
    BY <2>1, ChunkIs
  <2>8. [Chunk EXCEPT !.finish = Blank] = Chunk
    BY <2>1, ChunkIs
  <2>9. [Chunk EXCEPT !.call = 0, !.args = <<>>] = [[Chunk EXCEPT !.call = 0] EXCEPT !.args = <<>>]
    OBVIOUS
  <2> QED BY <2>2, <2>3, <2>4, <2>5, <2>6, <2>7, <2>8, <2>9
<1>2. [Chunk EXCEPT !.role = TRUE].role = TRUE /\ [Chunk EXCEPT !.usage = TRUE].usage = TRUE
  BY ChunkIs
<1>3. \A x, y : /\ [Chunk EXCEPT !.text = x].text = x /\ [Chunk EXCEPT !.thinking = x].thinking = x
                /\ [Chunk EXCEPT !.call = x, !.args = y].call = x /\ [Chunk EXCEPT !.call = x, !.args = y].args = y
                /\ [Chunk EXCEPT !.finish = x].finish = x
  BY ChunkIs
<1>4. [Chunk EXCEPT !.role = TRUE] # Chunk /\ [Chunk EXCEPT !.usage = TRUE] # Chunk
  BY <1>2, ChunkIs
<1>5. \A x, y : /\ x # <<>> => [Chunk EXCEPT !.text = x] # Chunk /\ [Chunk EXCEPT !.thinking = x] # Chunk
                /\ x # 0 \/ y # <<>> => [Chunk EXCEPT !.call = x, !.args = y] # Chunk
                /\ x # Blank => [Chunk EXCEPT !.finish = x] # Chunk
  <2>1. \A x : x # <<>> => [Chunk EXCEPT !.text = x] # Chunk /\ [Chunk EXCEPT !.thinking = x] # Chunk
    BY <1>3, ChunkIs
  <2>2. \A x, y : x # 0 \/ y # <<>> => [Chunk EXCEPT !.call = x, !.args = y] # Chunk
    BY <1>3, ChunkIs
  <2>3. \A x : x # Blank => [Chunk EXCEPT !.finish = x] # Chunk
    BY <1>3, ChunkIs
  <2> QED BY <2>1, <2>2, <2>3
<1>6. /\ Told([Chunk EXCEPT !.role = FALSE]) = <<>> /\ Told([Chunk EXCEPT !.usage = FALSE]) = <<>>
      /\ Told([Chunk EXCEPT !.text = <<>>]) = <<>> /\ Told([Chunk EXCEPT !.thinking = <<>>]) = <<>>
      /\ Told([Chunk EXCEPT !.call = 0, !.args = <<>>]) = <<>> /\ Told([Chunk EXCEPT !.finish = Blank]) = <<>>
  BY <1>1 DEF Told
<1>7. /\ Told([Chunk EXCEPT !.role = TRUE]) = <<[Chunk EXCEPT !.role = TRUE]>>
      /\ Told([Chunk EXCEPT !.usage = TRUE]) = <<[Chunk EXCEPT !.usage = TRUE]>>
  BY <1>4 DEF Told
<1>8. ASSUME NEW x, x # <<>>
      PROVE  /\ Told([Chunk EXCEPT !.text = x]) = <<[Chunk EXCEPT !.text = x]>>
             /\ Told([Chunk EXCEPT !.thinking = x]) = <<[Chunk EXCEPT !.thinking = x]>>
  BY <1>5, <1>8 DEF Told
<1>9. ASSUME NEW x, NEW y, x # 0 \/ y # <<>>
       PROVE  Told([Chunk EXCEPT !.call = x, !.args = y]) = <<[Chunk EXCEPT !.call = x, !.args = y]>>
  BY <1>5, <1>9 DEF Told
<1>10. ASSUME NEW x, x # Blank PROVE Told([Chunk EXCEPT !.finish = x]) = <<[Chunk EXCEPT !.finish = x]>>
  BY <1>5, <1>10 DEF Told
<1> QED BY <1>6, <1>7, <1>8, <1>9, <1>10

\* One part alone.
LEMMA OnePart ==
  ASSUME NEW y, IsSeq(y), NEW r, NEW t, NEW h, NEW c, NEW f, NEW u,
         \/ r = y /\ t = <<>> /\ h = <<>> /\ c = <<>> /\ f = <<>> /\ u = <<>>
         \/ r = <<>> /\ t = y /\ h = <<>> /\ c = <<>> /\ f = <<>> /\ u = <<>>
         \/ r = <<>> /\ t = <<>> /\ h = y /\ c = <<>> /\ f = <<>> /\ u = <<>>
         \/ r = <<>> /\ t = <<>> /\ h = <<>> /\ c = y /\ f = <<>> /\ u = <<>>
         \/ r = <<>> /\ t = <<>> /\ h = <<>> /\ c = <<>> /\ f = y /\ u = <<>>
         \/ r = <<>> /\ t = <<>> /\ h = <<>> /\ c = <<>> /\ f = <<>> /\ u = y
  PROVE  r \o t \o h \o c \o f \o u = y
<1> DEFINE none == <<>>
<1>1. none \o y = y /\ y \o none = y /\ none \o none = none
  BY ConcatNone, NoneIs
<1> HIDE DEF none
<1>2. \/ r = y /\ t = none /\ h = none /\ c = none /\ f = none /\ u = none
      \/ r = none /\ t = y /\ h = none /\ c = none /\ f = none /\ u = none
      \/ r = none /\ t = none /\ h = y /\ c = none /\ f = none /\ u = none
      \/ r = none /\ t = none /\ h = none /\ c = y /\ f = none /\ u = none
      \/ r = none /\ t = none /\ h = none /\ c = none /\ f = y /\ u = none
      \/ r = none /\ t = none /\ h = none /\ c = none /\ f = none /\ u = y
  BY DEF none
<1> QED BY <1>1, <1>2

\* The one part an OpenAI line has.
LEMMA OpenAIOne ==
  ASSUME NEW l, NEW u, OpenAIShape(l)
  PROVE  AtMostOne("openai", OpenAIChunks(l, u), l, u)
<1> DEFINE R == Told([Chunk EXCEPT !.role = l.role])
           T == Told([Chunk EXCEPT !.text = l.text])
           H == Told([Chunk EXCEPT !.thinking = l.thinking])
           C == Told([Chunk EXCEPT !.call = l.call, !.args = l.args])
           F == Told([Chunk EXCEPT !.finish = l.finish])
           U == Told([Chunk EXCEPT !.usage = l.usage])
<1>1. OpenAIChunks(l, u) = R \o T \o H \o C \o F \o U
  BY DEF OpenAIChunks
<1>2. /\ l.role = FALSE => R = <<>>
      /\ l.text = <<>> => T = <<>>
      /\ l.thinking = <<>> => H = <<>>
      /\ l.call = 0 /\ l.args = <<>> => C = <<>>
      /\ l.finish = Blank => F = <<>>
      /\ l.usage = FALSE => U = <<>>
  BY ToldParts
<1>3. \A x, y : /\ [Chunk EXCEPT !.role = x].call = 0 /\ [Chunk EXCEPT !.role = x].args = <<>>
                /\ [Chunk EXCEPT !.call = x, !.args = y].call = x /\ [Chunk EXCEPT !.call = x, !.args = y].args = y
                /\ [Chunk EXCEPT !.text = x].call = 0 /\ [Chunk EXCEPT !.text = x].args = <<>>
                /\ [Chunk EXCEPT !.thinking = x].call = 0 /\ [Chunk EXCEPT !.thinking = x].args = <<>>
                /\ [Chunk EXCEPT !.finish = x].call = 0 /\ [Chunk EXCEPT !.finish = x].args = <<>>
                /\ [Chunk EXCEPT !.usage = x].call = 0 /\ [Chunk EXCEPT !.usage = x].args = <<>>
  BY ChunkIs
<1>c. \A x, y : x # 0 \/ y # <<>> => Told([Chunk EXCEPT !.call = x, !.args = y]) = <<[Chunk EXCEPT !.call = x, !.args = y]>>
  BY ToldParts
<1>d. l.call # 0 \/ l.args # <<>> => C = <<[Chunk EXCEPT !.call = l.call, !.args = l.args]>>
  BY <1>c
<1>4. ASSUME NEW c, c.call = l.call, c.args = l.args PROVE AtMostOne("openai", <<c>>, l, u)
  BY <1>4 DEF AtMostOne, Silent
<1>5. \A c : IsSeq(<<c>>)
  BY OneIs
<1>6. CASE l.text # <<>> /\ l = [Line EXCEPT !.text = l.text]
  <2>1. l.role = FALSE /\ l.thinking = <<>> /\ l.call = 0 /\ l.args = <<>> /\ l.finish = Blank /\ l.usage = FALSE
    BY <1>6, LineFields, LineIs
  <2> DEFINE c == [Chunk EXCEPT !.text = l.text]
             y == <<c>>
  <2>2. T = y
    BY <1>6, ToldParts DEF T
  <2>3. c.call = l.call /\ c.args = l.args
    BY <1>3, <1>6, <2>1
  <2>4. R = <<>> /\ H = <<>> /\ C = <<>> /\ F = <<>> /\ U = <<>>
    BY <1>2, <2>1
  <2>5. IsSeq(y)
    BY <1>5
  <2> HIDE DEF R, T, H, C, F, U, y
  <2>6. R \o T \o H \o C \o F \o U = y
    BY <2>2, <2>4, <2>5, OnePart
  <2>7. OpenAIChunks(l, u) = y
    BY <1>1, <2>6
  <2> HIDE DEF c
  <2> QED BY <1>4, <2>3, <2>7 DEF y
<1>7. CASE l.thinking # <<>> /\ l = [Line EXCEPT !.thinking = l.thinking]
  <2>1. l.role = FALSE /\ l.text = <<>> /\ l.call = 0 /\ l.args = <<>> /\ l.finish = Blank /\ l.usage = FALSE
    BY <1>7, LineFields, LineIs
  <2> DEFINE c == [Chunk EXCEPT !.thinking = l.thinking]
             y == <<c>>
  <2>2. H = y
    BY <1>7, ToldParts DEF H
  <2>3. c.call = l.call /\ c.args = l.args
    BY <1>3, <1>7, <2>1
  <2>4. R = <<>> /\ T = <<>> /\ C = <<>> /\ F = <<>> /\ U = <<>>
    BY <1>2, <2>1
  <2>5. IsSeq(y)
    BY <1>5
  <2> HIDE DEF R, T, H, C, F, U, y
  <2>6. R \o T \o H \o C \o F \o U = y
    BY <2>2, <2>4, <2>5, OnePart
  <2>7. OpenAIChunks(l, u) = y
    BY <1>1, <2>6
  <2> HIDE DEF c
  <2> QED BY <1>4, <2>3, <2>7 DEF y
<1>8. CASE l.call # 0 /\ l = [Line EXCEPT !.index = l.index, !.call = l.call]
  <2>1. l.role = FALSE /\ l.text = <<>> /\ l.thinking = <<>> /\ l.finish = Blank /\ l.usage = FALSE
    BY <1>8, LineFields, LineIs
  <2> DEFINE c == [Chunk EXCEPT !.call = l.call, !.args = l.args]
             y == <<c>>
  <2>2. C = y
    BY <1>8, <1>d
  <2>3. c.call = l.call /\ c.args = l.args
    BY <1>3, <1>8, <2>1
  <2>4. R = <<>> /\ T = <<>> /\ H = <<>> /\ F = <<>> /\ U = <<>>
    BY <1>2, <2>1
  <2>5. IsSeq(y)
    BY <1>5
  <2> HIDE DEF R, T, H, C, F, U, y
  <2>6. R \o T \o H \o C \o F \o U = y
    BY <2>2, <2>4, <2>5, OnePart
  <2>7. OpenAIChunks(l, u) = y
    BY <1>1, <2>6
  <2> HIDE DEF c
  <2> QED BY <1>4, <2>3, <2>7 DEF y
<1>9. CASE l.args # <<>> /\ l = [Line EXCEPT !.index = l.index, !.args = l.args]
  <2>1. l.role = FALSE /\ l.text = <<>> /\ l.thinking = <<>> /\ l.finish = Blank /\ l.usage = FALSE
    BY <1>9, LineFields, LineIs
  <2> DEFINE c == [Chunk EXCEPT !.call = l.call, !.args = l.args]
             y == <<c>>
  <2>2. C = y
    BY <1>9, <1>d
  <2>3. c.call = l.call /\ c.args = l.args
    BY <1>3, <1>9, <2>1
  <2>4. R = <<>> /\ T = <<>> /\ H = <<>> /\ F = <<>> /\ U = <<>>
    BY <1>2, <2>1
  <2>5. IsSeq(y)
    BY <1>5
  <2> HIDE DEF R, T, H, C, F, U, y
  <2>6. R \o T \o H \o C \o F \o U = y
    BY <2>2, <2>4, <2>5, OnePart
  <2>7. OpenAIChunks(l, u) = y
    BY <1>1, <2>6
  <2> HIDE DEF c
  <2> QED BY <1>4, <2>3, <2>7 DEF y
<1>10. CASE l = [Line EXCEPT !.role = TRUE]
  <2>1. l.text = <<>> /\ l.thinking = <<>> /\ l.call = 0 /\ l.args = <<>> /\ l.finish = Blank /\ l.usage = FALSE
    BY <1>10, LineFields, LineIs
  <2> DEFINE c == [Chunk EXCEPT !.role = TRUE]
             y == <<c>>
  <2>2. R = y
    <3>1. l.role = TRUE
      BY <1>10, LineFields, LineIs
    <3> QED BY <3>1, ToldParts DEF R
  <2>3. c.call = l.call /\ c.args = l.args
    BY <1>3, <1>10, <2>1
  <2>4. T = <<>> /\ H = <<>> /\ C = <<>> /\ F = <<>> /\ U = <<>>
    BY <1>2, <2>1
  <2>5. IsSeq(y)
    BY <1>5
  <2> HIDE DEF R, T, H, C, F, U, y
  <2>6. R \o T \o H \o C \o F \o U = y
    BY <2>2, <2>4, <2>5, OnePart
  <2>7. OpenAIChunks(l, u) = y
    BY <1>1, <2>6
  <2> HIDE DEF c
  <2> QED BY <1>4, <2>3, <2>7 DEF y
<1>11. CASE l.finish \in {"stop", "length", "tool_calls"} /\ l = [Line EXCEPT !.finish = l.finish]
  <2>1. l.role = FALSE /\ l.text = <<>> /\ l.thinking = <<>> /\ l.call = 0 /\ l.args = <<>> /\ l.usage = FALSE
    BY <1>11, LineFields, LineIs, BlankIsNoWord
  <2> DEFINE c == [Chunk EXCEPT !.finish = l.finish]
             y == <<c>>
  <2>2. F = y
    <3>1. l.finish # Blank
      BY <1>11, BlankIsNoWord DEF Limits
    <3>2. \A x : x # Blank => Told([Chunk EXCEPT !.finish = x]) = <<[Chunk EXCEPT !.finish = x]>>
      BY ToldParts
    <3> QED BY <3>1, <3>2 DEF F
  <2>3. c.call = l.call /\ c.args = l.args
    BY <1>3, <1>11, <2>1
  <2>4. R = <<>> /\ T = <<>> /\ H = <<>> /\ C = <<>> /\ U = <<>>
    BY <1>2, <2>1
  <2>5. IsSeq(y)
    BY <1>5
  <2> HIDE DEF R, T, H, C, F, U, y
  <2>6. R \o T \o H \o C \o F \o U = y
    BY <2>2, <2>4, <2>5, OnePart
  <2>7. OpenAIChunks(l, u) = y
    BY <1>1, <2>6
  <2> HIDE DEF c
  <2> QED BY <1>4, <2>3, <2>7 DEF y
<1>12. CASE l = [Line EXCEPT !.usage = TRUE]
  <2>1. l.role = FALSE /\ l.text = <<>> /\ l.thinking = <<>> /\ l.call = 0 /\ l.args = <<>> /\ l.finish = Blank
    BY <1>12, LineFields, LineIs
  <2> DEFINE c == [Chunk EXCEPT !.usage = TRUE]
             y == <<c>>
  <2>2. U = y
    <3>1. l.usage = TRUE
      BY <1>12, LineFields, LineIs
    <3> QED BY <3>1, ToldParts DEF U
  <2>3. c.call = l.call /\ c.args = l.args
    BY <1>3, <1>12, <2>1
  <2>4. R = <<>> /\ T = <<>> /\ H = <<>> /\ C = <<>> /\ F = <<>>
    BY <1>2, <2>1
  <2>5. IsSeq(y)
    BY <1>5
  <2> HIDE DEF R, T, H, C, F, U, y
  <2>6. R \o T \o H \o C \o F \o U = y
    BY <2>2, <2>4, <2>5, OnePart
  <2>7. OpenAIChunks(l, u) = y
    BY <1>1, <2>6
  <2> HIDE DEF c
  <2> QED BY <1>4, <2>3, <2>7 DEF y
<1>13. CASE l = Done
  <2>1. l.role = FALSE /\ l.text = <<>> /\ l.thinking = <<>> /\ l.call = 0 /\ l.args = <<>> /\ l.finish = Blank /\ l.usage = FALSE
    BY <1>13, LineFields, LineIs DEF Done
  <2> HIDE DEF R, T, H, C, F, U
  <2>2. R \o T \o H \o C \o F \o U = <<>>
    BY <1>2, <2>1, NoneIs, OnePart
  <2> QED BY <1>1, <2>1, <2>2 DEF AtMostOne
<1> QED BY <1>6, <1>7, <1>8, <1>9, <1>10, <1>11, <1>12, <1>13 DEF OpenAIShape

\* A line of every provider but Gemini, whose calls come whole.
LEMMA LineIsOne ==
  ASSUME NEW f \in Wires \ {"gemini"}, NEW l, NEW u, Shape(f, l)
  PROVE  AtMostOne(f, StreamChunkToCanonical(f, l, u), l, u)
<1>1. CASE f = "claude"
  BY <1>1, ClaudeOne DEF Shape, StreamChunkToCanonical
<1>2. CASE f = "openai"
  BY <1>2, OpenAIOne DEF Shape, StreamChunkToCanonical
<1>3. CASE f = "responses"
  BY <1>3, ResponsesOne DEF Shape, StreamChunkToCanonical
<1> QED BY <1>1, <1>2, <1>3 DEF Wires, Clients

-----------------------------------------------------------------------------
(* The words are heard.                                                    *)

\* The calls of the lines are those of the reader's list, in this order.
Listed(f, a, k) == IsSeq(k) /\ ToSet(k) = CallsIn(f, a) /\ (f # "gemini" => k = Announced(a))

\* An element more.
LEMMA ListMore ==
  ASSUME NEW k, IsSeq(k), NEW x
  PROVE  ToSet(k \o <<x>>) = ToSet(k) \cup {x}
<1> DEFINE w == k \o <<x>>
           n == Len(k)
<1>1. /\ n \in Nat /\ DOMAIN k = 1 .. n /\ DOMAIN w = 1 .. n + 1
      /\ \A i \in 1 .. n : w[i] = k[i]
      /\ w[n + 1] = x
  BY OneMore
<1> HIDE DEF w, n
<1>2. \A i \in 1 .. n + 1 : i \in 1 .. n \/ i = n + 1
  BY <1>1
<1>3. \A i \in 1 .. n : i \in 1 .. n + 1
  BY <1>1
<1>4. n + 1 \in 1 .. n + 1
  BY <1>1
<1>5. ToSet(w) \subseteq ToSet(k) \cup {x}
  BY <1>1, <1>2 DEF ToSet
<1>6. ToSet(k) \subseteq ToSet(w) /\ x \in ToSet(w)
  BY <1>1, <1>3, <1>4 DEF ToSet
<1> QED BY <1>5, <1>6 DEF w

\* The calls that are in a line.
LEMMA CallsMore ==
  ASSUME NEW a, IsSeq(a), NEW l
  PROVE  CallsIn("gemini", a \o <<l>>) = CallsIn("gemini", a) \cup {c.call : c \in l.calls}
<1> DEFINE w == a \o <<l>>
           n == Len(a)
           C(y) == {c.call : c \in y.calls}
<1>1. /\ n \in Nat /\ DOMAIN a = 1 .. n /\ DOMAIN w = 1 .. n + 1
      /\ \A i \in 1 .. n : w[i] = a[i]
      /\ w[n + 1] = l
  BY OneMore
<1> HIDE DEF w, n
<1>2. \A i \in 1 .. n + 1 : i \in 1 .. n \/ i = n + 1
  BY <1>1
<1>3. n + 1 \in 1 .. n + 1 /\ \A i \in 1 .. n : i \in 1 .. n + 1
  BY <1>1
<1>4. \A s : CallsIn("gemini", s) = UNION {C(s[i]) : i \in DOMAIN s}
  BY DEF CallsIn
<1> HIDE DEF C
<1>5. \A y : y \in UNION {C(w[i]) : i \in 1 .. n + 1} <=> \E i \in 1 .. n + 1 : y \in C(w[i])
  OBVIOUS
<1>6. \A y : y \in UNION {C(a[i]) : i \in 1 .. n} <=> \E i \in 1 .. n : y \in C(a[i])
  OBVIOUS
<1>7. CallsIn("gemini", w) = CallsIn("gemini", a) \cup C(l)
  <2>1. ASSUME NEW y \in CallsIn("gemini", w) PROVE y \in CallsIn("gemini", a) \cup C(l)
    BY <1>1, <1>2, <1>4, <1>5, <1>6, <2>1
  <2>2. ASSUME NEW y \in CallsIn("gemini", a) \cup C(l) PROVE y \in CallsIn("gemini", w)
    BY <1>1, <1>3, <1>4, <1>5, <1>6, <2>2
  <2> QED BY <2>1, <2>2
<1> QED BY <1>7 DEF w, C

\* The calls of a line more.
LEMMA OneListed ==
  ASSUME NEW f \in Wires, NEW a, NEW t, NEW h, NEW c, Say(a, t, h, c), NEW k, Listed(f, a, k), NEW l, Shape(f, l)
  PROVE  Listed(f, a \o <<l>>, k \o CallsOf(f, l))
<1>1. IsSeq(a) /\ IsSeq(k) /\ IsSeq(CallIn(l)) /\ IsSeq(CallOf(l))
  BY NoneIs, OneIs DEF Say, Listed, CallIn, CallOf
<1>2. CASE f # "gemini"
  <2>1. CallsOf(f, l) = CallIn(l) /\ k = Announced(a) /\ c = k
    BY <1>2 DEF CallsOf, Listed, Say
  <2>2. Spoken(l)
    BY DEF Shape
  <2>3. Say(<<l>>, l.text, l.thinking, CallIn(l))
    BY <2>2, SayOne
  <2>4. Say(a \o <<l>>, t \o l.text, h \o l.thinking, c \o CallIn(l))
    BY <2>3, SayConcat
  <2>5. Announced(a \o <<l>>) = k \o CallIn(l)
    BY <2>1, <2>4 DEF Say
  <2>6. IsSeq(k \o CallIn(l))
    BY <1>1, ConcatIs
  <2>7. CallsIn(f, a \o <<l>>) = ToSet(Announced(a \o <<l>>))
    BY <1>2 DEF CallsIn
  <2> QED BY <1>2, <2>1, <2>5, <2>6, <2>7 DEF Listed
<1>3. CASE f = "gemini"
  <2>1. GeminiShape(l) /\ CallsOf(f, l) = CallOf(l)
    BY <1>3 DEF Shape, CallsOf
  <2>2. CallsIn(f, a \o <<l>>) = CallsIn(f, a) \cup {d.call : d \in l.calls}
    BY <1>1, <1>3, CallsMore
  <2>3. IsSeq(k \o CallOf(l))
    BY <1>1, ConcatIs
  <2>4. CASE l.calls = {}
    <3>1. CallOf(l) = <<>> /\ {d.call : d \in l.calls} = {}
      BY <2>4 DEF CallOf
    <3>2. k \o <<>> = k
      BY <1>1, ConcatNone
    <3>3. k \o CallsOf(f, l) = k /\ CallsIn(f, a \o <<l>>) = CallsIn(f, a)
      BY <2>1, <2>2, <3>1, <3>2
    <3> QED BY <1>3, <3>3 DEF Listed
  <2>5. ASSUME NEW d \in l.calls, l.calls = {d}, d.call # 0 PROVE Listed(f, a \o <<l>>, k \o CallsOf(f, l))
    <3>1. (CHOOSE e \in l.calls : TRUE) = d /\ l.calls # {}
      BY <2>5
    <3>2. CallOf(l) = <<d.call>>
      BY <2>5, <3>1 DEF CallOf, CallIn
    <3>3. ToSet(k \o <<d.call>>) = ToSet(k) \cup {d.call}
      BY <1>1, ListMore
    <3>4. {e.call : e \in l.calls} = {d.call}
      BY <2>5
    <3>5. ToSet(k \o CallsOf(f, l)) = CallsIn(f, a \o <<l>>)
      BY <2>1, <2>2, <3>2, <3>3, <3>4 DEF Listed
    <3> QED BY <1>3, <2>1, <2>3, <3>5 DEF Listed
  <2> QED BY <2>1, <2>4, <2>5 DEF GeminiShape
<1> QED BY <1>2, <1>3

\* What was said is heard.
WordsHeard(f, g, a, b) ==
  /\ Say(a, TextIn(a), ThinkingIn(a), Announced(a))
  /\ \E k : Listed(f, a, k) /\ Heard(g, TextIn(a), ThinkingIn(a), k, b)

\* Lines heard after others.
LEMMA HeardConcat ==
  ASSUME NEW g, NEW a, NEW b, NEW t1, NEW h1, NEW c1, NEW t2, NEW h2, NEW c2, Heard(g, t1, h1, c1, a), Heard(g, t2, h2, c2, b)
  PROVE  Heard(g, t1 \o t2, h1 \o h2, c1 \o c2, a \o b)
<1>1. CASE g = "gemini"
  <2>1. Say(a, t1, <<>>, <<>>) /\ Say(b, t2, <<>>, <<>>)
    BY <1>1 DEF Heard
  <2>2. ASSUME NEW x, NEW y, Say(a, t1, x, y), Say(b, t2, x, y) PROVE Say(a \o b, t1 \o t2, x \o x, y \o y)
    BY <2>2, SayConcat
  <2>3. Say(a \o b, t1 \o t2, <<>> \o <<>>, <<>> \o <<>>)
    BY <2>1, <2>2
  <2>4. Say(a \o b, t1 \o t2, <<>>, <<>>)
    BY <2>3, ConcatNone, NoneIs
  <2> QED BY <1>1, <2>4 DEF Heard
<1>2. CASE g # "gemini"
  <2>1. Say(a, t1, h1, c1) /\ Say(b, t2, h2, c2)
    BY <1>2 DEF Heard
  <2>2. Say(a \o b, t1 \o t2, h1 \o h2, c1 \o c2)
    BY <2>1, SayConcat
  <2> QED BY <1>2, <2>2 DEF Heard
<1> QED BY <1>1, <1>2

\* Whether a line finishes, or cuts, is true or it is not.
LEMMA OfIsTrueOrNot ==
  ASSUME NEW f, NEW l, NEW u
  PROVE  FinishOf(f, l, u) \in BOOLEAN /\ CutOf(f, l, u) \in BOOLEAN
<1>1. EndsHere(l) \in BOOLEAN /\ CutHere(l) \in BOOLEAN
  BY DEF EndsHere, CutHere
<1>2. CASE f = "claude"
  BY <1>2 DEF FinishOf, CutOf
<1>3. CASE f # "claude"
  BY <1>1, <1>3 DEF FinishOf, CutOf
<1> QED BY <1>2, <1>3

\* A line that is read, translated and written adds its words to both sides.
LEMMA WordsStep ==
  ASSUME NEW f \in Wires, NEW g \in Clients, NEW a, NEW b, NEW l, NEW u, NEW s, Shape(f, l), f = "claude" => u.finish \in Reasons,
         l.type = "block_delta" /\ Silent(f, u) => l.text = <<>> /\ l.thinking = <<>>,
         WordsHeard(f, g, a, b)
  PROVE  WordsHeard(f, g, a \o <<l>>, b \o WriteAll(g, StreamChunkToCanonical(f, l, u), s).lines)
<1> DEFINE out == WriteAll(g, StreamChunkToCanonical(f, l, u), s).lines
           kl == CallsOf(f, l)
           w == a \o <<l>>
<1>1. Bring(StreamChunkToCanonical(f, l, u), l.text, l.thinking, kl, FinishOf(f, l, u), CutOf(f, l, u))
  BY LineBrings
<1>2. FinishOf(f, l, u) \in BOOLEAN /\ CutOf(f, l, u) \in BOOLEAN
  BY OfIsTrueOrNot
<1>3. Heard(g, l.text, l.thinking, kl, out)
  <2> HIDE DEF kl
  <2> QED BY <1>1, <1>2, BroughtIsWritten
<1>4. PICK k : Listed(f, a, k) /\ Heard(g, TextIn(a), ThinkingIn(a), k, b)
  BY DEF WordsHeard
<1>5. Say(a, TextIn(a), ThinkingIn(a), Announced(a)) /\ Say(<<l>>, l.text, l.thinking, CallIn(l))
  BY SayOne DEF WordsHeard, Shape
<1>6. Listed(f, w, k \o kl)
  BY <1>4, <1>5, OneListed
<1>7. Say(w, TextIn(a) \o l.text, ThinkingIn(a) \o l.thinking, Announced(a) \o CallIn(l))
  BY <1>5, SayConcat
<1> HIDE DEF kl, out, w
<1>8. TextIn(w) = TextIn(a) \o l.text /\ ThinkingIn(w) = ThinkingIn(a) \o l.thinking /\ Say(w, TextIn(w), ThinkingIn(w), Announced(w))
  BY <1>7 DEF Say
<1>9. Heard(g, TextIn(w), ThinkingIn(w), k \o kl, b \o out)
  BY <1>3, <1>4, <1>8, HeardConcat
<1>10. WordsHeard(f, g, w, b \o out)
  BY <1>6, <1>8, <1>9 DEF WordsHeard
<1> QED BY <1>10 DEF w, out

\* Before the first line.
LEMMA WordsNone ==
  ASSUME NEW f \in Wires, NEW g \in Clients
  PROVE  WordsHeard(f, g, <<>>, <<>>)
<1>1. Say(<<>>, <<>>, <<>>, <<>>)
  BY SayNothing
<1>2. TextIn(<<>>) = <<>> /\ ThinkingIn(<<>>) = <<>> /\ Announced(<<>>) = <<>>
  BY <1>1 DEF Say
<1>3. Listed(f, <<>>, <<>>)
  <2>1. ToSet(<<>>) = {} /\ CallsIn("gemini", <<>>) = {}
    BY NoneIs DEF ToSet, CallsIn
  <2> QED BY <1>2, <2>1, NoneIs DEF Listed, CallsIn
<1>4. Heard(g, <<>>, <<>>, <<>>, <<>>)
  BY <1>1 DEF Heard
<1> QED BY <1>1, <1>2, <1>3, <1>4 DEF WordsHeard

\* What it means for the client that its words are heard.
LEMMA WordsAre ==
  ASSUME NEW f \in Wires, NEW g \in Clients, NEW a, NEW b, WordsHeard(f, g, a, b)
  PROVE  /\ TextIn(b) = TextIn(a)
         /\ g # "gemini" => ThinkingIn(b) = ThinkingIn(a) /\ CallsIn(g, b) = CallsIn(f, a)
         /\ g # "gemini" /\ f # "gemini" => Announced(b) = Announced(a)
<1>1. PICK k : Listed(f, a, k) /\ Heard(g, TextIn(a), ThinkingIn(a), k, b)
  BY DEF WordsHeard
<1>2. g # "gemini" => Say(b, TextIn(a), ThinkingIn(a), k)
  BY <1>1 DEF Heard
<1>3. TextIn(b) = TextIn(a)
  BY <1>1 DEF Heard, Say
<1> QED BY <1>1, <1>2, <1>3 DEF Say, Listed, CallsIn

-----------------------------------------------------------------------------
(* The end is told.                                                        *)

\* A line of the end of a reply, and one that is about the arguments of a call.
Closings == {"message_delta", "message_stop", "completed", "failed", "error", "[DONE]"}

\* The line is of the end of a reply.
Closing(l) == l.type \in Closings \/ l.finish # Blank \/ l.usage

\* The line is about the arguments of a call.
ForArgs(l) == l.call # 0 \/ l.args # <<>> \/ l.kind \in {"tool_use", "server_tool_use"}

\* A line comes after another.
Follows(f, k, l) ==
  /\ Closing(k) => Closing(l) /\ l.finish = Blank
  /\ Closing(l) => Bare(l)
  /\ f = "claude" /\ l.type = "block_delta" =>
       k.type \in {"block_start", "block_delta"} /\ k.index = l.index /\ (ForArgs(k) <=> ForArgs(l))
  /\ f = "openai" /\ l.args # <<>> => ForArgs(k) /\ k.index = l.index

\* The last line read, the empty one at first.
Before(lines) == IF lines = <<>> THEN Line ELSE lines[Len(lines)]

\* The fields of a stream's state.
IsState(s) == DOMAIN s = DOMAIN NewStreamState

\* The end is told when it is known.
EndsTold(f, a, b, u) ==
  /\ IsSeq(a) /\ IsSeq(b)
  /\ ~Closing(Before(a)) => ~Finished(a) /\ ~Finished(b)
  /\ f # "claude" => (CutShort(b) <=> CutShort(a))
  /\ f = "claude" =>
       /\ IsState(u) /\ u.finish \in {Blank, "stop", "length", "tool_calls"}
       /\ u.finish = "length" <=> CutShort(a)
       /\ CutShort(b) => CutShort(a)
       /\ Finished(b) /\ CutShort(a) => CutShort(b)

\* The fields of a stream's state.
LEMMA NewStateIs ==
  DOMAIN NewStreamState = {"active", "finish", "usage", "announced", "index", "thinking", "calls", "call"}
BY DEF NewStreamState

\* The line read last.
LEMMA BeforeIs ==
  ASSUME NEW a, IsSeq(a), NEW l
  PROVE  Before(a \o <<l>>) = l
<1> DEFINE w == a \o <<l>>
<1>1. w[Len(a) + 1] = l /\ Len(w) = Len(a) + 1 /\ Len(a) \in Nat /\ IsSeq(w)
  BY OneMore
<1> HIDE DEF w
<1>2. w # <<>>
  BY <1>1, NoneIs
<1> QED BY <1>1, <1>2 DEF Before, w

\* What Claude's line makes of the state.
LEMMA ClaudeStateAfter ==
  ASSUME NEW l, ClaudeShape(l), NEW u, IsState(u)
  PROVE  /\ IsState(ClaudeAfter(l, u))
         /\ l.type = "message_delta" =>
              /\ ClaudeAfter(l, u).finish \in {"stop", "length", "tool_calls"}
              /\ ClaudeAfter(l, u).finish = "length" <=> l.finish = "max_tokens"
         /\ l.type # "message_delta" => ClaudeAfter(l, u).finish = u.finish
         /\ l.type = "block_start" =>
              ClaudeAfter(l, u).active = IF l.kind = "server_tool_use" THEN "server_tool" ELSE l.kind
         /\ l.type = "block_delta" => ClaudeAfter(l, u) = u
<1>1. l.type \in {"message_start", "block_start", "block_delta", "block_stop", "message_delta", "message_stop", "error"}
  BY DEF ClaudeShape
<1>2. "active" \in DOMAIN u /\ "finish" \in DOMAIN u /\ "usage" \in DOMAIN u
  BY NewStateIs DEF IsState
<1>3. CASE l.type = "message_start"
  <2>1. ClaudeAfter(l, u) = [u EXCEPT !.usage = @ \/ l.usage]
    BY <1>3 DEF ClaudeAfter
  <2> QED BY <1>2, <1>3, <2>1 DEF IsState
<1>4. CASE l.type = "block_start"
  <2>1. ClaudeAfter(l, u) = [u EXCEPT !.active = IF l.kind = "server_tool_use" THEN "server_tool" ELSE l.kind]
    BY <1>4 DEF ClaudeAfter
  <2> QED BY <1>2, <1>4, <2>1 DEF IsState
<1>5. CASE l.type = "block_stop"
  <2>1. ClaudeAfter(l, u) = [u EXCEPT !.active = Blank]
    BY <1>5 DEF ClaudeAfter
  <2> QED BY <1>2, <1>5, <2>1 DEF IsState
<1>6. CASE l.type = "message_delta"
  <2> DEFINE x == Renamed(l.finish, FromStopReason, l.finish)
  <2>1. l.finish \in {"end_turn", "max_tokens", "tool_use"}
    BY <1>6 DEF ClaudeShape
  <2>2. l.finish # Blank
    BY <2>1, BlankIsNoWord DEF Limits
  <2>3. ClaudeAfter(l, u) = [u EXCEPT !.finish = IF l.finish = Blank THEN @ ELSE x, !.usage = @ \/ l.usage]
    BY <1>6 DEF ClaudeAfter
  <2>4. x = IF l.finish = "end_turn" THEN "stop" ELSE IF l.finish = "max_tokens" THEN "length" ELSE "tool_calls"
    BY <2>1 DEF Renamed, FromStopReason
  <2> HIDE DEF x
  <2>5. ClaudeAfter(l, u).finish = x /\ IsState(ClaudeAfter(l, u))
    BY <1>2, <2>2, <2>3 DEF IsState
  <2> QED BY <1>6, <2>1, <2>4, <2>5
<1>7. CASE l.type \in {"block_delta", "message_stop", "error"}
  <2>1. ClaudeAfter(l, u) = u
    BY <1>7 DEF ClaudeAfter
  <2> QED BY <1>7, <2>1
<1> QED BY <1>1, <1>3, <1>4, <1>5, <1>6, <1>7

\* A reply that was cut has ended.
LEMMA CutIsFinished ==
  ASSUME NEW a, CutShort(a)
  PROVE  Finished(a)
BY BlankIsNoWord DEF CutShort, Finished, Limits

\* What a line adds to the ends of both sides.
LEMMA EndsMore ==
  ASSUME NEW f \in Wires, NEW g \in Clients, NEW a, NEW b, IsSeq(a), IsSeq(b), NEW l, NEW u, NEW s,
         Shape(f, l), f = "claude" => u.finish \in Reasons,
         l.type = "block_delta" /\ Silent(f, u) => l.text = <<>> /\ l.thinking = <<>>
  PROVE  LET w == a \o <<l>>
             v == b \o WriteAll(g, StreamChunkToCanonical(f, l, u), s).lines
         IN /\ IsSeq(w) /\ IsSeq(v)
            /\ Finished(w) <=> Finished(a) \/ EndsHere(l)
            /\ CutShort(w) <=> CutShort(a) \/ CutHere(l)
            /\ Finished(v) <=> Finished(b) \/ FinishOf(f, l, u)
            /\ CutShort(v) <=> CutShort(b) \/ CutOf(f, l, u)
<1> DEFINE out == WriteAll(g, StreamChunkToCanonical(f, l, u), s).lines
           w == a \o <<l>>
           v == b \o out
<1>1. Bring(StreamChunkToCanonical(f, l, u), l.text, l.thinking, CallsOf(f, l), FinishOf(f, l, u), CutOf(f, l, u))
  BY LineBrings
<1>2. FinishOf(f, l, u) \in BOOLEAN /\ CutOf(f, l, u) \in BOOLEAN /\ EndsHere(l) \in BOOLEAN /\ CutHere(l) \in BOOLEAN
  BY OfIsTrueOrNot DEF EndsHere, CutHere
<1>3. EndsAs(out, FinishOf(f, l, u), CutOf(f, l, u))
  BY <1>1, <1>2, BroughtIsWritten
<1>4. EndsAs(<<l>>, EndsHere(l), CutHere(l))
  BY EndsOne DEF EndsHere, CutHere
<1>5. ASSUME NEW y, IsSeq(y) PROVE EndsAs(y, Finished(y), CutShort(y)) /\ Finished(y) \in BOOLEAN /\ CutShort(y) \in BOOLEAN
  BY <1>5 DEF EndsAs, Finished, CutShort
<1> HIDE DEF out
<1>6. EndsAs(w, Finished(a) \/ EndsHere(l), CutShort(a) \/ CutHere(l))
  BY <1>2, <1>4, <1>5, EndsConcat
<1>7. EndsAs(v, Finished(b) \/ FinishOf(f, l, u), CutShort(b) \/ CutOf(f, l, u))
  BY <1>2, <1>3, <1>5, EndsConcat
<1> QED BY <1>6, <1>7 DEF EndsAs, out

\* A line more leaves the end told as it should.
LEMMA EndsStep ==
  ASSUME NEW f \in Wires, NEW g \in Clients, NEW a, NEW b, NEW l, NEW u, NEW s,
         Shape(f, l), Follows(f, Before(a), l), EndsTold(f, a, b, u),
         l.type = "block_delta" /\ Silent(f, u) => l.text = <<>> /\ l.thinking = <<>>
  PROVE  EndsTold(f, a \o <<l>>, b \o WriteAll(g, StreamChunkToCanonical(f, l, u), s).lines, AfterLine(f, l, u))
<1> DEFINE w == a \o <<l>>
           v == b \o WriteAll(g, StreamChunkToCanonical(f, l, u), s).lines
           k == Before(a)
<1>1. IsSeq(a) /\ IsSeq(b) /\ Before(w) = l
  BY BeforeIs DEF EndsTold
<1>2. f = "claude" => u.finish \in Reasons
  BY DEF EndsTold, Reasons
<1>3. /\ IsSeq(w) /\ IsSeq(v)
      /\ Finished(w) <=> Finished(a) \/ EndsHere(l)
      /\ CutShort(w) <=> CutShort(a) \/ CutHere(l)
      /\ Finished(v) <=> Finished(b) \/ FinishOf(f, l, u)
      /\ CutShort(v) <=> CutShort(b) \/ CutOf(f, l, u)
  BY <1>1, <1>2, EndsMore
<1> HIDE DEF w, v
<1>4. /\ ~Closing(k) => ~Finished(a) /\ ~Finished(b)
      /\ f # "claude" => (CutShort(b) <=> CutShort(a))
      /\ f = "claude" =>
           /\ IsState(u) /\ u.finish \in {Blank, "stop", "length", "tool_calls"}
           /\ u.finish = "length" <=> CutShort(a)
           /\ CutShort(b) => CutShort(a)
           /\ Finished(b) /\ CutShort(a) => CutShort(b)
  BY DEF EndsTold
<1>5. /\ Closing(k) => Closing(l) /\ l.finish = Blank
      /\ EndsHere(l) => Closing(l)
      /\ l.type = "message_stop" => Closing(l)
  BY DEF Follows, EndsHere, Closing, Closings
<1>6. f # "claude" => FinishOf(f, l, u) = EndsHere(l) /\ CutOf(f, l, u) = CutHere(l)
  BY DEF FinishOf, CutOf
<1>7. f = "claude" => /\ FinishOf(f, l, u) <=> l.type = "message_stop" /\ u.finish # Blank
                      /\ CutOf(f, l, u) <=> l.type = "message_stop" /\ u.finish = "length"
  BY DEF FinishOf, CutOf
<1>8. ~Closing(l) => ~Finished(w) /\ ~Finished(v)
  BY <1>3, <1>4, <1>5, <1>6, <1>7
<1>9. CASE f # "claude"
  BY <1>1, <1>3, <1>4, <1>6, <1>8, <1>9 DEF EndsTold, w, v
<1>10. CASE f = "claude"
  <2> DEFINE x == AfterLine(f, l, u)
  <2>1. ClaudeShape(l) /\ x = ClaudeAfter(l, u)
    BY <1>10 DEF Shape, AfterLine
  <2>2. /\ IsState(x)
        /\ l.type = "message_delta" => x.finish \in {"stop", "length", "tool_calls"} /\ (x.finish = "length" <=> l.finish = "max_tokens")
        /\ l.type # "message_delta" => x.finish = u.finish
    BY <1>4, <1>10, <2>1, ClaudeStateAfter
  <2> HIDE DEF x
  <2>3. CASE l.type = "message_delta"
    <3>1. l.finish \in {"end_turn", "max_tokens", "tool_use"}
      BY <2>1, <2>3 DEF ClaudeShape
    <3>2. l.finish # Blank /\ (CutHere(l) <=> l.finish = "max_tokens")
      BY <3>1, BlankIsNoWord DEF CutHere, Limits
    <3>3. ~Closing(k)
      BY <1>5, <3>2
    <3>4. ~CutShort(a) /\ ~CutShort(b) /\ ~Finished(b)
      BY <1>4, <3>3, CutIsFinished
    <3>5. ~FinishOf(f, l, u) /\ ~CutOf(f, l, u)
      BY <1>7, <1>10, <2>3
    <3>6. ~CutShort(v) /\ ~Finished(v) /\ (CutShort(w) <=> CutHere(l))
      BY <1>3, <3>4, <3>5
    <3> QED BY <1>1, <1>3, <1>8, <1>10, <2>2, <2>3, <3>2, <3>6 DEF EndsTold, w, v, x
  <2>4. CASE l.type # "message_delta"
    <3>1. l.finish = Blank
      BY <2>1, <2>4 DEF ClaudeShape
    <3>2. ~CutHere(l)
      BY <3>1, BlankIsNoWord DEF CutHere
    <3>3. x.finish = u.finish /\ (CutShort(w) <=> CutShort(a))
      BY <1>3, <2>2, <2>4, <3>2
    <3>4. (CutShort(v) => CutShort(w)) /\ (Finished(v) /\ CutShort(w) => CutShort(v))
      BY <1>3, <1>4, <1>7, <1>10, <3>3
    <3> QED BY <1>1, <1>3, <1>4, <1>8, <1>10, <2>2, <3>3, <3>4 DEF EndsTold, w, v, x
  <2> QED BY <2>3, <2>4
<1> QED BY <1>9, <1>10

\* Once it is told the client knows whether the reply was cut.
LEMMA EndsTell ==
  ASSUME NEW f, NEW a, NEW b, NEW u, EndsTold(f, a, b, u), Finished(b)
  PROVE  CutShort(b) = CutShort(a)
<1>1. CutShort(b) <=> CutShort(a)
  BY DEF EndsTold
<1> QED BY <1>1 DEF CutShort

\* Before the first line.
LEMMA EndsNew ==
  ASSUME NEW f
  PROVE  EndsTold(f, <<>>, <<>>, NewStreamState)
<1>1. ~Finished(<<>>) /\ ~CutShort(<<>>) /\ IsSeq(<<>>)
  BY EndsNone DEF EndsAs
<1>2. IsState(NewStreamState) /\ NewStreamState.finish = Blank
  BY Zenon DEF IsState, NewStreamState
<1>3. Blank # "length"
  BY BlankIsNoWord DEF Limits
<1> QED BY <1>1, <1>2, <1>3 DEF EndsTold

-----------------------------------------------------------------------------
(* The calls that are open.                                                *)

\* The call that is open where the last line was.
OpenCall(f, a) == OpenAt(f, a, Before(a).index)

\* The calls that are open, and what the stream's state has of them.
Opened(f, a, u) ==
  /\ Argued(a) /\ 0 \notin CallsIn(f, a)
  /\ f = "claude" => IsState(u)
  /\ ForArgs(Before(a)) => (OpenCall(f, a) = 0 <=> Silent(f, u)) /\ OpenCall(f, a) \in CallsIn(f, a) \cup {0}
  /\ f = "claude" /\ Before(a).type \in {"block_start", "block_delta"} /\ ~ForArgs(Before(a)) => ~Silent(f, u)
  /\ \A x : x # 0 /\ x \notin CallsIn(f, a) => ArgumentsIn(f, a, x) = <<>>

\* A line with arguments goes on with a call, one with a call starts it.
LEMMA LineGoesOn ==
  ASSUME NEW f \in Wires \ {"gemini"}, NEW k, NEW l, Shape(f, l), Follows(f, k, l)
  PROVE  /\ l.args # <<>> => ForArgs(k) /\ k.index = l.index /\ l.call = 0 /\ ~Starts(f, l)
         /\ l.call # 0 => Starts(f, l) /\ l.args = <<>>
         /\ ForArgs(l) => l.args # <<>> \/ Starts(f, l)
<1>1. CASE f = "claude"
  <2>1. ClaudeShape(l)
    BY <1>1 DEF Shape
  <2>2. l.args # <<>> => l.type = "block_delta"
    BY <2>1 DEF ClaudeShape, Bare
  <2>3. l.type = "block_delta" => l.call = 0 /\ ~Starts(f, l)
    BY <1>1, <2>1 DEF ClaudeShape, Starts
  <2>4. l.call # 0 => l.type = "block_start"
    BY <2>1 DEF ClaudeShape
  <2>5. l.type = "block_start" => l.args = <<>> /\ Starts(f, l)
    BY <1>1, <2>1 DEF ClaudeShape, Starts
  <2>6. l.kind \in {"tool_use", "server_tool_use"} => l.type = "block_start"
    BY <2>1 DEF ClaudeShape, Blank
  <2>7. l.type = "block_delta" => k.index = l.index /\ (ForArgs(k) <=> ForArgs(l))
    BY <1>1 DEF Follows
  <2>8. l.args # <<>> => ForArgs(l)
    BY DEF ForArgs
  <2>9. ForArgs(l) => l.args # <<>> \/ l.type = "block_start"
    BY <2>4, <2>6 DEF ForArgs
  <2> QED BY <2>2, <2>3, <2>4, <2>5, <2>7, <2>8, <2>9
<1>2. CASE f = "openai"
  <2>1. OpenAIShape(l)
    BY <1>2 DEF Shape
  <2>2. l.kind = Blank /\ (l.call # 0 => l.args = <<>>)
    BY <2>1, OpenAILineIs
  <2>3. Blank \notin {"tool_use", "server_tool_use"}
    BY BlankIsNoWord
  <2> QED BY <1>2, <2>2, <2>3 DEF Follows, ForArgs, Starts
<1>3. CASE f = "responses"
  <2>1. ResponsesShape(l)
    BY <1>3 DEF Shape
  <2>2. l.kind = Blank /\ l.call = 0 /\ l.args = <<>>
    BY <2>1 DEF ResponsesShape, Bare
  <2>3. Blank \notin {"tool_use", "server_tool_use"}
    BY BlankIsNoWord
  <2> QED BY <2>2, <2>3 DEF ForArgs
<1> QED BY <1>1, <1>2, <1>3 DEF Wires, Clients

\* The calls of a reader are one more with a line that has one.
LEMMA CallsGrow ==
  ASSUME NEW f, f # "gemini", NEW a, NEW t, NEW h, NEW c, Say(a, t, h, c), NEW l, Spoken(l)
  PROVE  CallsIn(f, a \o <<l>>) = CallsIn(f, a) \cup (IF l.call = 0 THEN {} ELSE {l.call})
<1>1. Say(a \o <<l>>, t \o l.text, h \o l.thinking, c \o CallIn(l))
  BY SayOne, SayConcat
<1>2. IsSeq(c)
  BY SaidIsSeq
<1>3. CallsIn(f, a \o <<l>>) = ToSet(c \o CallIn(l)) /\ CallsIn(f, a) = ToSet(c)
  BY <1>1 DEF Say, CallsIn
<1>4. CASE l.call = 0
  BY <1>2, <1>3, <1>4, ConcatNone DEF CallIn
<1>5. CASE l.call # 0
  BY <1>2, <1>3, <1>5, ListMore DEF CallIn
<1> QED BY <1>4, <1>5

\* The call that is open after a line.
LEMMA OpenAfter ==
  ASSUME NEW f \in Wires \ {"gemini"}, NEW a, IsSeq(a), NEW l, Shape(f, l), Follows(f, Before(a), l)
  PROVE  /\ OpenCall(f, a \o <<l>>) = OpenAt(f, a \o <<l>>, l.index)
         /\ Starts(f, l) => OpenCall(f, a \o <<l>>) = l.call
         /\ l.args # <<>> => OpenCall(f, a \o <<l>>) = OpenCall(f, a) /\ ForArgs(Before(a))
<1>1. Before(a \o <<l>>) = l
  BY BeforeIs
<1>2. OpenAt(f, a \o <<l>>, l.index) = IF Starts(f, l) THEN l.call ELSE OpenAt(f, a, l.index)
  BY OpensOne
<1>3. l.args # <<>> => ForArgs(Before(a)) /\ Before(a).index = l.index /\ ~Starts(f, l)
  BY LineGoesOn
<1> QED BY <1>1, <1>2, <1>3 DEF OpenCall

\* Arguments, and those of a line.
With(args, l) == args \o l.args

\* What a line adds to the arguments of the calls.
LEMMA ArgumentsAfter ==
  ASSUME NEW f \in Wires \ {"gemini"}, NEW a, Argued(a), NEW l, Shape(f, l), Follows(f, Before(a), l), NEW x
  PROVE  /\ Argued(a \o <<l>>)
         /\ l.args = <<>> => ArgumentsIn(f, a \o <<l>>, x) = ArgumentsIn(f, a, x)
         /\ OpenCall(f, a) # x => ArgumentsIn(f, a \o <<l>>, x) = ArgumentsIn(f, a, x)
         /\ l.args # <<>> /\ OpenCall(f, a) = x => ArgumentsIn(f, a \o <<l>>, x) = With(ArgumentsIn(f, a, x), l)
<1>1. IsSeq(l.args) /\ IsSeq(a)
  BY DEF Shape, Argued
<1>2. Argued(a \o <<l>>)
  BY <1>1, ArguesOne
<1>3. ArgumentsIn(f, a \o <<l>>, x) = ArgumentsIn(f, a, x) \o Adds(f, a, l, x)
  BY <1>1, ArguesOne
<1>4. CASE l.args = <<>>
  <2>1. ArgumentsIn(f, a \o <<l>>, x) = ArgumentsIn(f, a, x)
    BY <1>4, ArguesNothing
  <2> QED BY <1>2, <1>4, <2>1
<1>5. CASE l.args # <<>>
  <2>1. OpenAt(f, a \o <<l>>, l.index) = OpenCall(f, a)
    BY <1>1, <1>5, OpenAfter
  <2>2. Adds(f, a, l, x) = IF OpenCall(f, a) = x THEN l.args ELSE <<>>
    BY <2>1 DEF Adds
  <2>3. ArgumentsIn(f, a, x) \o <<>> = ArgumentsIn(f, a, x)
    BY ArgumentsAreSeq, ConcatNone
  <2>4. CASE OpenCall(f, a) = x
    BY <1>2, <1>3, <1>5, <2>2, <2>4 DEF With
  <2>5. CASE OpenCall(f, a) # x
    BY <1>2, <1>3, <1>5, <2>2, <2>3, <2>5
  <2> QED BY <2>4, <2>5
<1> QED BY <1>4, <1>5

\* A line more leaves the calls open as the state has them.
LEMMA OpenedStep ==
  ASSUME NEW f \in Wires \ {"gemini"}, NEW a, NEW t, NEW h, NEW c, Say(a, t, h, c), NEW l, NEW u,
         Shape(f, l), Follows(f, Before(a), l), Opened(f, a, u)
  PROVE  Opened(f, a \o <<l>>, AfterLine(f, l, u))
<1> DEFINE w == a \o <<l>>
           k == Before(a)
           z == AfterLine(f, l, u)
<1>1. IsSeq(a) /\ Argued(a) /\ Before(w) = l
  BY BeforeIs DEF Opened, Argued
<1>2. /\ Starts(f, l) => OpenCall(f, w) = l.call
      /\ l.args # <<>> => OpenCall(f, w) = OpenCall(f, a) /\ ForArgs(k)
  BY <1>1, OpenAfter
<1>3. CallsIn(f, w) = CallsIn(f, a) \cup (IF l.call = 0 THEN {} ELSE {l.call})
  BY CallsGrow DEF Shape
<1>4. /\ l.args # <<>> => ForArgs(k) /\ k.index = l.index /\ l.call = 0 /\ ~Starts(f, l)
      /\ l.call # 0 => Starts(f, l) /\ l.args = <<>>
      /\ ForArgs(l) => l.args # <<>> \/ Starts(f, l)
  BY LineGoesOn
<1>5. Argued(w)
  BY <1>1, ArgumentsAfter
<1>6. f = "claude" => ClaudeShape(l) /\ z = ClaudeAfter(l, u) /\ IsState(u)
  BY DEF Shape, AfterLine, Opened
<1>7. f = "claude" =>
        /\ IsState(z)
        /\ l.type = "block_start" => z.active = IF l.kind = "server_tool_use" THEN "server_tool" ELSE l.kind
        /\ l.type = "block_delta" => z = u
  BY <1>6, ClaudeStateAfter
<1>8. f # "claude" => ~Silent(f, z) /\ ~Silent(f, u)
  BY DEF Silent
<1> HIDE DEF z, w
<1>9. ASSUME ForArgs(l) PROVE (OpenCall(f, w) = 0 <=> Silent(f, z)) /\ OpenCall(f, w) \in CallsIn(f, w) \cup {0}
  <2>1. CASE l.args # <<>>
    <3>1. OpenCall(f, w) = OpenCall(f, a) /\ ForArgs(k)
      BY <1>2, <2>1
    <3>2. Silent(f, z) <=> Silent(f, u)
      <4>1. CASE f = "claude"
        <5>1. l.type = "block_delta"
          BY <1>6, <2>1, <4>1 DEF ClaudeShape, Bare
        <5> QED BY <1>7, <4>1, <5>1
      <4>2. CASE f # "claude"
        BY <1>8, <4>2
      <4> QED BY <4>1, <4>2
    <3>3. (OpenCall(f, a) = 0 <=> Silent(f, u)) /\ OpenCall(f, a) \in CallsIn(f, a) \cup {0}
      BY <3>1 DEF Opened
    <3> QED BY <1>3, <3>1, <3>2, <3>3
  <2>2. CASE l.args = <<>>
    <3>1. Starts(f, l) /\ OpenCall(f, w) = l.call
      BY <1>2, <1>4, <1>9, <2>2
    <3>2. l.call = 0 <=> Silent(f, z)
      <4>1. CASE f = "claude"
        <5>1. l.type = "block_start"
          BY <3>1, <4>1 DEF Starts
        <5>2. l.kind # "server_tool" /\ (l.call # 0 <=> l.kind = "tool_use")
          BY <1>6, <4>1, <5>1 DEF ClaudeShape
        <5>3. l.kind \in {"tool_use", "server_tool_use"}
          BY <1>9, <2>2, <5>2 DEF ForArgs
        <5>4. z.active = IF l.kind = "server_tool_use" THEN "server_tool" ELSE l.kind
          BY <1>7, <4>1, <5>1
        <5> QED BY <4>1, <5>2, <5>3, <5>4 DEF Silent
      <4>2. CASE f # "claude"
        BY <1>8, <3>1, <4>2 DEF Starts
      <4> QED BY <4>1, <4>2
    <3> QED BY <1>3, <3>1, <3>2
  <2> QED BY <2>1, <2>2
<1>10. ASSUME f = "claude", l.type \in {"block_start", "block_delta"}, ~ForArgs(l) PROVE ~Silent(f, z)
  <2>1. CASE l.type = "block_start"
    <3>1. l.kind # "server_tool" /\ l.kind # "server_tool_use"
      BY <1>6, <1>10, <2>1 DEF ClaudeShape, ForArgs
    <3>2. z.active = l.kind
      BY <1>7, <1>10, <2>1, <3>1
    <3> QED BY <3>1, <3>2 DEF Silent
  <2>2. CASE l.type = "block_delta"
    <3>1. k.type \in {"block_start", "block_delta"} /\ ~ForArgs(k)
      BY <1>10, <2>2 DEF Follows
    <3>2. ~Silent(f, u) /\ z = u
      BY <1>7, <1>10, <2>2, <3>1 DEF Opened
    <3> QED BY <3>2
  <2> QED BY <1>10, <2>1, <2>2
<1>11. ASSUME NEW x, x # 0, x \notin CallsIn(f, w) PROVE ArgumentsIn(f, w, x) = <<>>
  <2>1. x \notin CallsIn(f, a) /\ ArgumentsIn(f, a, x) = <<>>
    BY <1>3, <1>11 DEF Opened
  <2>2. CASE l.args = <<>>
    BY <1>1, <2>1, <2>2, ArgumentsAfter DEF w
  <2>3. CASE l.args # <<>>
    <3>1. OpenCall(f, a) \in CallsIn(f, a) \cup {0}
      BY <1>4, <2>3 DEF Opened
    <3>2. OpenCall(f, a) # x
      BY <1>11, <2>1, <3>1
    <3> QED BY <1>1, <2>1, <3>2, ArgumentsAfter DEF w
  <2> QED BY <2>2, <2>3
<1>12. 0 \notin CallsIn(f, w)
  BY <1>3 DEF Opened
<1>13. Opened(f, w, z)
  BY <1>1, <1>5, <1>7, <1>9, <1>10, <1>11, <1>12 DEF Opened
<1> QED BY <1>13 DEF w, z

\* Nothing is written for the words of a tool of the provider's own.
LEMMA OpenedSpeaks ==
  ASSUME NEW f \in Wires \ {"gemini"}, NEW a, NEW l, NEW u, Shape(f, l), Follows(f, Before(a), l), Opened(f, a, u),
         l.type = "block_delta", Silent(f, u)
  PROVE  l.text = <<>> /\ l.thinking = <<>>
<1>1. f = "claude"
  BY DEF Silent
<1>2. ClaudeShape(l)
  BY <1>1 DEF Shape
<1>3. Before(a).type \in {"block_start", "block_delta"} /\ (ForArgs(Before(a)) <=> ForArgs(l))
  BY <1>1 DEF Follows
<1>4. ForArgs(l)
  BY <1>1, <1>3 DEF Opened
<1>5. l.call = 0 /\ l.kind = Blank
  BY <1>2 DEF ClaudeShape
<1>6. l.args # <<>>
  <2>1. Blank \notin {"tool_use", "server_tool_use"}
    BY BlankIsNoWord
  <2> QED BY <1>4, <1>5, <2>1 DEF ForArgs
<1> QED BY <1>2, <1>6 DEF ClaudeShape

\* Before the first line.
LEMMA OpenedNew ==
  ASSUME NEW f \in Wires \ {"gemini"}
  PROVE  Opened(f, <<>>, NewStreamState)
<1>1. Before(<<>>) = Line
  BY DEF Before
<1>2. ~ForArgs(Line)
  BY LineFields, BlankIsNoWord DEF ForArgs
<1>3. Line.type \notin {"block_start", "block_delta"}
  BY LineFields, BlankIsNoWord
<1>4. \A x : ArgumentsIn(f, <<>>, x) = <<>>
  BY ArguesNone
<1>5. Argued(<<>>)
  BY NoneIs DEF Argued
<1>6. CallsIn(f, <<>>) = {}
  <2>1. Announced(<<>>) = <<>>
    BY SayNothing DEF Say
  <2>2. ToSet(<<>>) = {}
    BY NoneIs DEF ToSet
  <2> QED BY <2>1, <2>2 DEF CallsIn
<1> QED BY <1>1, <1>2, <1>3, <1>4, <1>5, <1>6 DEF Opened, IsState

-----------------------------------------------------------------------------
(* The calls Gemini's translator gathers until the reply is finished.      *)

\* The calls that were said, each with its arguments so far, and those that
\* Gemini's lines have.
Gathered(f, a) == {[call |-> x, args |-> ArgumentsIn(f, a, x)] : x \in CallsIn(f, a)}

\* The calls in Gemini's lines.
CallsSent(b) == UNION {b[i].calls : i \in DOMAIN b}

\* The calls are gathered until the reply is finished, and sent with its end.
Gathers(f, a, b, s) ==
  /\ IsSeq(b) /\ IsState(s)
  /\ IF Finished(b) THEN CallsSent(b) = Gathered(f, a) /\ s.calls = {}
                    ELSE CallsSent(b) = {} /\ s.calls = Gathered(f, a)
  /\ ForArgs(Before(a)) /\ OpenCall(f, a) # 0 => s.call = OpenCall(f, a)

\* A line more.
LEMMA SentMore ==
  ASSUME NEW b, IsSeq(b), NEW l
  PROVE  CallsSent(b \o <<l>>) = CallsSent(b) \cup l.calls
<1> DEFINE w == b \o <<l>>
           n == Len(b)
<1>1. /\ n \in Nat /\ DOMAIN b = 1 .. n /\ DOMAIN w = 1 .. n + 1
      /\ \A i \in 1 .. n : w[i] = b[i]
      /\ w[n + 1] = l
  BY OneMore
<1> HIDE DEF w, n
<1>2. \A i \in 1 .. n + 1 : i \in 1 .. n \/ i = n + 1
  BY <1>1
<1>3. n + 1 \in 1 .. n + 1 /\ \A i \in 1 .. n : i \in 1 .. n + 1
  BY <1>1
<1>5. \A y : y \in CallsSent(w) <=> \E i \in 1 .. n + 1 : y \in w[i].calls
  BY <1>1 DEF CallsSent
<1>6. \A y : y \in CallsSent(b) <=> \E i \in 1 .. n : y \in b[i].calls
  BY <1>1 DEF CallsSent
<1>7. ASSUME NEW y \in CallsSent(w) PROVE y \in CallsSent(b) \cup l.calls
  BY <1>1, <1>2, <1>5, <1>6
<1>8. ASSUME NEW y \in CallsSent(b) \cup l.calls PROVE y \in CallsSent(w)
  BY <1>1, <1>3, <1>5, <1>6
<1> QED BY <1>7, <1>8 DEF w

\* The calls are in the line of the finish.
LEMMA GeminiSends ==
  ASSUME NEW b, IsSeq(b), NEW c, NEW s, c.finish \in Reasons
  PROVE  CallsSent(b \o GeminiLines(c, s)) = CallsSent(b) \cup (IF c.finish = Blank THEN {} ELSE s.calls)
<1> DEFINE silent == c.thinking # <<>> \/ c.call # 0 \/ c.args # <<>>
           l == [Line EXCEPT !.role = c.role, !.text = IF silent THEN <<>> ELSE c.text,
                        !.calls = IF c.finish = Blank THEN {} ELSE s.calls,
                        !.finish = ToGeminiReason(c.finish), !.usage = c.usage]
<1>1. GeminiLines(c, s) = IF l = Line THEN <<>> ELSE <<l>>
  BY DEF GeminiLines
<1>2. l.calls = (IF c.finish = Blank THEN {} ELSE s.calls) /\ l.finish = ToGeminiReason(c.finish)
  BY LineIs
<1>3. Line.calls = {}
  BY LineFields
<1> HIDE DEF l
<1>4. CASE l = Line
  <2>1. b \o GeminiLines(c, s) = b
    BY <1>1, <1>4, ConcatNone
  <2>2. l.calls = {}
    BY <1>3, <1>4
  <2> QED BY <1>2, <2>1, <2>2
<1>5. CASE l # Line
  <2>1. CallsSent(b \o <<l>>) = CallsSent(b) \cup l.calls
    BY SentMore
  <2> QED BY <1>1, <1>2, <1>5, <2>1
<1> QED BY <1>4, <1>5

\* The same calls with the same arguments.
LEMMA SameGathered ==
  ASSUME NEW f, NEW a, NEW w, CallsIn(f, w) = CallsIn(f, a), \A x \in CallsIn(f, a) : ArgumentsIn(f, w, x) = ArgumentsIn(f, a, x)
  PROVE  Gathered(f, w) = Gathered(f, a)
BY DEF Gathered

\* A call more.
LEMMA GatheredCall ==
  ASSUME NEW f, NEW a, NEW w, NEW y, y \notin CallsIn(f, a), CallsIn(f, w) = CallsIn(f, a) \cup {y},
         \A x : ArgumentsIn(f, w, x) = ArgumentsIn(f, a, x), ArgumentsIn(f, a, y) = <<>>
  PROVE  Gathered(f, w) = {t \in Gathered(f, a) : t.call # y} \cup {[call |-> y, args |-> <<>>]}
<1>1. {t \in Gathered(f, a) : t.call # y} = Gathered(f, a)
  BY DEF Gathered
<1>2. Gathered(f, w) = Gathered(f, a) \cup {[call |-> y, args |-> ArgumentsIn(f, w, y)]}
  BY DEF Gathered
<1> QED BY <1>1, <1>2

\* Arguments more of the call y.
Longer(calls, y, more) == {IF t.call = y THEN [t EXCEPT !.args = @ \o more] ELSE t : t \in calls}

\* The lines w say the same arguments as a but for those of y.
Argues(f, a, w, y, more) ==
  \A x : ArgumentsIn(f, w, x) = IF x = y THEN ArgumentsIn(f, a, x) \o more ELSE ArgumentsIn(f, a, x)

\* Then the calls gathered are the same but for y.
LEMMA GatheredArgs ==
  ASSUME NEW f, NEW a, NEW w, NEW y, NEW more, CallsIn(f, w) = CallsIn(f, a),
         Argues(f, a, w, y, more)
  PROVE  Gathered(f, w) = Longer(Gathered(f, a), y, more)
<1> DEFINE r(x) == [call |-> x, args |-> ArgumentsIn(f, a, x)]
           q(x) == [call |-> x, args |-> ArgumentsIn(f, w, x)]
           o(t) == IF t.call = y THEN [t EXCEPT !.args = @ \o more] ELSE t
<1>1. ASSUME NEW x PROVE o(r(x)) = q(x)
  <2>1. r(x).call = x /\ r(x).args = ArgumentsIn(f, a, x)
    OBVIOUS
  <2>2. CASE x = y
    <3>1. ArgumentsIn(f, w, x) = ArgumentsIn(f, a, x) \o more
      BY <2>2 DEF Argues
    <3>2. \A y1, z : [[call |-> x, args |-> y1] EXCEPT !.args = z] = [call |-> x, args |-> z]
      OBVIOUS
    <3>3. [r(x) EXCEPT !.args = @ \o more] = [r(x) EXCEPT !.args = r(x).args \o more]
      OBVIOUS
    <3>4. [r(x) EXCEPT !.args = @ \o more] = [call |-> x, args |-> ArgumentsIn(f, a, x) \o more]
      BY <2>1, <3>2, <3>3
    <3> HIDE DEF r
    <3> QED BY <2>1, <2>2, <3>1, <3>4
  <2>3. CASE x # y
    <3>1. ArgumentsIn(f, w, x) = ArgumentsIn(f, a, x)
      BY <2>3 DEF Argues
    <3> QED BY <2>1, <2>3, <3>1
  <2> QED BY <2>2, <2>3
<1>2. Gathered(f, w) = {q(x) : x \in CallsIn(f, a)} /\ Gathered(f, a) = {r(x) : x \in CallsIn(f, a)}
  BY DEF Gathered
<1> HIDE DEF r, q, o
<1>3. {q(x) : x \in CallsIn(f, a)} = {o(t) : t \in {r(x) : x \in CallsIn(f, a)}}
  BY <1>1
<1>4. Gathered(f, w) = {o(t) : t \in Gathered(f, a)}
  BY <1>2, <1>3
<1> QED BY <1>4 DEF o, Longer

\* What Gemini's translator makes of a chunk.
LEMMA GeminiWroteIs ==
  ASSUME NEW c, NEW s, IsState(s)
  PROVE  /\ IsState(GeminiWrote(c, s))
         /\ c.finish # Blank => GeminiWrote(c, s).calls = {} /\ GeminiWrote(c, s).call = s.call
         /\ c.finish = Blank /\ c.call # 0 =>
              /\ GeminiWrote(c, s).calls = {t \in s.calls : t.call # c.call} \cup {[call |-> c.call, args |-> c.args]}
              /\ GeminiWrote(c, s).call = c.call
         /\ c.finish = Blank /\ c.call = 0 =>
              /\ GeminiWrote(c, s).calls = Longer(s.calls, s.call, c.args)
              /\ GeminiWrote(c, s).call = s.call
<1>1. "call" \in DOMAIN s /\ "calls" \in DOMAIN s
  BY NewStateIs DEF IsState
<1>2. CASE c.finish # Blank
  <2>1. GeminiWrote(c, s) = [s EXCEPT !.calls = {}]
    BY <1>2 DEF GeminiWrote
  <2> QED BY <1>1, <1>2, <2>1 DEF IsState
<1>3. CASE c.finish = Blank /\ c.call # 0
  <2> DEFINE x == {t \in s.calls : t.call # c.call} \cup {[call |-> c.call, args |-> c.args]}
  <2>1. GeminiWrote(c, s) = [s EXCEPT !.calls = x, !.call = c.call]
    BY <1>3 DEF GeminiWrote
  <2> HIDE DEF x
  <2>2. GeminiWrote(c, s).calls = x /\ GeminiWrote(c, s).call = c.call /\ IsState(GeminiWrote(c, s))
    BY <1>1, <2>1 DEF IsState
  <2> QED BY <1>3, <2>2 DEF x
<1>4. CASE c.finish = Blank /\ c.call = 0
  <2> DEFINE x == Longer(s.calls, s.call, c.args)
  <2>1. GeminiWrote(c, s) = [s EXCEPT !.calls = x]
    BY <1>4 DEF GeminiWrote, Longer
  <2> HIDE DEF x
  <2>2. GeminiWrote(c, s).calls = x /\ GeminiWrote(c, s).call = s.call /\ IsState(GeminiWrote(c, s))
    BY <1>1, <2>1 DEF IsState
  <2> QED BY <1>4, <2>2 DEF x
<1> QED BY <1>2, <1>3, <1>4

\* Arguments of nothing change nothing.
LEMMA SameCalls ==
  ASSUME NEW f, f # "gemini", NEW a, Argued(a), NEW y
  PROVE  Longer(Gathered(f, a), y, <<>>) = Gathered(f, a)
<1>1. Argues(f, a, a, y, <<>>)
  BY ArgumentsAreSeq, ConcatNone DEF Argues
<1>2. ASSUME NEW w, NEW more, CallsIn(f, w) = CallsIn(f, a), Argues(f, a, w, y, more) PROVE Gathered(f, w) = Longer(Gathered(f, a), y, more)
  BY <1>2, GatheredArgs
<1> QED BY <1>1, <1>2

\* What is known of a line that is read.
Reads(f, a, u, l) ==
  /\ Shape(f, l) /\ Follows(f, Before(a), l) /\ Opened(f, a, u)
  /\ l.call # 0 => l.call \notin CallsIn(f, a)

\* And what it makes of the calls.
ReadAs(f, a, w, u, l) ==
  /\ IsSeq(a) /\ Argued(a) /\ Before(w) = l
  /\ CallsIn(f, w) = CallsIn(f, a) \cup (IF l.call = 0 THEN {} ELSE {l.call})
  /\ l.args = <<>> => \A x : ArgumentsIn(f, w, x) = ArgumentsIn(f, a, x)
  /\ \A x : OpenCall(f, a) # x => ArgumentsIn(f, w, x) = ArgumentsIn(f, a, x)
  /\ l.args # <<>> =>
       /\ \A x : OpenCall(f, a) = x => ArgumentsIn(f, w, x) = With(ArgumentsIn(f, a, x), l)
       /\ ForArgs(Before(a)) /\ OpenCall(f, w) = OpenCall(f, a) /\ l.call = 0
       /\ OpenCall(f, a) = 0 <=> Silent(f, u)
  /\ l.call # 0 => /\ l.args = <<>> /\ OpenCall(f, w) = l.call
                   /\ l.call \notin CallsIn(f, a) /\ ArgumentsIn(f, a, l.call) = <<>>
  /\ ForArgs(l) /\ l.args = <<>> => OpenCall(f, w) = l.call

\* What reading a line makes of the calls.
LEMMA ReadsAre ==
  ASSUME NEW f \in Wires \ {"gemini"}, NEW a, NEW t, NEW h, NEW c, Say(a, t, h, c), NEW l, NEW u, Reads(f, a, u, l)
  PROVE  ReadAs(f, a, a \o <<l>>, u, l)
<1>1. IsSeq(a) /\ Argued(a) /\ Before(a \o <<l>>) = l
  BY BeforeIs DEF Reads, Opened, Argued
<1>2. CallsIn(f, a \o <<l>>) = CallsIn(f, a) \cup (IF l.call = 0 THEN {} ELSE {l.call})
  BY CallsGrow DEF Reads, Shape
<1>3. /\ l.args # <<>> => ForArgs(Before(a)) /\ l.call = 0
      /\ l.call # 0 => Starts(f, l) /\ l.args = <<>>
      /\ ForArgs(l) => l.args # <<>> \/ Starts(f, l)
  BY LineGoesOn DEF Reads
<1>4. /\ Starts(f, l) => OpenCall(f, a \o <<l>>) = l.call
      /\ l.args # <<>> => OpenCall(f, a \o <<l>>) = OpenCall(f, a)
  BY <1>1, OpenAfter DEF Reads
<1>5. ASSUME NEW x
      PROVE  /\ l.args = <<>> => ArgumentsIn(f, a \o <<l>>, x) = ArgumentsIn(f, a, x)
             /\ OpenCall(f, a) # x => ArgumentsIn(f, a \o <<l>>, x) = ArgumentsIn(f, a, x)
             /\ l.args # <<>> /\ OpenCall(f, a) = x => ArgumentsIn(f, a \o <<l>>, x) = With(ArgumentsIn(f, a, x), l)
  <2>1. Shape(f, l) /\ Follows(f, Before(a), l) /\ Argued(a)
    BY <1>1 DEF Reads
  <2>2. l.args = <<>> => ArgumentsIn(f, a \o <<l>>, x) = ArgumentsIn(f, a, x)
    BY <2>1, ArgumentsAfter
  <2>3. OpenCall(f, a) # x => ArgumentsIn(f, a \o <<l>>, x) = ArgumentsIn(f, a, x)
    BY <2>1, ArgumentsAfter
  <2>4. l.args # <<>> /\ OpenCall(f, a) = x => ArgumentsIn(f, a \o <<l>>, x) = With(ArgumentsIn(f, a, x), l)
    BY <2>1, ArgumentsAfter
  <2> QED BY <2>2, <2>3, <2>4
<1>6. l.args # <<>> => (OpenCall(f, a) = 0 <=> Silent(f, u))
  BY <1>3 DEF Reads, Opened
<1>7. l.call # 0 => l.call \notin CallsIn(f, a) /\ ArgumentsIn(f, a, l.call) = <<>>
  BY DEF Reads, Opened
<1> QED BY <1>1, <1>2, <1>3, <1>4, <1>5, <1>6, <1>7 DEF ReadAs

\* Nothing is written, and nothing is to be gathered.
LEMMA GathersNothing ==
  ASSUME NEW f \in Wires \ {"gemini"}, NEW a, NEW b, NEW t, NEW h, NEW c, Say(a, t, h, c), NEW l, NEW u, NEW s,
         Reads(f, a, u, l), Gathers(f, a, b, s), l.call = 0, l.args = <<>> \/ Silent(f, u)
  PROVE  Gathers(f, a \o <<l>>, b, s)
<1> DEFINE w == a \o <<l>>
<1>1. /\ Before(w) = l
      /\ CallsIn(f, w) = CallsIn(f, a)
      /\ l.args = <<>> => \A x : ArgumentsIn(f, w, x) = ArgumentsIn(f, a, x)
      /\ \A x : OpenCall(f, a) # x => ArgumentsIn(f, w, x) = ArgumentsIn(f, a, x)
      /\ l.args # <<>> => OpenCall(f, w) = OpenCall(f, a) /\ (OpenCall(f, a) = 0 <=> Silent(f, u))
      /\ ForArgs(l) /\ l.args = <<>> => OpenCall(f, w) = l.call
  <2>1. ReadAs(f, a, a \o <<l>>, u, l)
    BY ReadsAre
  <2> HIDE DEF w
  <2> QED BY <2>1 DEF ReadAs, w
<1> HIDE DEF w
<1>2. 0 \notin CallsIn(f, a)
  BY DEF Reads, Opened
<1>3. \A x \in CallsIn(f, a) : ArgumentsIn(f, w, x) = ArgumentsIn(f, a, x)
  BY <1>1, <1>2
<1>4. Gathered(f, w) = Gathered(f, a)
  BY <1>1, <1>3, SameGathered
<1>5. ForArgs(l) => OpenCall(f, w) = 0
  BY <1>1
<1>6. Gathers(f, w, b, s)
  BY <1>1, <1>4, <1>5 DEF Gathers
<1> QED BY <1>6 DEF w

\* A chunk is written, and what it brings is gathered.
LEMMA GathersChunk ==
  ASSUME NEW f \in Wires \ {"gemini"}, NEW a, NEW b, NEW v, NEW t, NEW h, NEW k, Say(a, t, h, k), NEW l, NEW u, NEW s, NEW c,
         Reads(f, a, u, l), Gathers(f, a, b, s), Single(c), c.call = l.call, c.args = l.args, l.args # <<>> => ~Silent(f, u),
         Finished(b) => Bare(l), IsSeq(v), Finished(v) <=> Finished(b) \/ c.finish # Blank,
         CallsSent(v) = CallsSent(b) \cup (IF c.finish = Blank THEN {} ELSE s.calls)
  PROVE  Gathers(f, a \o <<l>>, v, GeminiWrote(c, s))
<1> DEFINE w == a \o <<l>>
           z == GeminiWrote(c, s)
<1>1. /\ Before(w) = l /\ Argued(a)
      /\ CallsIn(f, w) = CallsIn(f, a) \cup (IF l.call = 0 THEN {} ELSE {l.call})
      /\ l.args = <<>> => \A x : ArgumentsIn(f, w, x) = ArgumentsIn(f, a, x)
      /\ \A x : OpenCall(f, a) # x => ArgumentsIn(f, w, x) = ArgumentsIn(f, a, x)
      /\ l.args # <<>> =>
           /\ \A x : OpenCall(f, a) = x => ArgumentsIn(f, w, x) = With(ArgumentsIn(f, a, x), l)
           /\ ForArgs(Before(a)) /\ OpenCall(f, w) = OpenCall(f, a) /\ l.call = 0
           /\ OpenCall(f, a) = 0 <=> Silent(f, u)
      /\ l.call # 0 => /\ l.args = <<>> /\ OpenCall(f, w) = l.call
                       /\ l.call \notin CallsIn(f, a) /\ ArgumentsIn(f, a, l.call) = <<>>
      /\ ForArgs(l) /\ l.args = <<>> => OpenCall(f, w) = l.call
  <2>1. ReadAs(f, a, a \o <<l>>, u, l)
    BY ReadsAre
  <2> HIDE DEF w
  <2> QED BY <2>1 DEF ReadAs, w
<1>2. /\ IsState(z)
      /\ c.finish # Blank => z.calls = {} /\ z.call = s.call
      /\ c.finish = Blank /\ c.call # 0 =>
              /\ z.calls = {d \in s.calls : d.call # c.call} \cup {[call |-> c.call, args |-> c.args]}
              /\ z.call = c.call
      /\ c.finish = Blank /\ c.call = 0 =>
              /\ z.calls = Longer(s.calls, s.call, c.args)
              /\ z.call = s.call
  BY GeminiWroteIs DEF Gathers
<1> HIDE DEF w, z
<1>3. IF Finished(b) THEN CallsSent(b) = Gathered(f, a) /\ s.calls = {}
                    ELSE CallsSent(b) = {} /\ s.calls = Gathered(f, a)
  BY DEF Gathers
<1>4. l.call = 0 /\ l.args = <<>> => Gathered(f, w) = Gathered(f, a)
  BY <1>1, SameGathered
<1>5. CASE c.finish # Blank
  <2>1. l.call = 0 /\ l.args = <<>>
    BY <1>5 DEF Single
  <2>2. Finished(v) /\ CallsSent(v) = Gathered(f, a) /\ z.calls = {}
    BY <1>2, <1>3, <1>5
  <2>3. ForArgs(l) => OpenCall(f, w) = 0
    BY <1>1, <2>1
  <2>4. Gathers(f, w, v, z)
    BY <1>1, <1>2, <1>4, <2>1, <2>2, <2>3 DEF Gathers
  <2> QED BY <2>4 DEF w, z
<1>6. CASE c.finish = Blank /\ Finished(b)
  <2>1. l.call = 0 /\ l.args = <<>>
    BY <1>6 DEF Bare
  <2>2. Finished(v) /\ CallsSent(v) = Gathered(f, a) /\ s.calls = {}
    BY <1>3, <1>6
  <2>3. z.calls = {}
    BY <1>2, <1>6, <2>1, <2>2 DEF Longer
  <2>4. ForArgs(l) => OpenCall(f, w) = 0
    BY <1>1, <2>1
  <2>5. Gathers(f, w, v, z)
    BY <1>1, <1>2, <1>4, <2>1, <2>2, <2>3, <2>4 DEF Gathers
  <2> QED BY <2>5 DEF w, z
<1>7. CASE c.finish = Blank /\ ~Finished(b)
  <2>1. ~Finished(v) /\ CallsSent(v) = {} /\ s.calls = Gathered(f, a)
    BY <1>3, <1>7
  <2>2. CASE l.call # 0
    <3>1. z.calls = {d \in Gathered(f, a) : d.call # l.call} \cup {[call |-> l.call, args |-> <<>>]} /\ z.call = l.call
      BY <1>1, <1>2, <1>7, <2>1, <2>2
    <3>2. Gathered(f, w) = {d \in Gathered(f, a) : d.call # l.call} \cup {[call |-> l.call, args |-> <<>>]}
      BY <1>1, <2>2, GatheredCall
    <3>3. Gathers(f, w, v, z)
      BY <1>1, <1>2, <2>1, <2>2, <3>1, <3>2 DEF Gathers
    <3> QED BY <3>3 DEF w, z
  <2>3. CASE l.call = 0 /\ l.args = <<>>
    <3>1. z.calls = Longer(Gathered(f, a), s.call, <<>>)
      BY <1>2, <1>7, <2>1, <2>3
    <3>2. z.calls = Gathered(f, a)
      BY <1>1, <3>1, SameCalls
    <3>3. ForArgs(l) => OpenCall(f, w) = 0
      BY <1>1, <2>3
    <3>4. Gathers(f, w, v, z)
      BY <1>1, <1>2, <1>4, <2>1, <2>3, <3>2, <3>3 DEF Gathers
    <3> QED BY <3>4 DEF w, z
  <2>4. CASE l.call = 0 /\ l.args # <<>>
    <3>1. OpenCall(f, a) # 0 /\ ForArgs(Before(a)) /\ OpenCall(f, w) = OpenCall(f, a)
      BY <1>1, <2>4
    <3>2. s.call = OpenCall(f, a)
      BY <3>1 DEF Gathers
    <3>3. z.calls = Longer(Gathered(f, a), s.call, l.args) /\ z.call = s.call
      BY <1>2, <1>7, <2>1, <2>4
    <3>4. CallsIn(f, w) = CallsIn(f, a)
      BY <1>1, <2>4
    <3>5. Argues(f, a, w, s.call, l.args)
      BY <1>1, <2>4, <3>2 DEF Argues, With
    <3>6. Gathered(f, w) = Longer(Gathered(f, a), s.call, l.args)
      BY <3>4, <3>5, GatheredArgs
    <3>7. Gathers(f, w, v, z)
      BY <1>1, <1>2, <2>1, <3>1, <3>2, <3>3, <3>6 DEF Gathers
    <3> QED BY <3>7 DEF w, z
  <2> QED BY <2>2, <2>3, <2>4
<1> QED BY <1>5, <1>6, <1>7

\* A line that is read, translated and written leaves Gemini's calls gathered, or sent.
LEMMA GathersStep ==
  ASSUME NEW f \in Wires \ {"gemini"}, NEW a, NEW b, NEW t, NEW h, NEW k, Say(a, t, h, k), NEW l, NEW u, NEW s,
         Reads(f, a, u, l), EndsTold(f, a, b, u), Gathers(f, a, b, s)
  PROVE  LET out == WriteAll("gemini", StreamChunkToCanonical(f, l, u), s)
         IN Gathers(f, a \o <<l>>, b \o out.lines, out.state)
<1> DEFINE chunks == StreamChunkToCanonical(f, l, u)
           out == WriteAll("gemini", chunks, s)
           v == b \o out.lines
<1>1. Shape(f, l) /\ Follows(f, Before(a), l) /\ Opened(f, a, u)
  BY DEF Reads
<1>2. AtMostOne(f, chunks, l, u)
  BY <1>1, LineIsOne
<1>3. f = "claude" => u.finish \in Reasons
  BY DEF EndsTold, Reasons
<1>4. l.type = "block_delta" /\ Silent(f, u) => l.text = <<>> /\ l.thinking = <<>>
  BY <1>1, OpenedSpeaks
<1>5. IsSeq(a) /\ IsSeq(b)
  BY DEF EndsTold
<1>6. Bring(chunks, l.text, l.thinking, CallsOf(f, l), FinishOf(f, l, u), CutOf(f, l, u))
  BY <1>1, <1>3, <1>4, LineBrings
<1>7. IsSeq(v) /\ (Finished(v) <=> Finished(b) \/ FinishOf(f, l, u))
  <2>1. "gemini" \in Clients
    BY DEF Clients
  <2> QED BY <1>1, <1>3, <1>4, <1>5, <2>1, EndsMore
<1>8. Finished(b) => Bare(l)
  BY <1>1 DEF EndsTold, Follows
<1> HIDE DEF chunks
<1>9. CASE chunks = <<>> /\ l.call = 0 /\ (l.args = <<>> \/ Silent(f, u))
  <2>1. out.lines = <<>> /\ out.state = s
    BY <1>9, WriteNone
  <2>2. v = b
    BY <1>5, <2>1, ConcatNone
  <2>3. Gathers(f, a \o <<l>>, b, s)
    BY <1>9, GathersNothing
  <2> QED BY <2>1, <2>2, <2>3 DEF chunks
<1>10. ASSUME NEW c, chunks = <<c>>, c.call = l.call, c.args = l.args, l.args # <<>> => ~Silent(f, u)
       PROVE  Gathers(f, a \o <<l>>, v, out.state)
  <2>1. out.lines = CanonicalToStreamChunk("gemini", c, s) /\ out.state = AfterChunk("gemini", c, s)
    BY <1>10, WriteOne DEF Clients
  <2>2. out.lines = GeminiLines(c, s) /\ out.state = GeminiWrote(c, s)
    BY <2>1 DEF CanonicalToStreamChunk, AfterChunk
  <2>3. DOMAIN chunks = {1} /\ chunks[1] = c
    BY <1>10, OneIs
  <2>4. Single(c) /\ c.finish \in Reasons /\ (c.finish # Blank <=> FinishOf(f, l, u))
    BY <1>6, <2>3 DEF Bring
  <2>5. CallsSent(v) = CallsSent(b) \cup (IF c.finish = Blank THEN {} ELSE s.calls)
    BY <1>5, <2>2, <2>4, GeminiSends
  <2>6. Finished(v) <=> Finished(b) \/ c.finish # Blank
    BY <1>7, <2>4
  <2> HIDE DEF v, out
  <2>7. Gathers(f, a \o <<l>>, v, GeminiWrote(c, s))
    BY <1>7, <1>8, <1>10, <2>4, <2>5, <2>6, GathersChunk
  <2> QED BY <2>2, <2>7
<1> QED BY <1>2, <1>9, <1>10 DEF AtMostOne, chunks

\* The one sequence of one.
LEMMA OnlySeq ==
  ASSUME NEW y
  PROVE  SetToSeq({y}) = [i \in {1} |-> y]
<1> DEFINE P(g) == g \in [1 .. Cardinality({y}) -> {y}] /\ IsInjective(g)
           one == [i \in {1} |-> y]
<1>1. Cardinality({y}) = 1 /\ 1 .. 1 = {1}
  BY FS_Singleton
<1>2. \A g : P(g) => g = one
  BY <1>1
<1>3. P(one)
  BY <1>1 DEF IsInjective
<1>4. SetToSeq({y}) = CHOOSE g \in [1 .. Cardinality({y}) -> {y}] : IsInjective(g)
  BY DEF SetToSeq
<1>5. one \in [1 .. Cardinality({y}) -> {y}] /\ IsInjective(one)
  BY <1>3
<1>6. \A g \in [1 .. Cardinality({y}) -> {y}] : IsInjective(g) => g = one
  BY <1>2
<1> HIDE DEF one, P
<1>7. (CHOOSE g \in [1 .. Cardinality({y}) -> {y}] : IsInjective(g)) = one
  BY <1>5, <1>6
<1> QED BY <1>4, <1>7 DEF one

\* A reader of Gemini's lines finds every call with its arguments.
LEMMA GathersTell ==
  ASSUME NEW f \in Wires \ {"gemini"}, NEW a, NEW b, NEW s, Argued(a), Gathers(f, a, b, s), Finished(b)
  PROVE  /\ CallsIn("gemini", b) = CallsIn(f, a)
         /\ \A x \in CallsIn(f, a) : ArgumentsIn("gemini", b, x) = ArgumentsIn(f, a, x)
<1>1. CallsSent(b) = Gathered(f, a)
  BY DEF Gathers
<1>2. CallsIn("gemini", b) = {c.call : c \in CallsSent(b)}
  <2>1. CallsIn("gemini", b) = UNION {{c.call : c \in b[i].calls} : i \in DOMAIN b}
    BY DEF CallsIn
  <2>2. CallsSent(b) = UNION {b[i].calls : i \in DOMAIN b}
    BY DEF CallsSent
  <2>3. ASSUME NEW y \in CallsIn("gemini", b) PROVE y \in {c.call : c \in CallsSent(b)}
    BY <2>1, <2>2, <2>3
  <2>4. ASSUME NEW c \in CallsSent(b) PROVE c.call \in CallsIn("gemini", b)
    <3>1. PICK i \in DOMAIN b : c \in b[i].calls
      BY <2>2, <2>4
    <3>2. c.call \in {d.call : d \in b[i].calls}
      BY <3>1
    <3> QED BY <2>1, <3>2
  <2> QED BY <2>3, <2>4
<1>3. {c.call : c \in Gathered(f, a)} = CallsIn(f, a)
  <2> DEFINE r(x) == [call |-> x, args |-> ArgumentsIn(f, a, x)]
  <2>1. \A x : r(x).call = x
    OBVIOUS
  <2>2. Gathered(f, a) = {r(x) : x \in CallsIn(f, a)}
    BY DEF Gathered
  <2> HIDE DEF r
  <2> QED BY <2>1, <2>2
<1>4. ASSUME NEW x \in CallsIn(f, a) PROVE ArgumentsIn("gemini", b, x) = ArgumentsIn(f, a, x)
  <2> DEFINE y == ArgumentsIn(f, a, x)
             D == {d \in CallsSent(b) : d.call = x}
  <2>1. ArgumentsIn("gemini", b, x) = FlattenSeq(SetToSeq({c.args : c \in D}))
    BY DEF ArgumentsIn, CallsSent
  <2>2. D = {[call |-> x, args |-> y]}
    BY <1>1, <1>4 DEF Gathered
  <2>3. {c.args : c \in D} = {y}
    <3> HIDE DEF y, D
    <3> QED BY <2>2
  <2>4. IsSeq(y)
    BY ArgumentsAreSeq
  <2> HIDE DEF y, D
  <2>5. SetToSeq({y}) = [i \in {1} |-> y]
    BY OnlySeq
  <2>6. FlattenSeq(SetToSeq({y})) = y
    BY <2>4, <2>5, FlattenOne
  <2> QED BY <2>1, <2>3, <2>6 DEF y
<1> QED BY <1>1, <1>2, <1>3, <1>4

\* Before the first line there are no calls.
LEMMA NoCallsYet ==
  ASSUME NEW f
  PROVE  CallsIn(f, <<>>) = {}
<1>1. Announced(<<>>) = <<>>
  BY SayNothing DEF Say
<1>2. ToSet(<<>>) = {} /\ CallsIn("gemini", <<>>) = {}
  BY NoneIs DEF ToSet, CallsIn
<1> QED BY <1>1, <1>2 DEF CallsIn

\* Before the first line.
LEMMA GathersNew ==
  ASSUME NEW f
  PROVE  Gathers(f, <<>>, <<>>, NewStreamState)
<1>1. CallsSent(<<>>) = {} /\ Gathered(f, <<>>) = {} /\ ~Finished(<<>>) /\ IsSeq(<<>>)
  BY NoneIs, NoCallsYet, EndsNone DEF CallsSent, Gathered, EndsAs
<1>2. NewStreamState.calls = {} /\ IsState(NewStreamState)
  BY Zenon DEF NewStreamState, IsState
<1>3. Before(<<>>) = Line
  BY DEF Before
<1>4. ~ForArgs(Line)
  BY LineFields, BlankIsNoWord DEF ForArgs
<1> QED BY <1>1, <1>2, <1>3, <1>4 DEF Gathers

-----------------------------------------------------------------------------
(* The arguments Claude's translator passes on.                            *)

\* The arguments of every call are those that were said, and the block that
\* is open is that of the call whose arguments come.
Passes(a, b, s) ==
  /\ Argued(b) /\ IsState(s)
  /\ \A x : ArgumentsIn("claude", b, x) = ArgumentsIn("openai", a, x)
  /\ ForArgs(Before(a)) => OpenAt("claude", b, s.index) = OpenCall("openai", a)

\* Lines without arguments.
Idle(f, lines) ==
  /\ IsSeq(lines)
  /\ \A b, x : Argued(b) => Argued(b \o lines) /\ ArgumentsIn(f, b \o lines, x) = ArgumentsIn(f, b, x)

\* No lines.
LEMMA IdleNone ==
  ASSUME NEW f
  PROVE  Idle(f, <<>>)
<1>1. ASSUME NEW b, Argued(b) PROVE b \o <<>> = b
  BY <1>1, ConcatNone DEF Argued
<1> QED BY <1>1, NoneIs DEF Idle

\* One line.
LEMMA IdleOne ==
  ASSUME NEW f, f # "gemini", NEW l, l.args = <<>>
  PROVE  Idle(f, <<l>>)
<1>1. IsSeq(<<l>>)
  BY OneIs
<1>2. ASSUME NEW b, NEW x, Argued(b) PROVE Argued(b \o <<l>>) /\ ArgumentsIn(f, b \o <<l>>, x) = ArgumentsIn(f, b, x)
  BY <1>2, ArguesNothing
<1> QED BY <1>1, <1>2 DEF Idle

\* Lines after others.
LEMMA IdleConcat ==
  ASSUME NEW f, NEW p, NEW q, Idle(f, p), Idle(f, q)
  PROVE  Idle(f, p \o q)
<1>1. IsSeq(p) /\ IsSeq(q) /\ IsSeq(p \o q)
  BY ConcatIs DEF Idle
<1>2. ASSUME NEW b, NEW x, Argued(b) PROVE Argued(b \o (p \o q)) /\ ArgumentsIn(f, b \o (p \o q), x) = ArgumentsIn(f, b, x)
  <2>1. Argued(b \o p) /\ ArgumentsIn(f, b \o p, x) = ArgumentsIn(f, b, x)
    BY <1>2 DEF Idle
  <2>2. Argued((b \o p) \o q) /\ ArgumentsIn(f, (b \o p) \o q, x) = ArgumentsIn(f, b \o p, x)
    BY <2>1 DEF Idle
  <2>3. (b \o p) \o q = b \o (p \o q)
    BY <1>1, <1>2, ConcatAssoc DEF Argued
  <2> QED BY <2>1, <2>2, <2>3
<1> QED BY <1>1, <1>2 DEF Idle

\* The line that starts a block.
LEMMA BlockStartIs ==
  ASSUME NEW kind, NEW call, NEW s
  PROVE  /\ BlockStart(kind, call, s).args = <<>> /\ BlockStart(kind, call, s).type = "block_start"
         /\ BlockStart(kind, call, s).index = s.index /\ BlockStart(kind, call, s).call = call
<1>1. BlockStart(kind, call, s) = [Line EXCEPT !.type = "block_start", !.index = s.index, !.kind = kind, !.call = call]
  BY DEF BlockStart
<1> QED BY <1>1, LineIs, LineFields

\* The line that stops a block.
LEMMA BlockStopIs ==
  ASSUME NEW s
  PROVE  BlockStop(s).args = <<>> /\ BlockStop(s).type = "block_stop"
<1>1. BlockStop(s) = [Line EXCEPT !.type = "block_stop", !.index = s.index]
  BY DEF BlockStop
<1> QED BY <1>1, LineIs, LineFields

\* The line that goes on with a block: arguments are left out after the rest.
LEMMA BlockDeltaIs ==
  ASSUME NEW c, NEW s
  PROVE  /\ BlockDelta(c, s).type = "block_delta" /\ BlockDelta(c, s).index = s.index
         /\ c.args = <<>> => BlockDelta(c, s).args = <<>>
         /\ c.thinking = <<>> /\ c.text = <<>> => BlockDelta(c, s).args = c.args
<1> DEFINE x == IF c.thinking # <<>> \/ c.text # <<>> THEN <<>> ELSE c.args
           y == IF c.thinking # <<>> THEN <<>> ELSE c.text
<1>1. BlockDelta(c, s) = [Line EXCEPT !.type = "block_delta", !.index = s.index, !.thinking = c.thinking, !.text = y, !.args = x]
  BY DEF BlockDelta
<1> HIDE DEF x, y
<1>2. BlockDelta(c, s).args = x /\ BlockDelta(c, s).type = "block_delta" /\ BlockDelta(c, s).index = s.index
  BY <1>1, LineIs, LineFields
<1> QED BY <1>2 DEF x

\* What Claude's translator writes of a chunk without arguments has none.
LEMMA ClaudeIdles ==
  ASSUME NEW c, NEW s, c.args = <<>>
  PROVE  Idle("claude", ClaudeLines(c, s))
<1>1. ASSUME NEW l, l.args = <<>> PROVE Idle("claude", <<l>>)
  BY <1>1, IdleOne
<1>2. ASSUME NEW kind, NEW call, NEW z PROVE Idle("claude", <<BlockStart(kind, call, z)>>) /\ Idle("claude", <<BlockStop(z)>>)
  <2> DEFINE p == BlockStart(kind, call, z)
             q == BlockStop(z)
  <2>1. p.args = <<>> /\ q.args = <<>>
    BY BlockStartIs, BlockStopIs
  <2> HIDE DEF p, q
  <2>2. Idle("claude", <<p>>) /\ Idle("claude", <<q>>)
    BY <1>1, <2>1
  <2> QED BY <2>2 DEF p, q
<1>3. ASSUME NEW z PROVE Idle("claude", <<BlockDelta(c, z)>>)
  <2> DEFINE p == BlockDelta(c, z)
  <2>1. p.args = <<>>
    BY BlockDeltaIs
  <2> HIDE DEF p
  <2>2. Idle("claude", <<p>>)
    BY <1>1, <2>1
  <2> QED BY <2>2 DEF p
<1>4. Idle("claude", CloseActive(s))
  BY <1>2, IdleNone DEF CloseActive
<1>5. \A p, q : Idle("claude", p) /\ Idle("claude", q) => Idle("claude", p \o q)
  BY IdleConcat
<1>6. Aspect(c) \in {"role", "thinking", "text", "call", "args", "finish", "none"}
  BY DEF Aspect
<1>7. CASE Aspect(c) = "role"
  <2>1. ClaudeLines(c, s) = <<[Line EXCEPT !.type = "message_start"]>>
    BY <1>7 DEF ClaudeLines
  <2>2. [Line EXCEPT !.type = "message_start"].args = <<>>
    BY LineIs, LineFields
  <2> QED BY <1>1, <2>1, <2>2
<1>8. CASE Aspect(c) = "thinking"
  <2> DEFINE p == IF s.thinking THEN <<>> ELSE <<BlockStart("thinking", 0, s)>>
             q == <<BlockDelta(c, s)>>
  <2>1. ClaudeLines(c, s) = p \o q
    BY <1>8 DEF ClaudeLines
  <2>2. Idle("claude", p)
    BY <1>2, IdleNone
  <2>3. Idle("claude", q)
    BY <1>3
  <2> HIDE DEF p, q
  <2> QED BY <1>5, <2>1, <2>2, <2>3
<1>9. CASE Aspect(c) = "text" /\ s.thinking
  <2> DEFINE p == <<BlockStop(s)>>
             q == <<BlockStart("text", 0, NextIndex(s))>>
             r == <<BlockDelta(c, NextIndex(s))>>
  <2>1. ClaudeLines(c, s) = <<BlockStop(s), BlockStart("text", 0, NextIndex(s)), BlockDelta(c, NextIndex(s))>>
    BY <1>9 DEF ClaudeLines
  <2>2. ClaudeLines(c, s) = (p \o q) \o r
    BY <2>1, PairIs, TripleIs
  <2>3. Idle("claude", p) /\ Idle("claude", q) /\ Idle("claude", r)
    BY <1>2, <1>3
  <2> HIDE DEF p, q, r
  <2>4. Idle("claude", p \o q)
    BY <1>5, <2>3
  <2> QED BY <1>5, <2>2, <2>3, <2>4
<1>10. CASE Aspect(c) = "text" /\ ~s.thinking
  <2> DEFINE p == IF s.active = "text" THEN <<>> ELSE <<BlockStart("text", 0, s)>>
             q == <<BlockDelta(c, s)>>
  <2>1. ClaudeLines(c, s) = p \o q
    BY <1>10 DEF ClaudeLines
  <2>2. Idle("claude", p)
    BY <1>2, IdleNone
  <2>3. Idle("claude", q)
    BY <1>3
  <2> HIDE DEF p, q
  <2> QED BY <1>5, <2>1, <2>2, <2>3
<1>11. CASE Aspect(c) = "call"
  <2> DEFINE q == <<BlockStart("tool_use", c.call, ForCall(s))>>
  <2>1. ClaudeLines(c, s) = CloseActive(s) \o q
    BY <1>11 DEF ClaudeLines
  <2>2. Idle("claude", q)
    BY <1>2
  <2> HIDE DEF q
  <2> QED BY <1>4, <1>5, <2>1, <2>2
<1>12. CASE Aspect(c) = "args"
  BY <1>3, <1>12 DEF ClaudeLines
<1>13. CASE Aspect(c) = "finish"
  <2> DEFINE m == [Line EXCEPT !.type = "message_delta", !.finish = Renamed(c.finish, StopReason, "end_turn"), !.usage = c.usage]
             n == [Line EXCEPT !.type = "message_stop"]
  <2>1. ClaudeLines(c, s) = CloseActive(s) \o <<m, n>>
    BY <1>13 DEF ClaudeLines
  <2>2. m.args = <<>> /\ n.args = <<>>
    BY LineIs, LineFields
  <2> HIDE DEF m, n
  <2>3. Idle("claude", <<m>>) /\ Idle("claude", <<n>>)
    BY <1>1, <2>2
  <2>4. <<m, n>> = <<m>> \o <<n>>
    BY PairIs
  <2>5. Idle("claude", <<m>> \o <<n>>)
    BY <2>3, IdleConcat
  <2>6. Idle("claude", <<m, n>>)
    BY <2>4, <2>5
  <2>7. ASSUME NEW q, Idle("claude", q) PROVE Idle("claude", CloseActive(s) \o q)
    BY <1>4, <2>7, IdleConcat
  <2> QED BY <2>1, <2>6, <2>7
<1>14. CASE Aspect(c) = "none"
  <2>1. ClaudeLines(c, s) = <<>>
    BY <1>14 DEF ClaudeLines
  <2> QED BY <2>1, IdleNone
<1> QED BY <1>6, <1>7, <1>8, <1>9, <1>10, <1>11, <1>12, <1>13, <1>14

\* What Claude's translator makes of a chunk.
LEMMA ClaudeWroteIs ==
  ASSUME NEW c, NEW s, IsState(s)
  PROVE  /\ IsState(ClaudeWrote(c, s))
         /\ Aspect(c) = "call" => ClaudeWrote(c, s).index = ForCall(s).index
         /\ Aspect(c) = "args" => ClaudeWrote(c, s) = s
<1>1. {"active", "thinking", "index"} \subseteq DOMAIN s
  BY NewStateIs DEF IsState
<1>2. IsState(NextIndex(s))
  BY DEF NextIndex, IsState
<1>3. IsState(ForCall(s)) /\ {"active", "thinking", "index"} \subseteq DOMAIN ForCall(s)
  BY <1>2, NewStateIs DEF ForCall, IsState
<1>4. CASE Aspect(c) = "thinking"
  <2>1. ClaudeWrote(c, s) = [s EXCEPT !.thinking = TRUE]
    BY <1>4 DEF ClaudeWrote
  <2> QED BY <1>1, <1>4, <2>1 DEF IsState
<1>5. CASE Aspect(c) = "text"
  <2>1. ClaudeWrote(c, s) = IF s.thinking THEN [NextIndex(s) EXCEPT !.thinking = FALSE] ELSE [s EXCEPT !.active = "text"]
    BY <1>5 DEF ClaudeWrote
  <2> QED BY <1>1, <1>2, <1>5, <2>1 DEF IsState
<1>6. CASE Aspect(c) = "call"
  <2>1. ClaudeWrote(c, s) = [ForCall(s) EXCEPT !.active = "tool_use"]
    BY <1>6 DEF ClaudeWrote
  <2> QED BY <1>3, <1>6, <2>1 DEF IsState
<1>7. CASE Aspect(c) \notin {"thinking", "text", "call"}
  <2>1. ClaudeWrote(c, s) = s
    BY <1>7 DEF ClaudeWrote
  <2> QED BY <1>7, <2>1
<1> QED BY <1>4, <1>5, <1>6, <1>7

\* Nothing is written.
LEMMA PassesNothing ==
  ASSUME NEW a, NEW b, NEW t, NEW h, NEW k, Say(a, t, h, k), NEW l, NEW u, NEW s,
         Reads("openai", a, u, l), Passes(a, b, s), l.call = 0, l.args = <<>>
  PROVE  /\ ForArgs(Before(a \o <<l>>)) => OpenCall("openai", a \o <<l>>) = 0
         /\ ~ForArgs(Before(a \o <<l>>))
         /\ \A x : ArgumentsIn("openai", a \o <<l>>, x) = ArgumentsIn("openai", a, x)
<1> DEFINE w == a \o <<l>>
<1>1. "openai" \in Wires \ {"gemini"}
  BY DEF Wires, Clients
<1>2. ReadAs("openai", a, w, u, l)
  BY <1>1, ReadsAre
<1> HIDE DEF w
<1>3. Before(w) = l /\ \A x : ArgumentsIn("openai", w, x) = ArgumentsIn("openai", a, x)
  BY <1>2 DEF ReadAs
<1>4. ForArgs(l) => Starts("openai", l)
  BY <1>1, LineGoesOn DEF Reads
<1>5. ~ForArgs(l)
  BY <1>4 DEF Starts
<1> QED BY <1>3, <1>5 DEF w

\* A chunk is written.
LEMMA PassesChunk ==
  ASSUME NEW a, NEW b, NEW t, NEW h, NEW k, Say(a, t, h, k), NEW l, NEW u, NEW s, NEW c,
         Reads("openai", a, u, l), Passes(a, b, s), Single(c), c.call = l.call, c.args = l.args, c.thinking = l.thinking
  PROVE  Passes(a \o <<l>>, b \o ClaudeLines(c, s), ClaudeWrote(c, s))
<1> DEFINE w == a \o <<l>>
           v == b \o ClaudeLines(c, s)
           z == ClaudeWrote(c, s)
<1>1. "openai" \in Wires \ {"gemini"}
  BY DEF Wires, Clients
<1>2. ReadAs("openai", a, w, u, l)
  BY <1>1, ReadsAre
<1>3. IsState(s) /\ Argued(b) /\ IsSeq(b) /\ \A x : ArgumentsIn("claude", b, x) = ArgumentsIn("openai", a, x)
  BY DEF Passes, Argued
<1>4. /\ IsState(z)
      /\ Aspect(c) = "call" => z.index = ForCall(s).index
      /\ Aspect(c) = "args" => z = s
  BY <1>3, ClaudeWroteIs
<1>5. Shape("openai", l) /\ OpenAIShape(l) /\ IsSeq(l.args)
  BY DEF Reads, Shape
<1> HIDE DEF w
<1>6. Before(w) = l
  BY <1>2 DEF ReadAs
<1>7. CASE l.args = <<>>
  <2>1. Idle("claude", ClaudeLines(c, s))
    BY <1>7, ClaudeIdles
  <2>2. Argued(v) /\ \A x : ArgumentsIn("claude", v, x) = ArgumentsIn("claude", b, x)
    BY <1>3, <2>1 DEF Idle
  <2>3. \A x : ArgumentsIn("openai", w, x) = ArgumentsIn("openai", a, x)
    BY <1>2, <1>7 DEF ReadAs
  <2>4. ForArgs(l) => OpenAt("claude", v, z.index) = OpenCall("openai", w)
    <3>1. CASE l.call = 0
      <4>1. ~ForArgs(l)
        BY <1>1, <1>7, <3>1, LineGoesOn DEF Reads, Starts
      <4> QED BY <4>1
    <3>2. CASE l.call # 0
      <4> DEFINE n == BlockStart("tool_use", c.call, ForCall(s))
      <4>1. Aspect(c) = "call"
        BY <3>2 DEF Single, Aspect
      <4>2. ClaudeLines(c, s) = CloseActive(s) \o <<n>>
        BY <4>1 DEF ClaudeLines
      <4>3. IsSeq(CloseActive(s)) /\ IsSeq(<<n>>)
        BY OneIs, NoneIs DEF CloseActive
      <4>4. v = (b \o CloseActive(s)) \o <<n>> /\ IsSeq(b \o CloseActive(s))
        BY <1>3, <4>2, <4>3, ConcatAssoc, ConcatIs
      <4>5. n.type = "block_start" /\ n.index = ForCall(s).index /\ n.call = c.call
        BY BlockStartIs
      <4> HIDE DEF n, v, z
      <4>6. OpenAt("claude", v, z.index) = n.call
        <5>1. Starts("claude", n) /\ n.index = z.index
          BY <1>4, <4>1, <4>5 DEF Starts
        <5> QED BY <4>4, <5>1, OpensOne
      <4>7. OpenCall("openai", w) = l.call
        BY <1>2, <3>2 DEF ReadAs
      <4> QED BY <4>5, <4>6, <4>7
    <3> QED BY <3>1, <3>2
  <2> HIDE DEF v, z
  <2>5. Passes(w, v, z)
    BY <1>3, <1>4, <1>6, <2>2, <2>3, <2>4 DEF Passes
  <2> QED BY <2>5 DEF w, v, z
<1>8. CASE l.args # <<>>
  <2> DEFINE d == BlockDelta(c, s)
  <2>1. l.call = 0
    BY <1>2, <1>8 DEF ReadAs
  <2>2. l.thinking = <<>>
    BY <1>5, <1>8, LineIs, LineFields DEF OpenAIShape, Done
  <2>3. Aspect(c) = "args" /\ c.text = <<>>
    BY <1>8, <2>1, <2>2 DEF Single, Aspect
  <2>4. ClaudeLines(c, s) = <<d>> /\ z = s
    BY <1>4, <2>3 DEF ClaudeLines
  <2>5. d.args = l.args /\ d.type = "block_delta" /\ d.index = s.index
    BY <2>3, BlockDeltaIs DEF Aspect
  <2> HIDE DEF d, z
  <2>6. v = b \o <<d>>
    BY <2>4
  <2> HIDE DEF v
  <2>7. ForArgs(Before(a)) /\ OpenCall("openai", w) = OpenCall("openai", a)
    BY <1>2, <1>8 DEF ReadAs
  <2>8. OpenAt("claude", b, s.index) = OpenCall("openai", a)
    BY <2>7 DEF Passes
  <2>9. OpenAt("claude", v, s.index) = OpenAt("claude", b, s.index)
    BY <1>3, <2>5, <2>6, OpensOne DEF Starts
  <2>10. Argued(v)
    BY <1>3, <1>5, <2>5, <2>6, ArguesOne
  <2>11. ASSUME NEW x PROVE ArgumentsIn("claude", v, x) = ArgumentsIn("openai", w, x)
    <3>1. IsSeq(d.args)
      BY <1>5, <2>5
    <3>2. ArgumentsIn("claude", v, x) = ArgumentsIn("claude", b, x) \o Adds("claude", b, d, x)
      BY <1>3, <2>6, <3>1, ArguesOne
    <3>3. Adds("claude", b, d, x) = IF OpenCall("openai", a) = x THEN l.args ELSE <<>>
      BY <2>5, <2>6, <2>8, <2>9 DEF Adds
    <3>4. CASE OpenCall("openai", a) = x
      <4>1. ArgumentsIn("openai", w, x) = With(ArgumentsIn("openai", a, x), l)
        BY <1>2, <1>8, <3>4 DEF ReadAs
      <4> QED BY <1>3, <3>2, <3>3, <3>4, <4>1 DEF With
    <3>5. CASE OpenCall("openai", a) # x
      <4>1. ArgumentsIn("openai", w, x) = ArgumentsIn("openai", a, x)
        BY <1>2, <3>5 DEF ReadAs
      <4>2. ArgumentsIn("claude", b, x) \o <<>> = ArgumentsIn("claude", b, x)
        BY <1>3, ArgumentsAreSeq, ConcatNone
      <4> QED BY <1>3, <3>2, <3>3, <3>5, <4>1, <4>2
    <3> QED BY <3>4, <3>5
  <2>12. Passes(w, v, z)
    BY <1>3, <2>4, <2>7, <2>8, <2>9, <2>10, <2>11 DEF Passes
  <2> QED BY <2>12 DEF w, v, z
<1> QED BY <1>7, <1>8

\* A line of an OpenAI provider, as it is written to a client of Claude.
LEMMA PassesStep ==
  ASSUME NEW a, NEW b, NEW t, NEW h, NEW k, Say(a, t, h, k), NEW l, NEW u, NEW s,
         Reads("openai", a, u, l), Passes(a, b, s)
  PROVE  LET out == WriteAll("claude", StreamChunkToCanonical("openai", l, u), s)
         IN Passes(a \o <<l>>, b \o out.lines, out.state)
<1> DEFINE chunks == StreamChunkToCanonical("openai", l, u)
           out == WriteAll("claude", chunks, s)
           w == a \o <<l>>
<1>1. Shape("openai", l) /\ OpenAIShape(l) /\ Spoken(l)
  BY DEF Reads, Shape
<1>2. "openai" \in Wires \ {"gemini"} /\ "claude" \in Clients /\ ~Silent("openai", u)
  BY DEF Wires, Clients, Silent
<1>3. AtMostOne("openai", chunks, l, u)
  BY <1>1, <1>2, LineIsOne
<1>4. Bring(chunks, l.text, l.thinking, CallsOf("openai", l), FinishOf("openai", l, u), CutOf("openai", l, u))
  BY <1>1, <1>2, LineBrings
<1>5. IsSeq(b)
  BY DEF Passes, Argued
<1> HIDE DEF chunks
<1>6. CASE chunks = <<>> /\ l.call = 0 /\ l.args = <<>>
  <2>1. out.lines = <<>> /\ out.state = s
    BY <1>6, WriteNone
  <2>2. b \o out.lines = b
    BY <1>5, <2>1, ConcatNone
  <2>3. ~ForArgs(Before(w)) /\ \A x : ArgumentsIn("openai", w, x) = ArgumentsIn("openai", a, x)
    BY <1>6, PassesNothing
  <2> HIDE DEF w
  <2>4. Passes(w, b, s)
    BY <2>3 DEF Passes
  <2> QED BY <2>1, <2>2, <2>4 DEF chunks, w
<1>7. ASSUME NEW c, chunks = <<c>>, c.call = l.call, c.args = l.args
      PROVE  Passes(w, b \o out.lines, out.state)
  <2>1. out.lines = CanonicalToStreamChunk("claude", c, s) /\ out.state = AfterChunk("claude", c, s)
    BY <1>2, <1>7, WriteOne
  <2>2. out.lines = ClaudeLines(c, s) /\ out.state = ClaudeWrote(c, s)
    BY <2>1 DEF CanonicalToStreamChunk, AfterChunk
  <2>3. DOMAIN chunks = {1} /\ chunks[1] = c
    BY <1>7, OneIs
  <2>4. Single(c)
    BY <1>4, <2>3 DEF Bring
  <2>5. c.thinking = l.thinking
    <3>1. ThinkingIn(chunks) = l.thinking
      BY <1>4 DEF Bring, Say
    <3>2. Say(<<c>>, c.text, c.thinking, CallIn(c))
      BY <2>4, SayOne DEF Single
    <3> QED BY <1>7, <3>1, <3>2 DEF Say
  <2> HIDE DEF out
  <2>6. Passes(w, b \o ClaudeLines(c, s), ClaudeWrote(c, s))
    BY <1>7, <2>4, <2>5, PassesChunk
  <2> QED BY <2>2, <2>6
<1> QED BY <1>2, <1>3, <1>6, <1>7 DEF AtMostOne, chunks

\* Before the first line.
LEMMA PassesNew == Passes(<<>>, <<>>, NewStreamState)
<1>1. Argued(<<>>) /\ \A x : ArgumentsIn("claude", <<>>, x) = <<>> /\ ArgumentsIn("openai", <<>>, x) = <<>>
  BY ArguesNone
<1>2. Before(<<>>) = Line
  BY DEF Before
<1>3. ~ForArgs(Line)
  BY LineFields, BlankIsNoWord DEF ForArgs
<1> QED BY <1>1, <1>2, <1>3 DEF Passes, IsState

-----------------------------------------------------------------------------
(* The replies of the providers, line after line.                          *)

\* Every line comes after the one before it, the first after k.
Chain(f, k, lines) == \A i \in DOMAIN lines : Follows(f, IF i = 1 THEN k ELSE lines[i - 1], lines[i])

\* No call is announced twice.
OnceEach(lines) == \A i, j \in DOMAIN lines : i # j /\ lines[i].call = lines[j].call => lines[i].call = 0

\* A reply as far as its n-th part.
Run(f, a, n) ==
  /\ IsSeq(a) /\ Chain(f, Line, a) /\ OnceEach(a)
  /\ \A i \in DOMAIN a : Shape(f, a[i]) /\ ~Closing(a[i]) /\ a[i].call \in 0 .. n

\* The lines of its n-th part, which may come after any line but a closing one.
Block(f, b, n) ==
  /\ IsSeq(b)
  /\ \A i \in DOMAIN b : Shape(f, b[i]) /\ ~Closing(b[i])
  /\ \A i \in DOMAIN b : i = 1 => b[i].call \in {0, n} /\ \A k : ~Closing(k) => Follows(f, k, b[i])
  /\ \A i \in DOMAIN b : i # 1 => b[i].call = 0 /\ Follows(f, b[i - 1], b[i])

\* The lines a reply closes with.
Closers(f, b) ==
  /\ IsSeq(b)
  /\ \A i \in DOMAIN b : Shape(f, b[i]) /\ Closing(b[i]) /\ Bare(b[i]) /\ b[i].type # "block_delta"
  /\ \A i \in DOMAIN b : i # 1 => b[i].finish = Blank

\* The lines of two sequences, one after the other.
LEMMA LinesOf ==
  ASSUME NEW a, NEW b, IsSeq(a), IsSeq(b)
  PROVE  /\ IsSeq(a \o b) /\ Len(a) \in Nat /\ Len(b) \in Nat /\ DOMAIN (a \o b) = 1 .. Len(a) + Len(b)
         /\ DOMAIN a = 1 .. Len(a) /\ DOMAIN b = 1 .. Len(b)
         /\ \A i \in 1 .. Len(a) : (a \o b)[i] = a[i]
         /\ \A i \in 1 .. Len(b) : (a \o b)[Len(a) + i] = b[i]
         /\ \A i \in DOMAIN (a \o b) : i \in 1 .. Len(a) \/ (i - Len(a) \in 1 .. Len(b) /\ (a \o b)[i] = b[i - Len(a)])
<1>1. /\ IsSeq(a \o b) /\ Len(a \o b) = Len(a) + Len(b)
      /\ \A i \in 1 .. Len(a) + Len(b) : (a \o b)[i] = IF i <= Len(a) THEN a[i] ELSE b[i - Len(a)]
  BY ConcatIs
<1>2. Len(a) \in Nat /\ Len(b) \in Nat /\ DOMAIN a = 1 .. Len(a) /\ DOMAIN b = 1 .. Len(b)
  BY SeqIs
<1>3. DOMAIN (a \o b) = 1 .. Len(a) + Len(b)
  BY <1>1, SeqIs
<1> DEFINE w == a \o b
           n == Len(a)
           m == Len(b)
<1> HIDE DEF w, n, m
<1>4. n \in Nat /\ m \in Nat /\ \A i \in 1 .. n + m : w[i] = IF i <= n THEN a[i] ELSE b[i - n]
  BY <1>1, <1>2 DEF w, n, m
<1>5. \A i \in 1 .. n : w[i] = a[i]
  BY <1>4
<1>6. \A i \in 1 .. m : w[n + i] = b[i]
  BY <1>4
<1>7. \A i \in 1 .. n + m : i \in 1 .. n \/ (i - n \in 1 .. m /\ w[i] = b[i - n])
  BY <1>4
<1> QED BY <1>1, <1>2, <1>3, <1>5, <1>6, <1>7 DEF w, n, m

\* The line before one of a sequence.
Prior(k, lines, i) == IF i = 1 THEN k ELSE lines[i - 1]

\* A line of two sequences comes after one of its own, or after the last of the first.
Joint(k, a, b, w) ==
  /\ \A i \in 1 .. Len(a) : Prior(k, w, i) = Prior(k, a, i)
  /\ \A i \in 1 .. Len(b) : i # 1 => Prior(k, w, Len(a) + i) = Prior(k, b, i)
  /\ Len(a) = 0 => Prior(k, w, Len(a) + 1) = k
  /\ Len(a) # 0 => Prior(k, w, Len(a) + 1) = a[Len(a)]

\* So it is in their concatenation.
LEMMA PriorOf ==
  ASSUME NEW k, NEW a, NEW b, IsSeq(a), IsSeq(b)
  PROVE  Joint(k, a, b, a \o b)
<1> DEFINE w == a \o b
           n == Len(a)
           m == Len(b)
<1>1. n \in Nat /\ m \in Nat /\ (\A i \in 1 .. n : w[i] = a[i]) /\ \A i \in 1 .. m : w[n + i] = b[i]
  BY LinesOf
<1> HIDE DEF w, n, m
<1>2. \A i \in 1 .. n : Prior(k, w, i) = Prior(k, a, i)
  BY <1>1 DEF Prior
<1>3. ASSUME NEW i \in 1 .. m, i # 1 PROVE Prior(k, w, n + i) = Prior(k, b, i)
  <2>1. i - 1 \in 1 .. m /\ n + i # 1 /\ (n + i) - 1 = n + (i - 1)
    BY <1>1, <1>3
  <2> QED BY <1>1, <1>3, <2>1 DEF Prior
<1>4. (n = 0 => Prior(k, w, n + 1) = k) /\ (n # 0 => Prior(k, w, n + 1) = a[n])
  BY <1>1 DEF Prior
<1> QED BY <1>2, <1>3, <1>4 DEF w, n, m, Joint

\* A part more.
LEMMA RunOn ==
  ASSUME NEW f, NEW a, NEW b, NEW n \in Nat, n # 0, Run(f, a, n - 1), Block(f, b, n)
  PROVE  Run(f, a \o b, n)
<1> DEFINE w == a \o b
           p == Len(a)
           q == Len(b)
<1>1. IsSeq(a) /\ IsSeq(b)
  BY DEF Run, Block
<1>2. /\ IsSeq(w) /\ p \in Nat /\ q \in Nat /\ DOMAIN w = 1 .. p + q /\ DOMAIN a = 1 .. p /\ DOMAIN b = 1 .. q
      /\ \A i \in 1 .. p : w[i] = a[i]
      /\ \A i \in 1 .. p + q : i \in 1 .. p \/ (i - p \in 1 .. q /\ w[i] = b[i - p])
  BY <1>1, LinesOf
<1>3. /\ \A i \in 1 .. p : Prior(Line, w, i) = Prior(Line, a, i)
      /\ \A i \in 1 .. q : i # 1 => Prior(Line, w, p + i) = Prior(Line, b, i)
      /\ p = 0 => Prior(Line, w, p + 1) = Line
      /\ p # 0 => Prior(Line, w, p + 1) = a[p]
  <2>1. Joint(Line, a, b, w)
    BY <1>1, PriorOf
  <2> QED BY <2>1 DEF Joint
<1> HIDE DEF w, p, q
<1>4. /\ \A i \in 1 .. p : /\ Shape(f, a[i]) /\ ~Closing(a[i]) /\ a[i].call \in 0 .. n - 1
                           /\ Follows(f, Prior(Line, a, i), a[i])
      /\ \A i, j \in 1 .. p : i # j /\ a[i].call = a[j].call => a[i].call = 0
  BY <1>2 DEF Run, Chain, OnceEach, Prior
<1>5. /\ \A i \in 1 .. q : Shape(f, b[i]) /\ ~Closing(b[i])
      /\ 1 \in 1 .. q => b[1].call \in {0, n} /\ \A k : ~Closing(k) => Follows(f, k, b[1])
      /\ \A i \in 1 .. q : i # 1 => b[i].call = 0 /\ Follows(f, Prior(Line, b, i), b[i])
  BY <1>2 DEF Block, Prior
<1>6. ~Closing(Line)
  BY LineFields, BlankIsNoWord DEF Closing, Closings
<1>7. ASSUME NEW i \in DOMAIN w
      PROVE  Shape(f, w[i]) /\ ~Closing(w[i]) /\ w[i].call \in 0 .. n /\ Follows(f, Prior(Line, w, i), w[i])
  <2>1. CASE i \in 1 .. p
    <3>1. w[i] = a[i] /\ Prior(Line, w, i) = Prior(Line, a, i)
      BY <1>2, <1>3, <2>1
    <3>2. Shape(f, a[i]) /\ ~Closing(a[i]) /\ a[i].call \in 0 .. n - 1 /\ Follows(f, Prior(Line, a, i), a[i])
      BY <1>4, <2>1
    <3>3. 0 .. n - 1 \subseteq 0 .. n
      OBVIOUS
    <3> QED BY <3>1, <3>2, <3>3
  <2>2. CASE i - p \in 1 .. q /\ w[i] = b[i - p] /\ i - p # 1
    <3>1. i = p + (i - p)
      BY <1>2
    <3>2. Prior(Line, w, i) = Prior(Line, b, i - p)
      BY <1>3, <2>2, <3>1
    <3>3. 0 \in 0 .. n
      OBVIOUS
    <3> QED BY <1>5, <2>2, <3>2, <3>3
  <2>3. CASE i - p \in 1 .. q /\ w[i] = b[i - p] /\ i - p = 1
    <3>1. i = p + 1 /\ 1 \in 1 .. q /\ w[i] = b[1]
      BY <1>2, <2>3
    <3>2. ~Closing(Prior(Line, w, i))
      BY <1>2, <1>3, <1>4, <1>6, <3>1
    <3>3. 0 \in 0 .. n /\ n \in 0 .. n
      OBVIOUS
    <3> QED BY <1>5, <3>1, <3>2, <3>3
  <2> QED BY <1>2, <2>1, <2>2, <2>3
<1>8. ASSUME NEW i \in DOMAIN w, NEW j \in DOMAIN w, i # j, w[i].call = w[j].call PROVE w[i].call = 0
  <2>1. CASE i \in 1 .. p /\ j \in 1 .. p
    BY <1>2, <1>4, <1>8, <2>1
  <2>2. ASSUME NEW y \in DOMAIN w, y \notin 1 .. p PROVE w[y].call \in {0, n} /\ (y # p + 1 => w[y].call = 0)
    <3>1. y - p \in 1 .. q /\ w[y] = b[y - p] /\ (y # p + 1 => y - p # 1)
      BY <1>2, <2>2
    <3> QED BY <1>5, <3>1
  <2>3. ASSUME NEW y \in 1 .. p PROVE w[y].call # n
    <3>1. w[y].call \in 0 .. n - 1
      BY <1>2, <1>4
    <3> QED BY <3>1
  <2> QED BY <1>8, <2>1, <2>2, <2>3
<1> QED BY <1>2, <1>7, <1>8 DEF Run, Chain, OnceEach, Prior, w

\* All the parts.
LEMMA RunParts ==
  ASSUME NEW f, NEW h, Run(f, h, 0), NEW n \in Nat, NEW s, s = [i \in 1 .. n |-> s[i]], \A i \in 1 .. n : Block(f, s[i], i)
  PROVE  Run(f, h \o FlattenSeq(s), n)
<1> DEFINE t(m) == [i \in 1 .. m |-> s[i]]
           w(m) == h \o FlattenSeq(t(m))
           B == {m \in 0 .. n : ~Run(f, w(m), m)}
<1>1. \A m \in 0 .. n : IsSeqs(t(m))
  <2>1. ASSUME NEW m \in 0 .. n PROVE IsSeqs(t(m))
    <3>1. t(m) = [i \in 1 .. m |-> t(m)[i]] /\ m \in Nat
      OBVIOUS
    <3>2. \A i \in 1 .. m : IsSeq(t(m)[i])
      BY DEF Block
    <3>3. DOMAIN t(m) = 1 .. m
      OBVIOUS
    <3> HIDE DEF t
    <3> QED BY <3>1, <3>2, <3>3, ListIsSeq DEF IsSeqs
  <2> QED BY <2>1
<1>2. IsSeq(h)
  BY DEF Run
<1>3. Run(f, w(0), 0)
  <2>1. t(0) = <<>>
    <3>1. t(0) = [i \in 1 .. 0 |-> t(0)[i]] /\ 0 \in Nat
      OBVIOUS
    <3> HIDE DEF t
    <3>2. IsSeq(t(0)) /\ Len(t(0)) = 0
      BY <3>1, ListIsSeq
    <3> QED BY <3>2, NoneIs, SameSeq
  <2>2. FlattenSeq(t(0)) = <<>>
    BY <2>1, FlattenNone
  <2>3. w(0) = h
    BY <1>2, <2>2, ConcatNone
  <2> QED BY <2>3
<1>4. ASSUME NEW m \in 1 .. n, Run(f, w(m - 1), m - 1) PROVE Run(f, w(m), m)
  <2>1. m \in Nat /\ m # 0
    OBVIOUS
  <2>2. Block(f, s[m], m) /\ IsSeq(s[m])
    BY DEF Block
  <2>3. FlattenSeq(t(m)) = FlattenSeq(t(m - 1)) \o s[m]
    <3>1. t(m) = [i \in 1 .. m |-> t(m)[i]] /\ t(m - 1) = [i \in 1 .. m - 1 |-> t(m)[i]] /\ t(m)[m] = s[m]
      OBVIOUS
    <3> HIDE DEF t
    <3> QED BY <2>1, <2>2, <3>1, FlattenStep
  <2>4. IsSeq(FlattenSeq(t(m - 1)))
    <3>1. m - 1 \in 0 .. n
      OBVIOUS
    <3> HIDE DEF t
    <3> QED BY <1>1, <3>1, FlattenSeqs
  <2> HIDE DEF t
  <2>5. w(m) = w(m - 1) \o s[m]
    <3> DEFINE a == FlattenSeq(t(m - 1))
               b == s[m]
    <3>1. IsSeq(a) /\ IsSeq(b) /\ w(m - 1) = h \o a /\ w(m) = h \o (a \o b)
      BY <2>2, <2>3, <2>4
    <3> HIDE DEF a, b, w
    <3>2. (h \o a) \o b = h \o (a \o b)
      BY <1>2, <3>1, ConcatAssoc
    <3> QED BY <3>1, <3>2 DEF b
  <2> HIDE DEF w
  <2> QED BY <1>4, <2>1, <2>2, <2>5, RunOn
<1> HIDE DEF w
<1>5. B = {}
  <2> SUFFICES ASSUME B # {} PROVE FALSE
    OBVIOUS
  <2>1. PICK m \in B : \A b \in B : m <= b
    <3>1. B \in SUBSET Nat
      OBVIOUS
    <3> HIDE DEF B
    <3> QED BY <3>1, SmallestNatIn
  <2>2. m \in 0 .. n /\ ~Run(f, w(m), m)
    OBVIOUS
  <2>3. m \in 1 .. n /\ m - 1 \in 0 .. n /\ ~(m <= m - 1)
    BY <1>3, <2>2
  <2>4. m - 1 \notin B
    <3> HIDE DEF B
    <3> QED BY <2>1, <2>3
  <2> QED BY <1>4, <2>2, <2>3, <2>4
<1>6. Run(f, w(n), n)
  BY <1>5
<1>7. t(n) = s
  OBVIOUS
<1> QED BY <1>6, <1>7 DEF w

\* What a translator may count on in the lines of a reply.
Plan(f, lines) ==
  /\ IsSeq(lines) /\ Chain(f, Line, lines) /\ OnceEach(lines)
  /\ \A i \in DOMAIN lines : Shape(f, lines[i])

\* A closing line comes after any line.
LEMMA ClosingFollows ==
  ASSUME NEW f, NEW k, NEW l, Closing(l), Bare(l), l.type # "block_delta", l.finish = Blank \/ ~Closing(k)
  PROVE  Follows(f, k, l)
BY DEF Follows, Bare

\* The whole reply.
LEMMA RunEnds ==
  ASSUME NEW f, NEW a, NEW b, NEW n \in Nat, Run(f, a, n), Closers(f, b)
  PROVE  Plan(f, a \o b)
<1> DEFINE w == a \o b
           p == Len(a)
           q == Len(b)
<1>1. IsSeq(a) /\ IsSeq(b)
  BY DEF Run, Closers
<1>2. /\ IsSeq(w) /\ p \in Nat /\ q \in Nat /\ DOMAIN w = 1 .. p + q /\ DOMAIN a = 1 .. p /\ DOMAIN b = 1 .. q
      /\ \A i \in 1 .. p : w[i] = a[i]
      /\ \A i \in 1 .. p + q : i \in 1 .. p \/ (i - p \in 1 .. q /\ w[i] = b[i - p])
  BY <1>1, LinesOf
<1>3. Joint(Line, a, b, w)
  BY <1>1, PriorOf
<1>4. /\ \A i \in 1 .. p : Prior(Line, w, i) = Prior(Line, a, i)
      /\ p = 0 => Prior(Line, w, p + 1) = Line
      /\ p # 0 => Prior(Line, w, p + 1) = a[p]
  BY <1>3 DEF Joint
<1> HIDE DEF w, p, q
<1>5. /\ \A i \in 1 .. p : Shape(f, a[i]) /\ ~Closing(a[i]) /\ Follows(f, Prior(Line, a, i), a[i])
      /\ \A i, j \in 1 .. p : i # j /\ a[i].call = a[j].call => a[i].call = 0
  BY <1>2 DEF Run, Chain, OnceEach, Prior
<1>6. /\ \A i \in 1 .. q : Shape(f, b[i]) /\ Closing(b[i]) /\ Bare(b[i]) /\ b[i].type # "block_delta"
      /\ \A i \in 1 .. q : i # 1 => b[i].finish = Blank
  BY <1>2 DEF Closers
<1>7. ~Closing(Line)
  BY LineFields, BlankIsNoWord DEF Closing, Closings
<1>8. ASSUME NEW i \in DOMAIN w PROVE Shape(f, w[i]) /\ Follows(f, Prior(Line, w, i), w[i])
  <2>1. CASE i \in 1 .. p
    <3>1. w[i] = a[i] /\ Prior(Line, w, i) = Prior(Line, a, i)
      BY <1>2, <1>4, <2>1
    <3> QED BY <1>5, <2>1, <3>1
  <2>2. CASE i - p \in 1 .. q /\ w[i] = b[i - p] /\ i - p # 1
    <3>1. Closing(w[i]) /\ Bare(w[i]) /\ w[i].type # "block_delta" /\ w[i].finish = Blank /\ Shape(f, w[i])
      BY <1>6, <2>2
    <3> QED BY <3>1, ClosingFollows
  <2>3. CASE i - p \in 1 .. q /\ w[i] = b[i - p] /\ i - p = 1
    <3>1. Closing(w[i]) /\ Bare(w[i]) /\ w[i].type # "block_delta" /\ Shape(f, w[i])
      BY <1>6, <2>3
    <3>2. i = p + 1
      BY <1>2, <2>3
    <3>3. ~Closing(Prior(Line, w, i))
      BY <1>2, <1>4, <1>5, <1>7, <3>2
    <3> QED BY <3>1, <3>3, ClosingFollows
  <2> QED BY <1>2, <2>1, <2>2, <2>3
<1>9. ASSUME NEW i \in DOMAIN w, NEW j \in DOMAIN w, i # j, w[i].call = w[j].call PROVE w[i].call = 0
  <2>1. CASE i \in 1 .. p /\ j \in 1 .. p
    BY <1>2, <1>5, <1>9, <2>1
  <2>2. ASSUME NEW y \in DOMAIN w, y \notin 1 .. p PROVE w[y].call = 0
    <3>1. y - p \in 1 .. q /\ w[y] = b[y - p]
      BY <1>2, <2>2
    <3> QED BY <1>6, <3>1 DEF Bare
  <2> QED BY <1>9, <2>1, <2>2
<1> QED BY <1>2, <1>8, <1>9 DEF Plan, Chain, OnceEach, Prior, w

\* Nothing, or one line that may come after any but a closing one.
LEMMA BlockOne ==
  ASSUME NEW f, NEW l, NEW n, Shape(f, l), ~Closing(l), l.call \in {0, n}, \A k : ~Closing(k) => Follows(f, k, l)
  PROVE  Block(f, <<l>>, n)
BY OneIs DEF Block

\* Lines that each come after any.
LEMMA BlockList ==
  ASSUME NEW f, NEW m \in Nat, NEW s, s = [i \in 1 .. m |-> s[i]], NEW n,
         \A i \in 1 .. m : Shape(f, s[i]) /\ ~Closing(s[i]) /\ s[i].call = 0 /\ \A k : ~Closing(k) => Follows(f, k, s[i])
  PROVE  Block(f, s, n)
<1>1. IsSeq(s) /\ DOMAIN s = 1 .. m
  BY ListIsSeq, SeqIs
<1>2. ASSUME NEW i \in DOMAIN s, i # 1 PROVE Follows(f, s[i - 1], s[i])
  <2>1. i - 1 \in 1 .. m
    BY <1>1, <1>2
  <2> QED BY <1>1, <2>1
<1> QED BY <1>1, <1>2 DEF Block

\* A line that goes on with a block, after another of its lines.
Within(f, k, l) == Shape(f, l) /\ ~Closing(l) /\ l.call = 0 /\ Follows(f, k, l)

\* Lines of one kind more.
LEMMA BlockOn ==
  ASSUME NEW f, NEW b, NEW n, Block(f, b, n), b # <<>>, NEW m \in Nat, NEW s, s = [i \in 1 .. m |-> s[i]],
         \A i \in 1 .. m : Within(f, b[Len(b)], s[i]) /\ \A j \in 1 .. m : Within(f, s[j], s[i])
  PROVE  Block(f, b \o s, n) /\ b \o s # <<>> /\ (b \o s)[Len(b \o s)] = IF m = 0 THEN b[Len(b)] ELSE s[m]
<1> DEFINE w == b \o s
           p == Len(b)
<1>1. IsSeq(b) /\ IsSeq(s) /\ Len(s) = m
  BY ListIsSeq DEF Block
<1>2. p # 0
  BY <1>1, NoneIs, SameSeq
<1>3. /\ IsSeq(w) /\ p \in Nat /\ DOMAIN w = 1 .. p + m /\ DOMAIN b = 1 .. p
      /\ \A i \in 1 .. p : w[i] = b[i]
      /\ \A i \in 1 .. p + m : i \in 1 .. p \/ (i - p \in 1 .. m /\ w[i] = s[i - p])
      /\ Len(w) = p + m
  BY <1>1, LinesOf, ConcatIs
<1> HIDE DEF w, p
<1>4. ASSUME NEW i \in DOMAIN w PROVE Shape(f, w[i]) /\ ~Closing(w[i])
  <2>1. CASE i \in 1 .. p
    BY <1>3, <2>1 DEF Block
  <2>2. CASE i - p \in 1 .. m /\ w[i] = s[i - p]
    BY <2>2 DEF Within
  <2> QED BY <1>3, <2>1, <2>2
<1>5. w[1] = b[1] /\ 1 \in DOMAIN b
  BY <1>2, <1>3
<1>6. ASSUME NEW i \in DOMAIN w, i # 1 PROVE w[i].call = 0 /\ Follows(f, w[i - 1], w[i])
  <2>1. CASE i \in 1 .. p
    <3>1. w[i] = b[i] /\ w[i - 1] = b[i - 1]
      <4>1. i - 1 \in 1 .. p
        BY <1>3, <1>6, <2>1
      <4> QED BY <1>3, <2>1, <4>1
    <3> QED BY <1>3, <1>6, <2>1, <3>1 DEF Block
  <2>2. CASE i - p \in 1 .. m /\ w[i] = s[i - p] /\ i - p # 1
    <3>1. i - 1 \in 1 .. p + m /\ (i - 1) - p \in 1 .. m /\ ~(i - 1 \in 1 .. p)
      BY <1>3, <2>2
    <3>2. w[i - 1] = s[(i - 1) - p]
      BY <1>3, <3>1
    <3> QED BY <2>2, <3>1, <3>2 DEF Within
  <2>3. CASE i - p \in 1 .. m /\ w[i] = s[i - p] /\ i - p = 1
    <3>1. i - 1 = p /\ p \in 1 .. p
      BY <1>2, <1>3, <2>3
    <3>2. w[i - 1] = b[p]
      BY <1>3, <3>1
    <3> QED BY <2>3, <3>2 DEF Within, p
  <2> QED BY <1>3, <2>1, <2>2, <2>3
<1>7. Block(f, w, n)
  BY <1>3, <1>4, <1>5, <1>6 DEF Block
<1>8. w # <<>>
  <2>1. 1 \in DOMAIN w
    BY <1>2, <1>3
  <2> QED BY <2>1, NoneIs
<1>9. w[p + m] = IF m = 0 THEN b[p] ELSE s[m]
  <2>1. CASE m = 0
    <3>1. p + m = p /\ p \in 1 .. p
      BY <1>2, <1>3, <2>1
    <3> QED BY <1>3, <2>1, <3>1
  <2>2. CASE m # 0
    <3>1. p + m \in 1 .. p + m /\ ~(p + m \in 1 .. p) /\ (p + m) - p = m
      BY <1>3, <2>2
    <3> QED BY <1>3, <2>2, <3>1
  <2> QED BY <2>1, <2>2
<1> QED BY <1>3, <1>7, <1>8, <1>9 DEF w, p

\* A piece of a part, as a text or as arguments.
LEMMA PieceIs ==
  ASSUME NEW p
  PROVE  IsSeq(<<p>>) /\ <<p>> # <<>>
BY OneIs, NoneIs

\* Any line of no format's own that is not closing may come after one that is not.
LEMMA AnyFollows ==
  ASSUME NEW f, NEW l, ~Closing(l), l.args = <<>>, f = "claude" => l.type # "block_delta"
  PROVE  \A k : ~Closing(k) => Follows(f, k, l)
BY DEF Follows

\* A line without type, finish and usage does not close.
LEMMA OpenLine ==
  ASSUME NEW l, l.type \notin Closings, l.finish = Blank, l.usage = FALSE
  PROVE  ~Closing(l)
BY DEF Closing

\* The words that open and go on.
LEMMA OpenTypes ==
  /\ Blank \notin Closings /\ "message_start" \notin Closings /\ "block_start" \notin Closings /\ "block_delta" \notin Closings
  /\ "block_stop" \notin Closings /\ "created" \notin Closings /\ "output_text.delta" \notin Closings
  /\ "output_item.added" \notin Closings
BY BlankIsNoWord DEF Closings

\* Claude's block of a part.
LEMMA ClaudeBlocks ==
  ASSUME NEW reply \in Replies, NEW i \in DOMAIN reply.parts
  PROVE  Block("claude", ClaudeBlock(reply, i), i)
<1> DEFINE kind == ClaudeKind(reply.parts[i].kind)
           call == IF kind = "tool_use" THEN i ELSE 0
           first == [Line EXCEPT !.type = "block_start", !.index = i - 1, !.kind = kind, !.call = call]
           end == [Line EXCEPT !.type = "block_stop", !.index = i - 1]
           deltas == [k \in DOMAIN Pieces(reply, i) |-> ClaudeDelta(i, kind, Pieces(reply, i)[k])]
           m == reply.parts[i].pieces
<1>1. kind \in {"text", "thinking", "tool_use", "server_tool_use"}
  <2>1. reply.parts[i].kind \in {"text", "thinking", "call", "server"}
    BY PiecesAre
  <2> QED BY <2>1 DEF ClaudeKind
<1>2. m \in Nat /\ DOMAIN Pieces(reply, i) = 1 .. m
  BY PiecesAre
<1>3. ClaudeBlock(reply, i) = (<<first>> \o deltas) \o <<end>>
  BY DEF ClaudeBlock, Each
<1>4. i \in Nat /\ i # 0
  BY PartsAre
<1> HIDE DEF kind
<1>5. /\ first.type = "block_start" /\ first.index = i - 1 /\ first.kind = kind /\ first.call = call
      /\ first.text = <<>> /\ first.thinking = <<>> /\ first.args = <<>> /\ first.finish = Blank /\ first.usage = FALSE
  BY LineIs, LineFields
<1>6. /\ end.type = "block_stop" /\ end.text = <<>> /\ end.thinking = <<>> /\ end.args = <<>> /\ end.call = 0
      /\ end.calls = {} /\ end.kind = Blank /\ end.finish = Blank /\ end.usage = FALSE
  BY LineIs, LineFields
<1>7. call \in {0, i} /\ (call # 0 <=> kind = "tool_use")
  BY <1>4
<1> HIDE DEF first, end, call
<1>8. Block("claude", <<first>>, i)
  <2>1. Shape("claude", first)
    BY <1>1, <1>5, <1>7, NoneIs DEF Shape, Spoken, ClaudeShape
  <2>2. ~Closing(first)
    BY <1>5, OpenTypes, OpenLine
  <2>3. \A k : ~Closing(k) => Follows("claude", k, first)
    BY <1>5, <2>2, AnyFollows
  <2> QED BY <1>5, <1>7, <2>1, <2>2, <2>3, BlockOne
<1>9. ForArgs(first) <=> kind \in {"tool_use", "server_tool_use"}
  BY <1>5, <1>7 DEF ForArgs
<1> DEFINE D(l) == /\ l.type = "block_delta" /\ l.index = i - 1 /\ l.call = 0 /\ l.kind = Blank /\ l.finish = Blank /\ l.usage = FALSE
                   /\ IsSeq(l.text) /\ IsSeq(l.thinking) /\ IsSeq(l.args)
                   /\ l.args # <<>> <=> kind \in {"tool_use", "server_tool_use"}
                   /\ \/ l.text = <<>> /\ l.thinking = <<>>
                      \/ l.thinking = <<>> /\ l.args = <<>>
                      \/ l.text = <<>> /\ l.args = <<>>
<1>10. ASSUME NEW p PROVE D(ClaudeDelta(i, kind, p))
  <2> DEFINE x == IF kind = "text" THEN <<p>> ELSE <<>>
             y == IF kind = "thinking" THEN <<p>> ELSE <<>>
             z == IF kind \in {"tool_use", "server_tool_use"} THEN <<p>> ELSE <<>>
             l == ClaudeDelta(i, kind, p)
  <2>1. l = [Line EXCEPT !.type = "block_delta", !.index = i - 1, !.text = x, !.thinking = y, !.args = z]
    BY DEF ClaudeDelta
  <2>2. /\ IsSeq(x) /\ IsSeq(y) /\ IsSeq(z) /\ (z # <<>> <=> kind \in {"tool_use", "server_tool_use"})
        /\ \/ x = <<>> /\ y = <<>>
           \/ y = <<>> /\ z = <<>>
           \/ x = <<>> /\ z = <<>>
    BY <1>1, PieceIs, NoneIs
  <2> HIDE DEF x, y, z, l
  <2>3. /\ l.type = "block_delta" /\ l.index = i - 1 /\ l.text = x /\ l.thinking = y /\ l.args = z
        /\ l.call = 0 /\ l.kind = Blank /\ l.finish = Blank /\ l.usage = FALSE
    BY <2>1, LineIs, LineFields
  <2>4. D(l)
    BY <2>2, <2>3
  <2> QED BY <2>4 DEF l
<1>11. ASSUME NEW l, D(l) PROVE Shape("claude", l) /\ ~Closing(l) /\ (ForArgs(l) <=> kind \in {"tool_use", "server_tool_use"})
  <2>1. Shape("claude", l)
    BY <1>11 DEF Shape, Spoken, ClaudeShape
  <2>2. ~Closing(l)
    BY <1>11, OpenTypes, OpenLine
  <2>3. ForArgs(l) <=> l.args # <<>>
    BY <1>11, BlankIsNoWord DEF ForArgs
  <2> QED BY <1>11, <2>1, <2>2, <2>3
<1>12. ASSUME NEW k, NEW l, D(l), k = first \/ D(k) PROVE Within("claude", k, l)
  <2>1. k.type \in {"block_start", "block_delta"} /\ k.index = i - 1 /\ (ForArgs(k) <=> kind \in {"tool_use", "server_tool_use"}) /\ ~Closing(k)
    <3>1. ~Closing(first)
      BY <1>5, OpenTypes, OpenLine
    <3> QED BY <1>5, <1>9, <1>11, <1>12, <3>1
  <2>2. Shape("claude", l) /\ ~Closing(l) /\ (ForArgs(l) <=> kind \in {"tool_use", "server_tool_use"})
    BY <1>11, <1>12
  <2>3. l.call = 0 /\ l.index = i - 1
    BY <1>12
  <2> HIDE DEF D
  <2>4. Follows("claude", k, l)
    BY <2>1, <2>2, <2>3 DEF Follows
  <2> QED BY <2>2, <2>3, <2>4 DEF Within
<1>13. \A k \in 1 .. m : D(deltas[k])
  BY <1>2, <1>10
<1> HIDE DEF D
<1>14. Block("claude", <<first>> \o deltas, i) /\ <<first>> \o deltas # <<>>
  <2>1. deltas = [k \in 1 .. m |-> deltas[k]]
    BY <1>2
  <2>2. <<first>> # <<>> /\ <<first>>[Len(<<first>>)] = first
    BY OneIs, NoneIs
  <2>3. \A k \in 1 .. m : Within("claude", first, deltas[k]) /\ \A j \in 1 .. m : Within("claude", deltas[j], deltas[k])
    BY <1>12, <1>13
  <2> HIDE DEF deltas, m
  <2>4. ASSUME NEW b, b = <<first>> PROVE Block("claude", b \o deltas, i) /\ b \o deltas # <<>>
    <3>1. Block("claude", b, i) /\ b # <<>> /\ b[Len(b)] = first
      BY <1>8, <2>2, <2>4
    <3>2. m \in Nat
      BY <1>2
    <3> QED BY <2>1, <2>3, <3>1, <3>2, BlockOn
  <2> QED BY <2>4
<1> DEFINE b == <<first>> \o deltas
<1> HIDE DEF b, deltas
<1>15. Block("claude", b \o <<end>>, i)
  <2>1. Shape("claude", end)
    BY <1>6, NoneIs DEF Shape, Spoken, ClaudeShape, Bare
  <2>2. ~Closing(end)
    BY <1>6, OpenTypes, OpenLine
  <2>3. \A k : ~Closing(k) => Follows("claude", k, end)
    BY <1>6, <2>2, AnyFollows
  <2>4. IsSeq(b) /\ Len(b) \in Nat /\ DOMAIN b = 1 .. Len(b) /\ Len(b) # 0
    <3>1. IsSeq(b) /\ b # <<>>
      BY <1>14 DEF Block, b
    <3> QED BY <3>1, SeqIs, NoneIs, SameSeq
  <2>5. ~Closing(b[Len(b)])
    BY <1>14, <2>4 DEF Block, b
  <2>6. Within("claude", b[Len(b)], end) /\ Within("claude", end, end)
    BY <1>6, <2>1, <2>2, <2>3, <2>5 DEF Within
  <2>7. \A j : <<end>>[1] = end
    BY OneIs
  <2>8. ASSUME NEW s, s = <<end>> PROVE Block("claude", b \o s, i)
    <3>1. s = [k \in 1 .. 1 |-> s[k]] /\ s[1] = end
      BY <2>8
    <3>2. \A k \in 1 .. 1 : Within("claude", b[Len(b)], s[k]) /\ \A j \in 1 .. 1 : Within("claude", s[j], s[k])
      BY <2>6, <3>1
    <3>3. Block("claude", b, i) /\ b # <<>> /\ 1 \in Nat
      BY <1>14 DEF b
    <3> HIDE DEF b
    <3> QED BY <3>1, <3>2, <3>3, BlockOn
  <2> QED BY <2>8
<1> QED BY <1>3, <1>15 DEF b

\* Lines of a text, of thoughts or of nothing but a type are blocks on their own.
LEMMA LooseBlock ==
  ASSUME NEW f, NEW m \in Nat, NEW s, s = [k \in 1 .. m |-> s[k]], NEW n, f # "claude",
         \A k \in 1 .. m : /\ Shape(f, s[k]) /\ s[k].call = 0 /\ s[k].args = <<>> /\ s[k].type \notin Closings
                           /\ s[k].finish = Blank /\ s[k].usage = FALSE
  PROVE  Block(f, s, n)
<1>1. ASSUME NEW k \in 1 .. m PROVE Shape(f, s[k]) /\ ~Closing(s[k]) /\ s[k].call = 0 /\ \A j : ~Closing(j) => Follows(f, j, s[k])
  <2>1. ~Closing(s[k])
    BY OpenLine
  <2> QED BY <2>1, AnyFollows
<1> QED BY <1>1, BlockList

\* The lines of an OpenAI part.
LEMMA OpenAIBlocks ==
  ASSUME NEW reply \in Replies, NEW i \in DOMAIN reply.parts, reply.parts[i].kind \in CanSay("openai")
  PROVE  Block("openai", OpenAIPart(reply, i), i)
<1> DEFINE at == NumberOf(reply, "call", i)
           m == reply.parts[i].pieces
           texts == [k \in DOMAIN Pieces(reply, i) |-> [Line EXCEPT !.text = <<Pieces(reply, i)[k]>>]]
           thoughts == [k \in DOMAIN Pieces(reply, i) |-> [Line EXCEPT !.thinking = <<Pieces(reply, i)[k]>>]]
           args == [k \in DOMAIN Pieces(reply, i) |-> [Line EXCEPT !.index = at, !.args = <<Pieces(reply, i)[k]>>]]
           first == [Line EXCEPT !.index = at, !.call = i]
<1> HIDE DEF at
<1>1. m \in Nat /\ DOMAIN Pieces(reply, i) = 1 .. m
  BY PiecesAre
<1>2. i \in Nat /\ i # 0
  BY PartsAre
<1>3. reply.parts[i].kind \in {"text", "thinking", "call"}
  BY DEF CanSay
<1>4. OpenAIPart(reply, i) = texts \/ OpenAIPart(reply, i) = thoughts \/ OpenAIPart(reply, i) = <<first>> \o args
  BY <1>3 DEF OpenAIPart, Each, at
<1>5. ASSUME NEW p
      PROVE  LET l == [Line EXCEPT !.text = <<p>>]
             IN /\ Shape("openai", l) /\ l.call = 0 /\ l.args = <<>> /\ l.type \notin Closings /\ l.finish = Blank /\ l.usage = FALSE
  <2> DEFINE x == <<p>>
             l == [Line EXCEPT !.text = x]
  <2>1. IsSeq(x) /\ x # <<>>
    BY PieceIs
  <2> HIDE DEF x
  <2>2. /\ l.text = x /\ l.thinking = <<>> /\ l.args = <<>> /\ l.call = 0 /\ l.type = Blank /\ l.finish = Blank /\ l.usage = FALSE
        /\ l = [Line EXCEPT !.text = l.text]
    BY LineIs, LineFields
  <2> HIDE DEF l
  <2>3. Shape("openai", l)
    BY <2>1, <2>2, NoneIs DEF Shape, Spoken, OpenAIShape
  <2> QED BY <2>2, <2>3, OpenTypes DEF l, x
<1>6. ASSUME NEW p
      PROVE  LET l == [Line EXCEPT !.thinking = <<p>>]
             IN /\ Shape("openai", l) /\ l.call = 0 /\ l.args = <<>> /\ l.type \notin Closings /\ l.finish = Blank /\ l.usage = FALSE
  <2> DEFINE x == <<p>>
             l == [Line EXCEPT !.thinking = x]
  <2>1. IsSeq(x) /\ x # <<>>
    BY PieceIs
  <2> HIDE DEF x
  <2>2. /\ l.text = <<>> /\ l.thinking = x /\ l.args = <<>> /\ l.call = 0 /\ l.type = Blank /\ l.finish = Blank /\ l.usage = FALSE
        /\ l = [Line EXCEPT !.thinking = l.thinking]
    BY LineIs, LineFields
  <2> HIDE DEF l
  <2>3. Shape("openai", l)
    BY <2>1, <2>2, NoneIs DEF Shape, Spoken, OpenAIShape
  <2> QED BY <2>2, <2>3, OpenTypes DEF l, x
<1>7. Block("openai", texts, i)
  <2>1. texts = [k \in 1 .. m |-> texts[k]]
    BY <1>1
  <2>2. \A k \in 1 .. m : /\ Shape("openai", texts[k]) /\ texts[k].call = 0 /\ texts[k].args = <<>> /\ texts[k].type \notin Closings
                          /\ texts[k].finish = Blank /\ texts[k].usage = FALSE
    BY <1>1, <1>5
  <2> HIDE DEF texts, m
  <2>3. m \in Nat
    BY <1>1
  <2> QED BY <2>1, <2>2, <2>3, LooseBlock
<1>8. Block("openai", thoughts, i)
  <2>1. thoughts = [k \in 1 .. m |-> thoughts[k]]
    BY <1>1
  <2>2. \A k \in 1 .. m : /\ Shape("openai", thoughts[k]) /\ thoughts[k].call = 0 /\ thoughts[k].args = <<>>
                          /\ thoughts[k].type \notin Closings /\ thoughts[k].finish = Blank /\ thoughts[k].usage = FALSE
    BY <1>1, <1>6
  <2> HIDE DEF thoughts, m
  <2>3. m \in Nat
    BY <1>1
  <2> QED BY <2>1, <2>2, <2>3, LooseBlock
<1>9. Block("openai", <<first>> \o args, i)
  <2>1. /\ first.call = i /\ first.index = at /\ first.args = <<>> /\ first.text = <<>> /\ first.thinking = <<>> /\ first.type = Blank
        /\ first.finish = Blank /\ first.usage = FALSE /\ first = [Line EXCEPT !.index = first.index, !.call = first.call]
    BY LineIs, LineFields
  <2> HIDE DEF first
  <2>2. Shape("openai", first) /\ ~Closing(first) /\ ForArgs(first)
    BY <1>2, <2>1, NoneIs, OpenTypes, OpenLine DEF Shape, Spoken, OpenAIShape, ForArgs
  <2>3. Block("openai", <<first>>, i)
    BY <2>1, <2>2, AnyFollows, BlockOne
  <2> DEFINE D(l) == Shape("openai", l) /\ ~Closing(l) /\ ForArgs(l) /\ l.index = at /\ l.call = 0
  <2>4. ASSUME NEW p PROVE D([Line EXCEPT !.index = at, !.args = <<p>>])
    <3> DEFINE x == <<p>>
               l == [Line EXCEPT !.index = at, !.args = x]
    <3>1. IsSeq(x) /\ x # <<>>
      BY PieceIs
    <3> HIDE DEF x
    <3>2. /\ l.text = <<>> /\ l.thinking = <<>> /\ l.args = x /\ l.call = 0 /\ l.type = Blank /\ l.finish = Blank /\ l.usage = FALSE
          /\ l.index = at /\ l = [Line EXCEPT !.index = l.index, !.args = l.args]
      BY LineIs, LineFields
    <3> HIDE DEF l
    <3>3. Shape("openai", l)
      BY <3>1, <3>2, NoneIs DEF Shape, Spoken, OpenAIShape
    <3>4. ~Closing(l) /\ ForArgs(l)
      BY <3>1, <3>2, OpenTypes, OpenLine DEF ForArgs
    <3> QED BY <3>2, <3>3, <3>4 DEF l, x
  <2>5. ASSUME NEW k, NEW l, D(l), k = first \/ D(k) PROVE Within("openai", k, l)
    BY <2>1, <2>2, <2>5 DEF Within, Follows
  <2>6. \A k \in 1 .. m : D(args[k])
    BY <1>1, <2>4
  <2>7. args = [k \in 1 .. m |-> args[k]]
    BY <1>1
  <2>8. <<first>> # <<>> /\ <<first>>[Len(<<first>>)] = first
    BY OneIs, NoneIs
  <2> HIDE DEF D
  <2>9. \A k \in 1 .. m : Within("openai", first, args[k]) /\ \A j \in 1 .. m : Within("openai", args[j], args[k])
    BY <2>5, <2>6
  <2> HIDE DEF args, m
  <2>10. ASSUME NEW b, b = <<first>> PROVE Block("openai", b \o args, i)
    <3>1. Block("openai", b, i) /\ b # <<>> /\ b[Len(b)] = first /\ m \in Nat
      BY <1>1, <2>3, <2>8, <2>10
    <3> QED BY <2>7, <2>9, <3>1, BlockOn
  <2> QED BY <2>10
<1> QED BY <1>4, <1>7, <1>8, <1>9

\* The lines of a part of Gemini's.
LEMMA GeminiBlocks ==
  ASSUME NEW reply \in Replies, NEW i \in DOMAIN reply.parts
  PROVE  Block("gemini", GeminiPart(reply, i), i)
<1> DEFINE m == reply.parts[i].pieces
           texts == [k \in DOMAIN Pieces(reply, i) |-> [Line EXCEPT !.text = <<Pieces(reply, i)[k]>>]]
           c == [call |-> i, args |-> Pieces(reply, i)]
           call == [Line EXCEPT !.calls = {c}]
<1>1. m \in Nat /\ DOMAIN Pieces(reply, i) = 1 .. m
  BY PiecesAre
<1>2. i # 0
  BY PartsAre
<1>3. GeminiPart(reply, i) = texts \/ GeminiPart(reply, i) = <<call>>
  BY DEF GeminiPart, Each
<1> DEFINE G(l) == /\ l.thinking = <<>> /\ l.args = <<>> /\ l.call = 0 /\ l.type = Blank /\ l.finish = Blank /\ l.usage = FALSE
                   /\ IsSeq(l.text) /\ (l.calls = {} \/ \E d \in l.calls : l.calls = {d} /\ d.call # 0)
<1>4. ASSUME NEW l, G(l)
      PROVE  Shape("gemini", l) /\ l.call = 0 /\ l.args = <<>> /\ l.type \notin Closings /\ l.finish = Blank /\ l.usage = FALSE
  BY <1>4, NoneIs, OpenTypes DEF Shape, Spoken, GeminiShape
<1>5. ASSUME NEW p PROVE G([Line EXCEPT !.text = <<p>>])
  <2> DEFINE x == <<p>>
             l == [Line EXCEPT !.text = x]
  <2>1. IsSeq(x)
    BY PieceIs
  <2> HIDE DEF x
  <2>2. G(l)
    BY <2>1, LineIs, LineFields
  <2> QED BY <2>2 DEF x
<1>6. G(call)
  <2>1. c.call = i
    OBVIOUS
  <2> HIDE DEF c
  <2>2. call.calls = {c} /\ \E d \in call.calls : call.calls = {d} /\ d.call # 0
    BY <1>2, <2>1, LineIs
  <2>3. /\ call.thinking = <<>> /\ call.args = <<>> /\ call.call = 0 /\ call.type = Blank /\ call.finish = Blank
        /\ call.usage = FALSE /\ call.text = <<>>
    BY LineIs, LineFields
  <2> HIDE DEF call
  <2> QED BY <2>2, <2>3, NoneIs
<1>7. ASSUME NEW s, NEW n \in Nat, s = [k \in 1 .. n |-> s[k]], \A k \in 1 .. n : G(s[k]) PROVE Block("gemini", s, i)
  <2> HIDE DEF G
  <2> QED BY <1>4, <1>7, LooseBlock
<1>8. Block("gemini", texts, i)
  <2>1. texts = [k \in 1 .. m |-> texts[k]] /\ \A k \in 1 .. m : G(texts[k])
    BY <1>1, <1>5
  <2> HIDE DEF texts, m, G
  <2> QED BY <1>1, <1>7, <2>1
<1>9. Block("gemini", <<call>>, i)
  <2>1. ASSUME NEW s, s = <<call>> PROVE Block("gemini", s, i)
    <3>1. s = [k \in 1 .. 1 |-> s[k]] /\ s[1] = call
      BY <2>1
    <3> HIDE DEF G, call
    <3>2. \A k \in 1 .. 1 : s[k] = call
      BY <3>1
    <3>3. \A k \in 1 .. 1 : G(s[k])
      BY <1>6, <3>2
    <3> QED BY <1>7, <3>1, <3>3
  <2> QED BY <2>1
<1> QED BY <1>3, <1>8, <1>9

\* The lines of a part of the responses.
LEMMA ResponsesBlocks ==
  ASSUME NEW reply \in Replies, NEW i \in DOMAIN reply.parts
  PROVE  Block("responses", ResponsesPart(reply, i), i)
<1> DEFINE m == reply.parts[i].pieces
           texts == [k \in DOMAIN Pieces(reply, i) |-> [Line EXCEPT !.type = "output_text.delta", !.text = <<Pieces(reply, i)[k]>>]]
           call == [Line EXCEPT !.type = "output_item.added"]
<1>1. m \in Nat /\ DOMAIN Pieces(reply, i) = 1 .. m
  BY PiecesAre
<1>2. ResponsesPart(reply, i) = texts \/ ResponsesPart(reply, i) = <<call>>
  BY DEF ResponsesPart, Each
<1> DEFINE G(l) == /\ l.thinking = <<>> /\ l.args = <<>> /\ l.call = 0 /\ l.calls = {} /\ l.kind = Blank /\ l.finish = Blank
                   /\ l.usage = FALSE /\ IsSeq(l.text)
                   /\ l.type = "output_text.delta" \/ (l.type = "output_item.added" /\ l.text = <<>>)
<1>3. ASSUME NEW l, G(l)
      PROVE  Shape("responses", l) /\ l.call = 0 /\ l.args = <<>> /\ l.type \notin Closings /\ l.finish = Blank /\ l.usage = FALSE
  BY <1>3, NoneIs, OpenTypes DEF Shape, Spoken, ResponsesShape, Bare
<1>4. ASSUME NEW p PROVE G([Line EXCEPT !.type = "output_text.delta", !.text = <<p>>])
  <2> DEFINE x == <<p>>
             l == [Line EXCEPT !.type = "output_text.delta", !.text = x]
  <2>1. IsSeq(x)
    BY PieceIs
  <2> HIDE DEF x
  <2>2. G(l)
    BY <2>1, LineIs, LineFields
  <2> QED BY <2>2 DEF x
<1>5. G(call)
  BY LineIs, LineFields, NoneIs
<1>6. ASSUME NEW s, NEW n \in Nat, s = [k \in 1 .. n |-> s[k]], \A k \in 1 .. n : G(s[k]) PROVE Block("responses", s, i)
  <2> HIDE DEF G
  <2> QED BY <1>3, <1>6, LooseBlock
<1>7. Block("responses", texts, i)
  <2>1. texts = [k \in 1 .. m |-> texts[k]] /\ \A k \in 1 .. m : G(texts[k])
    BY <1>1, <1>4
  <2> HIDE DEF texts, m, G
  <2> QED BY <1>1, <1>6, <2>1
<1>8. Block("responses", <<call>>, i)
  <2>1. ASSUME NEW s, s = <<call>> PROVE Block("responses", s, i)
    <3>1. s = [k \in 1 .. 1 |-> s[k]] /\ s[1] = call
      BY <2>1
    <3> HIDE DEF G, call
    <3>2. \A k \in 1 .. 1 : s[k] = call
      BY <3>1
    <3>3. \A k \in 1 .. 1 : G(s[k])
      BY <1>5, <3>2
    <3> QED BY <1>6, <3>1, <3>3
  <2> QED BY <2>1
<1> QED BY <1>2, <1>7, <1>8

\* The head of a reply.
LEMMA RunHead ==
  ASSUME NEW f, NEW l, Shape(f, l), l.args = <<>>, l.call = 0, l.type \notin Closings, l.finish = Blank, l.usage = FALSE,
         l.type # "block_delta"
  PROVE  Run(f, <<l>>, 0)
<1>1. ~Closing(l)
  BY OpenLine
<1>2. \A k : ~Closing(k) => Follows(f, k, l)
  BY <1>1, AnyFollows
<1>3. ~Closing(Line)
  BY LineFields, BlankIsNoWord DEF Closing, Closings
<1> DEFINE w == <<l>>
<1>4. IsSeq(w) /\ DOMAIN w = {1} /\ w[1] = l
  BY OneIs
<1> HIDE DEF w
<1>5. Chain(f, Line, w)
  BY <1>2, <1>3, <1>4 DEF Chain
<1>6. OnceEach(w)
  BY <1>4 DEF OnceEach
<1>7. Run(f, w, 0)
  BY <1>1, <1>4, <1>5, <1>6 DEF Run
<1> QED BY <1>7 DEF w

\* A reply may have no head.
LEMMA RunNothing ==
  ASSUME NEW f
  PROVE  Run(f, <<>>, 0)
BY NoneIs DEF Run, Chain, OnceEach

\* A closing line.
Closes(f, l) == Shape(f, l) /\ Closing(l) /\ Bare(l) /\ l.type # "block_delta"

\* One closing line.
LEMMA ClosersOne ==
  ASSUME NEW f, NEW x, Closes(f, x)
  PROVE  Closers(f, <<x>>)
BY OneIs DEF Closers, Closes

\* Another.
LEMMA ClosersMore ==
  ASSUME NEW f, NEW a, Closers(f, a), NEW x, Closes(f, x), x.finish = Blank
  PROVE  Closers(f, a \o <<x>>)
<1> DEFINE w == a \o <<x>>
           n == Len(a)
<1>1. /\ IsSeq(w) /\ n \in Nat /\ DOMAIN w = 1 .. n + 1 /\ DOMAIN a = 1 .. n /\ (\A i \in 1 .. n : w[i] = a[i]) /\ w[n + 1] = x
  BY OneMore DEF Closers
<1> HIDE DEF w, n
<1>2. ASSUME NEW i \in DOMAIN w PROVE Closes(f, w[i]) /\ (i # 1 => w[i].finish = Blank)
  <2>1. CASE i \in 1 .. n
    BY <1>1, <2>1 DEF Closers, Closes
  <2>2. CASE i = n + 1
    BY <1>1, <2>2
  <2> QED BY <1>1, <2>1, <2>2
<1> QED BY <1>1, <1>2 DEF Closers, Closes, w

\* The head, the parts and the end of a reply.
LEMMA WholeIs ==
  ASSUME NEW f, NEW h, Run(f, h, 0), NEW n \in Nat, NEW s, s = [i \in 1 .. n |-> s[i]], \A i \in 1 .. n : Block(f, s[i], i),
         NEW b, Closers(f, b)
  PROVE  Plan(f, (h \o FlattenSeq(s)) \o b)
<1> DEFINE w == h \o FlattenSeq(s)
<1>1. Run(f, w, n)
  BY RunParts
<1> HIDE DEF w
<1>2. Plan(f, w \o b)
  BY <1>1, RunEnds
<1> QED BY <1>2 DEF w

\* Claude's replies.
LEMMA ClaudePlans ==
  ASSUME NEW reply \in Replies
  PROVE  Plan("claude", ClaudeSays(reply))
<1> DEFINE n == Len(reply.parts)
           blocks == [i \in DOMAIN reply.parts |-> ClaudeBlock(reply, i)]
           first == [Line EXCEPT !.type = "message_start"]
           e == StopReason[reply.finish]
           delta == [Line EXCEPT !.type = "message_delta", !.finish = e, !.usage = TRUE]
           stop == [Line EXCEPT !.type = "message_stop"]
<1>1. ClaudeSays(reply) = (<<first>> \o FlattenSeq(blocks)) \o <<delta, stop>>
  BY DEF ClaudeSays
<1>2. n \in Nat /\ blocks = [i \in 1 .. n |-> blocks[i]] /\ \A i \in 1 .. n : Block("claude", blocks[i], i)
  BY PartsAre, ClaudeBlocks
<1>3. e \in {"end_turn", "max_tokens", "tool_use"}
  <2>1. reply.finish \in {"stop", "length", "tool_calls"}
    BY RepliesAssumption
  <2> QED BY <2>1 DEF StopReason
<1> HIDE DEF e
<1>4. Run("claude", <<first>>, 0)
  <2>1. /\ first.type = "message_start" /\ first.text = <<>> /\ first.thinking = <<>> /\ first.args = <<>> /\ first.call = 0
        /\ first.calls = {} /\ first.kind = Blank /\ first.finish = Blank /\ first.usage = FALSE
    BY LineIs, LineFields
  <2> HIDE DEF first
  <2>2. Shape("claude", first)
    BY <2>1, NoneIs DEF Shape, Spoken, ClaudeShape, Bare
  <2> QED BY <2>1, <2>2, OpenTypes, RunHead
<1>5. Closes("claude", delta)
  <2>1. /\ delta.type = "message_delta" /\ delta.text = <<>> /\ delta.thinking = <<>> /\ delta.args = <<>> /\ delta.call = 0
        /\ delta.calls = {} /\ delta.kind = Blank /\ delta.finish = e
    BY LineIs, LineFields
  <2> HIDE DEF delta
  <2> QED BY <1>3, <2>1, NoneIs DEF Shape, Spoken, ClaudeShape, Bare, Closes, Closing, Closings
<1>6. Closes("claude", stop) /\ stop.finish = Blank
  <2>1. /\ stop.type = "message_stop" /\ stop.text = <<>> /\ stop.thinking = <<>> /\ stop.args = <<>> /\ stop.call = 0
        /\ stop.calls = {} /\ stop.kind = Blank /\ stop.finish = Blank
    BY LineIs, LineFields
  <2> HIDE DEF stop
  <2> QED BY <2>1, NoneIs DEF Shape, Spoken, ClaudeShape, Bare, Closes, Closing, Closings
<1> HIDE DEF first, blocks, delta, stop, n
<1> DEFINE h == <<first>>
           b == <<delta, stop>>
<1>7. Closers("claude", b)
  <2>1. b = <<delta>> \o <<stop>>
    BY PairIs
  <2>2. Closers("claude", <<delta>>)
    BY <1>5, ClosersOne
  <2> DEFINE a == <<delta>>
  <2> HIDE DEF a, b
  <2>3. Closers("claude", a \o <<stop>>)
    BY <1>6, <2>2, ClosersMore DEF a
  <2> QED BY <2>1, <2>3 DEF a
<1> HIDE DEF h, b
<1>8. Plan("claude", (h \o FlattenSeq(blocks)) \o b)
  BY <1>2, <1>4, <1>7, WholeIs DEF h
<1> QED BY <1>1, <1>8 DEF h, b

\* OpenAI's.
LEMMA OpenAIPlans ==
  ASSUME NEW reply \in Replies, \A i \in DOMAIN reply.parts : reply.parts[i].kind \in CanSay("openai")
  PROVE  Plan("openai", OpenAISays(reply))
<1> DEFINE n == Len(reply.parts)
           parts == [i \in DOMAIN reply.parts |-> OpenAIPart(reply, i)]
           first == [Line EXCEPT !.role = TRUE]
           e == reply.finish
           x == [Line EXCEPT !.finish = e]
           y == [Line EXCEPT !.usage = TRUE]
<1>1. OpenAISays(reply) = (<<first>> \o FlattenSeq(parts)) \o <<x, y, Done>>
  BY DEF OpenAISays
<1>2. n \in Nat /\ parts = [i \in 1 .. n |-> parts[i]] /\ \A i \in 1 .. n : Block("openai", parts[i], i)
  BY PartsAre, OpenAIBlocks
<1>3. e \in {"stop", "length", "tool_calls"}
  BY RepliesAssumption
<1> HIDE DEF e
<1>4. Run("openai", <<first>>, 0)
  <2>1. /\ first.type = Blank /\ first.text = <<>> /\ first.thinking = <<>> /\ first.args = <<>> /\ first.call = 0
        /\ first.finish = Blank /\ first.usage = FALSE
    BY LineIs, LineFields
  <2>2. OpenAIShape(first)
    BY DEF OpenAIShape
  <2> HIDE DEF first
  <2>3. Shape("openai", first)
    BY <2>1, <2>2, NoneIs DEF Shape, Spoken
  <2> QED BY <2>1, <2>3, OpenTypes, BlankIsNoWord, RunHead
<1>5. ASSUME NEW l, OpenAIShape(l), Bare(l), Closing(l), l.type \in {Blank, "[DONE]"} PROVE Closes("openai", l)
  BY <1>5, NoneIs, BlankIsNoWord DEF Shape, Spoken, Bare, Closes
<1>6. Closes("openai", x)
  <2>1. /\ x.type = Blank /\ x.text = <<>> /\ x.thinking = <<>> /\ x.args = <<>> /\ x.call = 0 /\ x.calls = {} /\ x.finish = e
        /\ x = [Line EXCEPT !.finish = x.finish]
    BY LineIs, LineFields
  <2> HIDE DEF x
  <2>2. OpenAIShape(x)
    BY <1>3, <2>1 DEF OpenAIShape
  <2>3. Closing(x) /\ Bare(x)
    BY <1>3, <2>1, BlankIsNoWord DEF Closing, Bare, Limits
  <2> QED BY <1>5, <2>1, <2>2, <2>3
<1>7. Closes("openai", y) /\ y.finish = Blank
  <2>1. /\ y.type = Blank /\ y.text = <<>> /\ y.thinking = <<>> /\ y.args = <<>> /\ y.call = 0 /\ y.calls = {} /\ y.finish = Blank
        /\ y.usage = TRUE
    BY LineIs, LineFields
  <2>2. OpenAIShape(y)
    BY DEF OpenAIShape
  <2> HIDE DEF y
  <2>3. Closing(y) /\ Bare(y)
    BY <2>1 DEF Closing, Bare
  <2> QED BY <1>5, <2>1, <2>2, <2>3
<1>8. Closes("openai", Done) /\ Done.finish = Blank
  <2>1. /\ Done.type = "[DONE]" /\ Done.text = <<>> /\ Done.thinking = <<>> /\ Done.args = <<>> /\ Done.call = 0 /\ Done.calls = {}
        /\ Done.finish = Blank
    BY LineIs, LineFields DEF Done
  <2>2. OpenAIShape(Done)
    BY DEF OpenAIShape
  <2>3. Closing(Done) /\ Bare(Done)
    BY <2>1 DEF Closing, Closings, Bare
  <2> QED BY <1>5, <2>1, <2>2, <2>3
<1> HIDE DEF first, parts, x, y, n
<1> DEFINE h == <<first>>
           b == <<x, y, Done>>
<1>9. Closers("openai", b)
  <2>1. b = <<x, y>> \o <<Done>> /\ <<x, y>> = <<x>> \o <<y>>
    <3>1. <<x, y>> = <<x>> \o <<y>>
      BY PairIs
    <3>2. ASSUME NEW z PROVE <<x, y, z>> = <<x, y>> \o <<z>>
      BY TripleIs
    <3> QED BY <3>1, <3>2
  <2> DEFINE u == <<x>>
             v == <<x, y>>
  <2>2. Closers("openai", u)
    BY <1>6, ClosersOne
  <2>3. v = u \o <<y>> /\ b = v \o <<Done>>
    BY <2>1
  <2> HIDE DEF u, v, b
  <2>4. Closers("openai", v)
    BY <1>7, <2>2, <2>3, ClosersMore
  <2> QED BY <1>8, <2>3, <2>4, ClosersMore
<1> HIDE DEF h, b
<1>10. Plan("openai", (h \o FlattenSeq(parts)) \o b)
  BY <1>2, <1>4, <1>9, WholeIs DEF h
<1> QED BY <1>1, <1>10 DEF h, b

\* Gemini's.
LEMMA GeminiPlans ==
  ASSUME NEW reply \in Replies
  PROVE  Plan("gemini", GeminiSays(reply))
<1> DEFINE n == Len(reply.parts)
           parts == [i \in DOMAIN reply.parts |-> GeminiPart(reply, i)]
           e == ToGeminiReason(reply.finish)
           end == [Line EXCEPT !.finish = e, !.usage = TRUE]
<1>1. GeminiSays(reply) = FlattenSeq(parts) \o <<end>>
  BY DEF GeminiSays
<1>2. n \in Nat /\ parts = [i \in 1 .. n |-> parts[i]] /\ \A i \in 1 .. n : Block("gemini", parts[i], i)
  BY PartsAre, GeminiBlocks
<1>3. e \in {"STOP", "MAX_TOKENS"}
  <2>1. reply.finish \in {"stop", "length", "tool_calls"}
    BY RepliesAssumption
  <2> QED BY <2>1, BlankIsNoWord DEF ToGeminiReason, Limits
<1> HIDE DEF e
<1>4. Closes("gemini", end)
  <2>1. /\ end.type = Blank /\ end.text = <<>> /\ end.thinking = <<>> /\ end.args = <<>> /\ end.call = 0 /\ end.calls = {}
        /\ end.finish = e /\ end.usage = TRUE
    BY LineIs, LineFields
  <2> HIDE DEF end
  <2> QED BY <1>3, <2>1, NoneIs, BlankIsNoWord DEF Shape, Spoken, GeminiShape, Bare, Closes, Closing
<1> HIDE DEF parts, end, n
<1> DEFINE b == <<end>>
<1>5. Closers("gemini", b)
  BY <1>4, ClosersOne
<1> HIDE DEF b
<1>6. Plan("gemini", (<<>> \o FlattenSeq(parts)) \o b)
  BY <1>2, <1>5, RunNothing, WholeIs
<1>7. <<>> \o FlattenSeq(parts) = FlattenSeq(parts)
  <2>1. \A i \in 1 .. n : IsSeq(parts[i])
    BY <1>2 DEF Block
  <2>2. IsSeq(FlattenSeq(parts))
    BY <1>2, <2>1, FlattenIs
  <2> QED BY <2>2, ConcatNone
<1> QED BY <1>1, <1>6, <1>7 DEF b

\* The responses.
LEMMA ResponsesPlans ==
  ASSUME NEW reply \in Replies
  PROVE  Plan("responses", ResponsesSays(reply))
<1> DEFINE n == Len(reply.parts)
           parts == [i \in DOMAIN reply.parts |-> ResponsesPart(reply, i)]
           first == [Line EXCEPT !.type = "created"]
           e == IF reply.finish = "length" THEN "incomplete" ELSE "completed"
           end == [Line EXCEPT !.type = "completed", !.usage = TRUE, !.finish = e]
<1>1. ResponsesSays(reply) = (<<first>> \o FlattenSeq(parts)) \o <<end>>
  BY DEF ResponsesSays
<1>2. n \in Nat /\ parts = [i \in 1 .. n |-> parts[i]] /\ \A i \in 1 .. n : Block("responses", parts[i], i)
  BY PartsAre, ResponsesBlocks
<1>3. e \in {"incomplete", "completed"}
  OBVIOUS
<1> HIDE DEF e
<1>4. Run("responses", <<first>>, 0)
  <2>1. /\ first.type = "created" /\ first.text = <<>> /\ first.thinking = <<>> /\ first.args = <<>> /\ first.call = 0
        /\ first.calls = {} /\ first.kind = Blank /\ first.finish = Blank /\ first.usage = FALSE
    BY LineIs, LineFields
  <2> HIDE DEF first
  <2>2. Shape("responses", first)
    BY <2>1, NoneIs DEF Shape, Spoken, ResponsesShape, Bare
  <2> QED BY <2>1, <2>2, OpenTypes, RunHead
<1>5. Closes("responses", end)
  <2>1. /\ end.type = "completed" /\ end.text = <<>> /\ end.thinking = <<>> /\ end.args = <<>> /\ end.call = 0 /\ end.calls = {}
        /\ end.kind = Blank /\ end.finish = e
    BY LineIs, LineFields
  <2> HIDE DEF end
  <2> QED BY <1>3, <2>1, NoneIs DEF Shape, Spoken, ResponsesShape, Bare, Closes, Closing, Closings
<1> HIDE DEF first, parts, end, n
<1> DEFINE h == <<first>>
           b == <<end>>
<1>6. Closers("responses", b)
  BY <1>5, ClosersOne
<1> HIDE DEF h, b
<1>7. Plan("responses", (h \o FlattenSeq(parts)) \o b)
  BY <1>2, <1>4, <1>6, WholeIs DEF h
<1> QED BY <1>1, <1>7 DEF h, b

\* Every provider's.
LEMMA ProvidersPlan ==
  ASSUME NEW f \in Wires, NEW reply \in Replies, \A i \in DOMAIN reply.parts : reply.parts[i].kind \in CanSay(f)
  PROVE  Plan(f, Says(f, reply))
BY ClaudePlans, OpenAIPlans, GeminiPlans, ResponsesPlans DEF Says, Wires, Clients

-----------------------------------------------------------------------------
(* A stream from its first line to its last.                               *)

\* The lines still to come, after those that were said.
Awaited(f, a, lines) ==
  /\ IsSeq(lines) /\ Chain(f, Before(a), lines) /\ OnceEach(lines)
  /\ \A i \in DOMAIN lines : Shape(f, lines[i])
  /\ f # "gemini" => \A i \in DOMAIN lines : lines[i].call # 0 => lines[i].call \notin CallsIn(f, a)

\* What a reader of format g was sent of the lines a that a provider of
\* format f said, and what the two states have of it.
Heeded(f, g, a, b, u, s) ==
  /\ WordsHeard(f, g, a, b) /\ EndsTold(f, a, b, u)
  /\ f # "gemini" => Opened(f, a, u)
  /\ f # "gemini" /\ g = "gemini" => Gathers(f, a, b, s)
  /\ f = "openai" /\ g = "claude" => Passes(a, b, s)

\* Before the first line.
LEMMA HeededNew ==
  ASSUME NEW f \in Wires, NEW g \in Clients
  PROVE  Heeded(f, g, <<>>, <<>>, NewStreamState, NewStreamState)
BY WordsNone, EndsNew, OpenedNew, GathersNew, PassesNew DEF Heeded

\* A whole reply is to come.
LEMMA AwaitedNew ==
  ASSUME NEW f, NEW lines, Plan(f, lines)
  PROVE  Awaited(f, <<>>, lines)
<1>1. Before(<<>>) = Line
  BY DEF Before
<1>2. CallsIn(f, <<>>) = {}
  BY NoCallsYet
<1> QED BY <1>1, <1>2 DEF Plan, Awaited

\* Of the lines to come the first is read.
LEMMA AwaitedNext ==
  ASSUME NEW f \in Wires, NEW a, NEW t, NEW h, NEW k, Say(a, t, h, k), NEW c, c # <<>>, Awaited(f, a, c)
  PROVE  /\ Shape(f, Head(c)) /\ Follows(f, Before(a), Head(c))
         /\ f # "gemini" /\ Head(c).call # 0 => Head(c).call \notin CallsIn(f, a)
         /\ Awaited(f, a \o <<Head(c)>>, Tail(c))
<1> DEFINE l == Head(c)
           w == a \o <<l>>
           n == Len(c)
           r == Tail(c)
<1>1. IsSeq(a) /\ IsSeq(c)
  BY DEF Say, Awaited
<1>2. /\ n \in Nat /\ n > 0 /\ l = c[1] /\ IsSeq(r) /\ Len(r) = n - 1 /\ DOMAIN r = 1 .. n - 1 /\ DOMAIN c = 1 .. n
      /\ \A i \in 1 .. n - 1 : r[i] = c[i + 1]
  BY <1>1, TailIs, SeqIs
<1>3. Before(w) = l
  BY <1>1, BeforeIs
<1> HIDE DEF l, w, n, r
<1>4. /\ \A i \in 1 .. n : Shape(f, c[i]) /\ Follows(f, IF i = 1 THEN Before(a) ELSE c[i - 1], c[i])
      /\ \A i, j \in 1 .. n : i # j /\ c[i].call = c[j].call => c[i].call = 0
      /\ f # "gemini" => \A i \in 1 .. n : c[i].call # 0 => c[i].call \notin CallsIn(f, a)
  BY <1>2 DEF Awaited, Chain, OnceEach
<1>5. 1 \in 1 .. n /\ \A i \in 1 .. n - 1 : i + 1 \in 1 .. n /\ i + 1 # 1 /\ (i + 1) - 1 = i
  BY <1>2
<1>6. Shape(f, l) /\ Follows(f, Before(a), l) /\ (f # "gemini" /\ l.call # 0 => l.call \notin CallsIn(f, a))
  BY <1>2, <1>4, <1>5
<1>7. \A i \in 1 .. n - 1 : Shape(f, r[i])
  BY <1>2, <1>4, <1>5
<1>8. ASSUME NEW i \in 1 .. n - 1 PROVE Follows(f, IF i = 1 THEN l ELSE r[i - 1], r[i])
  <2>1. Follows(f, c[i], c[i + 1])
    BY <1>4, <1>5
  <2>2. c[i] = IF i = 1 THEN l ELSE r[i - 1]
    <3>1. CASE i = 1
      BY <1>2, <3>1
    <3>2. CASE i # 1
      <4>1. i - 1 \in 1 .. n - 1 /\ (i - 1) + 1 = i
        BY <1>2, <3>2
      <4> QED BY <1>2, <3>2, <4>1
    <3> QED BY <3>1, <3>2
  <2> QED BY <1>2, <2>1, <2>2
<1>9. ASSUME NEW i \in 1 .. n - 1, NEW j \in 1 .. n - 1, i # j, r[i].call = r[j].call PROVE r[i].call = 0
  <2>1. i + 1 # j + 1 /\ c[i + 1].call = c[j + 1].call
    BY <1>2, <1>9
  <2> QED BY <1>2, <1>4, <1>5, <2>1
<1>10. ASSUME f # "gemini", NEW i \in 1 .. n - 1, r[i].call # 0 PROVE r[i].call \notin CallsIn(f, w)
  <2>1. Spoken(l)
    BY <1>6 DEF Shape
  <2>2. CallsIn(f, w) = CallsIn(f, a) \cup (IF l.call = 0 THEN {} ELSE {l.call})
    BY <1>10, <2>1, CallsGrow DEF w
  <2>3. r[i].call \notin CallsIn(f, a)
    BY <1>2, <1>4, <1>5, <1>10
  <2>4. r[i].call # l.call
    <3>1. r[i] = c[i + 1] /\ l = c[1] /\ 1 # i + 1 /\ i + 1 \in 1 .. n
      BY <1>2, <1>5
    <3> QED BY <1>4, <1>5, <1>10, <3>1
  <2> QED BY <2>2, <2>3, <2>4
<1>11. Chain(f, Before(w), r) /\ OnceEach(r)
  BY <1>2, <1>3, <1>8, <1>9 DEF Chain, OnceEach
<1>12. Awaited(f, w, r)
  BY <1>2, <1>7, <1>10, <1>11 DEF Awaited
<1> QED BY <1>6, <1>12 DEF l, w, r

\* A line is read, translated and written.
LEMMA HeedStep ==
  ASSUME NEW f \in Wires, NEW g \in Clients, NEW a, NEW b, NEW u, NEW s, NEW l, Heeded(f, g, a, b, u, s),
         Shape(f, l), Follows(f, Before(a), l), f # "gemini" /\ l.call # 0 => l.call \notin CallsIn(f, a)
  PROVE  LET out == WriteAll(g, StreamChunkToCanonical(f, l, u), s)
         IN Heeded(f, g, a \o <<l>>, b \o out.lines, AfterLine(f, l, u), out.state)
<1> DEFINE out == WriteAll(g, StreamChunkToCanonical(f, l, u), s)
           w == a \o <<l>>
           v == b \o out.lines
           x == AfterLine(f, l, u)
<1>1. WordsHeard(f, g, a, b) /\ EndsTold(f, a, b, u) /\ (f # "gemini" => Opened(f, a, u))
  BY DEF Heeded
<1>2. Say(a, TextIn(a), ThinkingIn(a), Announced(a))
  BY <1>1 DEF WordsHeard
<1>3. l.type = "block_delta" /\ Silent(f, u) => l.text = <<>> /\ l.thinking = <<>>
  <2>1. CASE f = "gemini"
    BY <2>1 DEF Silent
  <2>2. CASE f # "gemini"
    BY <1>1, <2>2, OpenedSpeaks
  <2> QED BY <2>1, <2>2
<1>4. f = "claude" => u.finish \in Reasons
  BY <1>1 DEF EndsTold, Reasons
<1>5. WordsHeard(f, g, w, v)
  BY <1>1, <1>3, <1>4, WordsStep
<1>6. EndsTold(f, w, v, x)
  BY <1>1, <1>3, EndsStep
<1>7. f # "gemini" => Opened(f, w, x)
  BY <1>1, <1>2, OpenedStep
<1>8. ASSUME f # "gemini" PROVE Reads(f, a, u, l)
  BY <1>1, <1>8 DEF Reads
<1>9. ASSUME f # "gemini", g = "gemini" PROVE Gathers(f, w, v, out.state)
  <2>1. Gathers(f, a, b, s)
    BY <1>9 DEF Heeded
  <2>2. Gathers(f, a \o <<l>>, b \o WriteAll("gemini", StreamChunkToCanonical(f, l, u), s).lines,
                WriteAll("gemini", StreamChunkToCanonical(f, l, u), s).state)
    BY <1>1, <1>2, <1>8, <1>9, <2>1, GathersStep
  <2> QED BY <1>9, <2>2
<1>10. ASSUME f = "openai", g = "claude" PROVE Passes(w, v, out.state)
  <2>1. Passes(a, b, s) /\ Reads("openai", a, u, l)
    BY <1>8, <1>10 DEF Heeded
  <2>2. Passes(a \o <<l>>, b \o WriteAll("claude", StreamChunkToCanonical("openai", l, u), s).lines,
               WriteAll("claude", StreamChunkToCanonical("openai", l, u), s).state)
    BY <1>2, <2>1, PassesStep
  <2> QED BY <1>10, <2>2
<1> HIDE DEF w, v, x, out
<1>11. Heeded(f, g, w, v, x, out.state)
  BY <1>5, <1>6, <1>7, <1>9, <1>10 DEF Heeded
<1> QED BY <1>11 DEF w, v, x, out

\* A line that is refused adds nothing.
LEMMA RefusedIs ==
  ASSUME NEW f, NEW g, NEW l, NEW u, NEW s, Refused(f, l)
  PROVE  /\ AfterLine(f, l, u) = u
         /\ WriteAll(g, StreamChunkToCanonical(f, l, u), s).lines = <<>>
         /\ WriteAll(g, StreamChunkToCanonical(f, l, u), s).state = s
<1>1. f = "claude" /\ l.type = "error"
  BY DEF Refused
<1>2. AfterLine(f, l, u) = u
  BY <1>1 DEF AfterLine, ClaudeAfter
<1>3. StreamChunkToCanonical(f, l, u) = <<>>
  BY <1>1 DEF StreamChunkToCanonical, ClaudeChunks
<1> QED BY <1>2, <1>3, WriteNone

\* The words of a failure close a stream.
LEMMA AwaitedFailure ==
  ASSUME NEW f \in {"claude", "responses"}, NEW a
  PROVE  Awaited(f, a, <<[Line EXCEPT !.type = "error"]>>)
<1> DEFINE e == [Line EXCEPT !.type = "error"]
           w == <<e>>
<1>1. /\ e.type = "error" /\ e.text = <<>> /\ e.thinking = <<>> /\ e.args = <<>> /\ e.call = 0 /\ e.calls = {} /\ e.kind = Blank
      /\ e.finish = Blank
  BY LineIs, LineFields
<1> HIDE DEF e
<1>2. Shape(f, e)
  BY <1>1, NoneIs DEF Shape, Spoken, ClaudeShape, ResponsesShape, Bare
<1>3. Closing(e) /\ Bare(e)
  BY <1>1 DEF Closing, Closings, Bare
<1>4. Follows(f, Before(a), e)
  BY <1>1, <1>3, ClosingFollows
<1>5. IsSeq(w) /\ DOMAIN w = {1} /\ w[1] = e
  BY OneIs
<1> HIDE DEF w
<1>6. Awaited(f, a, w)
  BY <1>1, <1>2, <1>4, <1>5 DEF Awaited, Chain, OnceEach
<1> QED BY <1>6 DEF w, e

-----------------------------------------------------------------------------
(* What is said is heard, at every step.                                   *)

\* At every step of a stream the client was sent what the provider said, and
\* the rest of the reply is as its provider's format has it.
HeardInv ==
  /\ step \notin {"stream", "whole", "over"} => clientState = NewStreamState
  /\ step = "stream" /\ source = target => sent = said
  /\ step = "stream" /\ source # target =>
       /\ Heeded(target, source, said, sent, upstreamState, clientState)
       /\ Awaited(target, said, coming)

\* Initially there is no stream.
LEMMA HeardInit == Init => HeardInv
BY DEF Init, HeardInv

\* A stream begins.
LEMMA HeardServed ==
  ASSUME BooksInv, HeardInv, Served
  PROVE  HeardInv'
<1>1. step = "answered" /\ step' \in {"stream", "whole"}
  BY DEF Served
<1>2. sent = <<>> /\ said = <<>> /\ upstreamState = NewStreamState /\ clientState = NewStreamState
  BY <1>1 DEF BooksInv, Fresh, HeardInv
<1>3. UNCHANGED <<source, formatOf, conn, said, sent, upstreamState, clientState>> /\ target' = target
  BY DEF Served, request, loop, target
<1>4. source \in Clients /\ target \in Wires
  BY DEF BooksInv, target
<1>5. PICK reply \in Replies : /\ \A i \in DOMAIN reply.parts : reply.parts[i].kind \in CanSay(target)
                               /\ coming' = Says(target, reply)
  BY DEF Served, target
<1>6. Plan(target, coming')
  BY <1>4, <1>5, ProvidersPlan
<1>7. Awaited(target, <<>>, coming')
  BY <1>6, AwaitedNew
<1>8. Heeded(target, source, <<>>, <<>>, NewStreamState, NewStreamState)
  BY <1>4, HeededNew
<1> QED BY <1>1, <1>2, <1>3, <1>7, <1>8 DEF HeardInv

\* To append a line is to put it after the others.
LEMMA AppendConcat ==
  ASSUME NEW s, NEW x, IsSeq(s)
  PROVE  Append(s, x) = s \o <<x>>
<1>1. IsSeq(Append(s, x)) /\ Len(Append(s, x)) = Len(s) + 1 /\ \A i \in 1 .. Len(s) + 1 : Append(s, x)[i] = IF i <= Len(s) THEN s[i] ELSE x
  BY AppendIs
<1>2. /\ IsSeq(s \o <<x>>) /\ Len(s) \in Nat /\ Len(s \o <<x>>) = Len(s) + 1
      /\ (\A i \in 1 .. Len(s) : (s \o <<x>>)[i] = s[i]) /\ (s \o <<x>>)[Len(s) + 1] = x
  BY OneMore
<1>3. \A i \in 1 .. Len(s) + 1 : Append(s, x)[i] = (s \o <<x>>)[i]
  <2> DEFINE v == s \o <<x>>
             w == Append(s, x)
             n == Len(s)
  <2> HIDE DEF v, w, n
  <2>1. \A i \in 1 .. n + 1 : w[i] = IF i <= n THEN s[i] ELSE x
    BY <1>1 DEF w, n
  <2>2. n \in Nat /\ (\A i \in 1 .. n : v[i] = s[i]) /\ v[n + 1] = x
    BY <1>2 DEF v, n
  <2>3. \A i \in 1 .. n + 1 : w[i] = v[i]
    BY <2>1, <2>2
  <2> QED BY <2>3 DEF v, w, n
<1> QED BY <1>1, <1>2, <1>3, SameSeq

\* A line of it.
LEMMA HeardReadLine ==
  ASSUME BooksInv, HeardInv, ReadLine
  PROVE  HeardInv'
<1> DEFINE l == Head(coming)
           out == WriteAll(source, StreamChunkToCanonical(target, l, upstreamState), clientState)
<1>1. step = "stream" /\ coming # <<>> /\ step' = step
  BY DEF ReadLine
<1>2. UNCHANGED <<source, formatOf, conn>> /\ target' = target
  BY DEF ReadLine, request, loop, target
<1>3. coming' = Tail(coming) /\ said' = Append(said, l)
  BY DEF ReadLine
<1>4. source = target => sent' = Append(sent, l)
  BY DEF ReadLine
<1>5. source # target /\ Refused(target, l) => UNCHANGED <<sent, upstreamState, clientState>>
  BY DEF ReadLine
<1>6. source # target /\ ~Refused(target, l) =>
        upstreamState' = AfterLine(target, l, upstreamState) /\ sent' = sent \o out.lines /\ clientState' = out.state
  BY DEF ReadLine
<1>7. source \in Clients /\ target \in Wires /\ IsSeq(said) /\ IsSeq(sent) /\ IsSeq(coming)
  BY <1>1 DEF BooksInv, target, StreamInv
<1>8. CASE source = target
  BY <1>1, <1>2, <1>3, <1>4, <1>8 DEF HeardInv
<1>9. CASE source # target
  <2>1. Heeded(target, source, said, sent, upstreamState, clientState) /\ Awaited(target, said, coming)
    BY <1>1, <1>9 DEF HeardInv
  <2>2. Say(said, TextIn(said), ThinkingIn(said), Announced(said))
    BY <2>1 DEF Heeded, WordsHeard
  <2>3. /\ Shape(target, l) /\ Follows(target, Before(said), l)
        /\ target # "gemini" /\ l.call # 0 => l.call \notin CallsIn(target, said)
        /\ Awaited(target, said \o <<l>>, Tail(coming))
    BY <1>1, <1>7, <2>1, <2>2, AwaitedNext
  <2>4. Heeded(target, source, said \o <<l>>, sent \o out.lines, AfterLine(target, l, upstreamState), out.state)
    BY <1>7, <2>1, <2>3, HeedStep
  <2>5. said' = said \o <<l>>
    BY <1>3, <1>7, AppendConcat
  <2>6. upstreamState' = AfterLine(target, l, upstreamState) /\ sent' = sent \o out.lines /\ clientState' = out.state
    <3>1. CASE Refused(target, l)
      <4>1. AfterLine(target, l, upstreamState) = upstreamState /\ out.lines = <<>> /\ out.state = clientState
        BY <3>1, RefusedIs
      <4>2. sent \o out.lines = sent
        BY <1>7, <4>1, ConcatNone
      <4> QED BY <1>5, <1>9, <3>1, <4>1, <4>2
    <3>2. CASE ~Refused(target, l)
      BY <1>6, <1>9, <3>2
    <3> QED BY <3>1, <3>2
  <2>7. Heeded(target, source, said', sent', upstreamState', clientState') /\ Awaited(target, said', coming')
    BY <1>3, <2>3, <2>4, <2>5, <2>6
  <2> QED BY <1>1, <1>2, <1>9, <2>7 DEF HeardInv
<1> QED BY <1>8, <1>9

\* The provider fails aloud.
LEMMA HeardFailsAloud ==
  ASSUME BooksInv, HeardInv, FailsAloud
  PROVE  HeardInv'
<1>1. step = "stream" /\ step' = step /\ target \in {"claude", "responses"}
  BY DEF FailsAloud
<1>2. UNCHANGED <<source, formatOf, conn, said, sent, upstreamState, clientState>> /\ target' = target
  BY DEF FailsAloud, request, loop, target
<1>3. coming' = <<[Line EXCEPT !.type = "error"]>>
  BY DEF FailsAloud
<1>4. Awaited(target, said, coming')
  BY <1>1, <1>3, AwaitedFailure
<1> QED BY <1>1, <1>2, <1>4 DEF HeardInv

\* Before a stream nothing of it changes, and after it nothing is asked.
LEMMA HeardElsewhere ==
  ASSUME HeardInv, Connect \/ Attempt \/ Backoff \/ Failed \/ Rejected \/ ForwardError \/ Ends \/ Breaks \/ ForwardWhole
  PROVE  HeardInv'
<1>1. step' # "stream"
  BY DEF Connect, Attempt, Backoff, Failed, Rejected, ForwardError, Ends, Breaks, ForwardWhole, Advance, GiveUp
<1>2. step' \notin {"stream", "whole", "over"} => step \notin {"stream", "whole", "over"}
  BY DEF Connect, Attempt, Backoff, Failed, Rejected, ForwardError, Ends, Breaks, ForwardWhole, Advance
<1>3. clientState' = clientState
  BY DEF Connect, Attempt, Backoff, Failed, Rejected, ForwardError, Ends, Breaks, ForwardWhole, answer
<1> QED BY <1>1, <1>2, <1>3 DEF HeardInv

\* Nothing of the stream is touched.
LEMMA HeardUntouched ==
  ASSUME HeardInv, UNCHANGED <<request, step, conn, answer>>
  PROVE  HeardInv'
<1>1. UNCHANGED <<source, formatOf, step, conn, coming, said, sent, upstreamState, clientState>> /\ target' = target
  BY DEF request, answer, target
<1> QED BY <1>1 DEF HeardInv

\* HeardInv, at every step.
THEOREM HeardInvariant == Spec => []HeardInv
<1>1. Init => HeardInv
  BY HeardInit
<1>2. BooksInv /\ HeardInv /\ [Next]_vars => HeardInv'
  <2> SUFFICES ASSUME BooksInv, HeardInv, [Next]_vars PROVE HeardInv'
    OBVIOUS
  <2>1. CASE Served
    BY <2>1, HeardServed
  <2>2. CASE ReadLine
    BY <2>2, HeardReadLine
  <2>3. CASE FailsAloud
    BY <2>3, HeardFailsAloud
  <2>4. CASE Connect \/ Attempt \/ Backoff \/ Failed \/ Rejected \/ ForwardError \/ Ends \/ Breaks \/ ForwardWhole
    BY <2>4, HeardElsewhere
  <2>5. CASE Leave
    <3>1. UNCHANGED <<request, step, conn, answer>>
      BY <2>5 DEF Leave, loop
    <3> QED BY <3>1, HeardUntouched
  <2>6. CASE UNCHANGED vars
    <3>1. UNCHANGED <<request, step, conn, answer>>
      BY <2>6 DEF vars, loop
    <3> QED BY <3>1, HeardUntouched
  <2> QED BY <2>1, <2>2, <2>3, <2>4, <2>5, <2>6 DEF Next
<1> QED BY <1>1, <1>2, BooksInvariant, PTL DEF Spec

\* A stream in the client's own format is passed on as it is.
LEMMA SameIsHeard ==
  ASSUME sent = said, source = target
  PROVE  WhatIsSaidIsHeard
BY DEF WhatIsSaidIsHeard

\* A translated one tells the same.
LEMMA HeededIsHeard ==
  ASSUME source \in Clients, target \in Wires, source # target,
         Heeded(target, source, said, sent, upstreamState, clientState)
  PROVE  WhatIsSaidIsHeard
<1>1. /\ WordsHeard(target, source, said, sent) /\ EndsTold(target, said, sent, upstreamState)
      /\ target # "gemini" => Opened(target, said, upstreamState)
  BY DEF Heeded
<1>2. /\ TextIn(sent) = TextIn(said)
      /\ source # "gemini" => ThinkingIn(sent) = ThinkingIn(said) /\ CallsIn(source, sent) = CallsIn(target, said)
      /\ source # "gemini" /\ target # "gemini" => Announced(sent) = Announced(said)
  BY <1>1, WordsAre
<1>3. Finished(sent) => CutShort(sent) = CutShort(said)
  BY <1>1, EndsTell
<1>4. ASSUME source = "gemini", Finished(sent)
      PROVE  /\ CallsIn("gemini", sent) = CallsIn(target, said)
             /\ \A c \in CallsIn(target, said) : ArgumentsIn("gemini", sent, c) = ArgumentsIn(target, said, c)
  <2>1. Argued(said) /\ Gathers(target, said, sent, clientState)
    BY <1>1, <1>4 DEF Heeded, Opened
  <2> QED BY <1>4, <2>1, GathersTell
<1>5. ASSUME <<target, source>> = <<"openai", "claude">>
      PROVE  \A c \in CallsIn(target, said) : ArgumentsIn(source, sent, c) = ArgumentsIn(target, said, c)
  BY <1>5 DEF Heeded, Passes
<1>6. Hears(source, "thinking") => source # "gemini"
  BY DEF Hears
<1> QED BY <1>2, <1>3, <1>4, <1>5, <1>6 DEF WhatIsSaidIsHeard

\* A client that streams hears what its provider says.
THEOREM WhatIsSaidIsHeardHolds == Spec => []WhatIsSaidIsHeard
<1>1. BooksInv /\ HeardInv => WhatIsSaidIsHeard
  <2> SUFFICES ASSUME BooksInv, HeardInv PROVE WhatIsSaidIsHeard
    OBVIOUS
  <2>1. source \in Clients /\ target \in Wires
    BY DEF BooksInv, target
  <2>2. CASE step # "stream"
    BY <2>2 DEF WhatIsSaidIsHeard
  <2>3. CASE step = "stream" /\ source = target
    BY <2>3, SameIsHeard DEF HeardInv
  <2>4. CASE step = "stream" /\ source # target
    BY <2>1, <2>4, HeededIsHeard DEF HeardInv
  <2> QED BY <2>2, <2>3, <2>4
<1> QED BY <1>1, BooksInvariant, HeardInvariant, PTL

=============================================================================
