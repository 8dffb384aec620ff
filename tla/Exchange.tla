------------------------------ MODULE Exchange ------------------------------
(***************************************************************************)
(* A conversation.  The client keeps it in its own format and sends all of *)
(* it with every request; from one request to the next the proxy may       *)
(* choose a provider that speaks the other format (module ProxyHandler),   *)
(* so what one provider answered, another one has to understand.  This is  *)
(* executeBackend (internal/proxy/handler.go) with the conversions of      *)
(* module Translation and the filter of module StreamFilter.               *)
(*                                                                         *)
(* Client and providers are external.  A client returns what every tool    *)
(* produced before it says anything else; it keeps of a stream what it     *)
(* could put together, and asks again after a stream that broke.           *)
(***************************************************************************)
EXTENDS Translation, StreamFilter

CONSTANTS
  Says,        \* what a user may say: sequences of texts and images
  Systems,     \* system prompts, Empty for none
  Replies,     \* what a provider may answer: sequences of blocks
  MaxMessages, \* BOUND: messages of a conversation
  MaxStreamed  \* BOUND: messages before an answer that is streamed

TextBlocks == {Text(x) : x \in Texts}
Spoken     == TextBlocks \union {Image(x) : x \in Images}
Answers    == TextBlocks \union {Use(c) : c \in Calls} \union {Thinking}

ASSUME SaysAssumption    == Says \subseteq Seq(Spoken)
ASSUME SystemsAssumption == Systems \subseteq Texts \union {Empty}
ASSUME RepliesAssumption == Replies \subseteq Seq(Answers)
ASSUME MaxAssumption     == MaxMessages \in Nat /\ MaxStreamed \in Nat
ASSUME BlockAssumption   == Blocks \subseteq Texts \union Calls

VARIABLES
  format,     \* the client's format
  conv,       \* EXTERNAL: the conversation, as the client has it
  provider,   \* the format of the provider that was asked last
  received,   \* what it received
  reply,      \* EXTERNAL: the blocks it answered
  phase       \* "client", "ready", "sent" or "streaming"

exchangeVars == <<format, conv, provider, received, reply, phase>>
allVars == <<exchangeVars, streamVars>>

Nothing == [system |-> Empty, messages |-> <<>>]

CallsOf(m) == m.calls \o Uses(m.content)
AllCalls(messages) == Gather(CallsOf, messages)
Used == ToSet(AllCalls(conv.messages))

\* The calls of the last answer, which the client has not returned results for.
OpenCalls ==
  IF conv.messages = <<>> THEN <<>> ELSE CallsOf(Last(conv.messages))

With(messages) == [conv EXCEPT !.messages = @ \o messages]

-----------------------------------------------------------------------------
(* The client                                                              *)

\* A conversation begins with its system prompt.
Beginning(prompt) ==
  IF format = "anthropic" \/ prompt = Empty
  THEN [Nothing EXCEPT !.system = prompt]
  ELSE [Nothing EXCEPT !.messages = <<Msg("system", <<Text(prompt)>>)>>]

ExchangeInit ==
  /\ StreamInit
  /\ format \in {"openai", "anthropic"}
  /\ conv \in {Beginning(prompt) : prompt \in Systems}
  /\ provider = format
  /\ received = Nothing
  /\ reply = <<>>
  /\ phase = "client"

\* OpenAI clients may give instructions in the middle of a conversation.
Say(content) ==
  /\ phase = "client" /\ OpenCalls = <<>>
  /\ \E role \in {"user"} \union IF format = "openai" THEN {"system"} ELSE {} :
       conv' = With(<<Msg(role, content)>>)
  /\ Len(conv'.messages) < MaxMessages
  /\ reply' = <<>> /\ phase' = "ready"
  /\ UNCHANGED <<format, provider, received, streamVars>>

BeginAgain ==
  /\ phase = "client"
  /\ conv' \in {Beginning(prompt) : prompt \in Systems}
  /\ reply' = <<>>
  /\ UNCHANGED <<format, provider, received, phase, streamVars>>

\* Results are messages of their own, or the first blocks of the user's.
ToolMessage(c) == [Msg("tool", <<Text(c)>>) EXCEPT !.callId = c]

ReturnResults(content) ==
  /\ phase = "client" /\ OpenCalls # <<>>
  /\ conv' = IF format = "openai"
             THEN With(Map(ToolMessage, OpenCalls)
                       \o IF content = <<>> THEN <<>> ELSE <<Msg("user", content)>>)
             ELSE With(<<Msg("user", Map(LAMBDA c : Result(c, c), OpenCalls) \o content)>>)
  /\ Len(conv'.messages) < MaxMessages
  /\ reply' = <<>> /\ phase' = "ready"
  /\ UNCHANGED <<format, provider, received, streamVars>>

-----------------------------------------------------------------------------
(* The proxy                                                               *)

\* Mutant: the fast path is taken for every provider.
SendRaw(p) ==
  /\ phase = "ready"
  /\ provider' = p
  /\ received' = conv
  /\ phase' = "sent"
  /\ UNCHANGED <<format, conv, reply, streamVars>>

\* Equal formats: the body as it is.  Otherwise through the representation.
Send(p) ==
  /\ phase = "ready"
  /\ provider' = p
  /\ received' = IF p = format THEN conv ELSE Translate(format, conv)
  /\ phase' = "sent"
  /\ UNCHANGED <<format, conv, reply, streamVars>>

\* What a provider may answer: fresh calls, and OpenAI at most one text.
MayAnswer(blocks) ==
  /\ \A i \in DOMAIN blocks : blocks[i].kind = "tool_use" => blocks[i].call \notin Used
  /\ provider = "openai" =>
       /\ OfKind(blocks, {"thinking"}) = <<>>
       /\ Len(OfKind(blocks, {"text"})) <= 1

\* The provider's own message, in its own format.
Answer(blocks) ==
  IF provider = "anthropic" THEN Msg("assistant", blocks)
  ELSE [ Msg("assistant", OfKind(blocks, {"text"}))
           EXCEPT !.calls = Uses(blocks) ]

AnswerWhole(blocks) ==
  /\ phase = "sent" /\ MayAnswer(blocks)
  /\ reply' = blocks
  /\ conv' = With(<<IF provider = format THEN Answer(blocks)
                    ELSE TranslateAnswer(format, Answer(blocks))>>)
  /\ received' = Nothing /\ phase' = "client"
  /\ UNCHANGED <<format, provider, streamVars>>

\* Lost, refused, or a stream of the other format, which is never translated:
\* the client gets nothing it can use and asks again.
Unanswered ==
  /\ phase = "sent"
  /\ received' = Nothing /\ phase' = "ready"
  /\ UNCHANGED <<format, conv, provider, reply, streamVars>>

\* OpenAI streams to OpenAI clients are copied: the same as a whole answer.
StreamAnswer ==
  /\ phase = "sent" /\ format = "anthropic" /\ provider = "anthropic"
  /\ Len(conv.messages) <= MaxStreamed
  /\ StreamBegins
  /\ phase' = "streaming"
  /\ UNCHANGED <<format, conv, provider, received, reply>>

Started == {i \in DOMAIN input : input[i].type = "content_block_start"}

PassEvents ==
  /\ phase = "streaming"
  /\ \/ \E e \in Event :
          /\ (e.type = "content_block_start" /\ e.block \in Calls)
               => e.block \notin Used \union {input[i].block : i \in Started}
          /\ ReadEvent(e) \/ BreaksInEvent(e)
     \/ StreamEnds \/ LineTooLong
  /\ UNCHANGED exchangeVars

BlockOf(e) ==
  IF e.block = "thinking" THEN Thinking
  ELSE IF e.block \in Calls THEN Use(e.block) ELSE Text(e.block)

\* The blocks that the events at these positions start.
BlocksAt(positions) ==
  FlattenSeq([i \in DOMAIN input |->
                IF i \in positions THEN <<BlockOf(input[i])>> ELSE <<>>])

\* The client keeps what it put together of a complete stream.
TakeStream ==
  /\ phase = "streaming" /\ stream = "complete"
  /\ StreamReturns
  /\ reply' = BlocksAt(Started)
  /\ conv' = With(<<Msg("assistant", BlocksAt(Started \intersect sent))>>)
  /\ received' = Nothing /\ phase' = "client"
  /\ UNCHANGED <<format, provider>>

DropStream ==
  /\ phase = "streaming" /\ stream \in {"cut", "overlong"}
  /\ StreamReturns
  /\ received' = Nothing /\ phase' = "ready"
  /\ UNCHANGED <<format, conv, provider, reply>>

ExchangeNext ==
  \/ BeginAgain
  \/ \E content \in Says : Say(content)
  \/ \E content \in Says \union {<<>>} : ReturnResults(content)
  \/ \E p \in {"openai", "anthropic"} : Send(p)
  \/ \E blocks \in Replies : AnswerWhole(blocks)
  \/ Unanswered \/ StreamAnswer \/ PassEvents \/ TakeStream \/ DropStream

ExchangeSpec == ExchangeInit /\ [][ExchangeNext]_allVars

-----------------------------------------------------------------------------
\* Types; and no block that OpenAI does not have is in its messages.
ExchangeTypeOK ==
  /\ format \in {"openai", "anthropic"} /\ provider \in {"openai", "anthropic"}
  /\ conv \in Conversation /\ received \in Conversation
  /\ reply \in Seq(ContentBlock)
  /\ phase \in {"client", "ready", "sent", "streaming"}
  /\ stream # "idle" <=> phase = "streaming"
  /\ \A m \in (IF format = "openai" THEN ToSet(conv.messages) ELSE {})
        \union (IF provider = "openai" THEN ToSet(received.messages) ELSE {}) :
       \A i \in DOMAIN m.content : m.content[i].kind \in {"text", "image"}

ResultsOf(m) ==
  {b.call : b \in ToSet(OfKind(m.content, {"tool_result"}))} \union ({m.callId} \ {NoCall})

TextsOf(m) ==
  Gather(LAMBDA b : IF b.kind \in {"text", "tool_result"} /\ b.ref # Empty
                    THEN <<b.ref>> ELSE <<>>, m.content)

(***************************************************************************)
(* Whichever providers took turns, and whether they answered as a whole or *)
(* as a stream, a provider receives every call of the client's             *)
(* conversation, in the order they were made (openai_adapter.go:69,        *)
(* anthropic_adapter.go:77).                                               *)
(***************************************************************************)
CallsSurvive ==
  phase = "sent" => AllCalls(received.messages) = AllCalls(conv.messages)

(***************************************************************************)
(* A result that a provider receives belongs to a call it received before, *)
(* though the call was perhaps made by a provider of the other format, and *)
(* identifiers passed through two translations and a stream; otherwise the *)
(* provider refuses the request, now and for the rest of the conversation. *)
(***************************************************************************)
NoOrphanResults ==
  \A i \in DOMAIN received.messages : \A c \in ResultsOf(received.messages[i]) :
    \E j \in 1..(i - 1) : c \in ToSet(CallsOf(received.messages[j]))

\* Texts alone, texts before calls, or one result alone.
Plain(m) ==
  /\ OfKind(m.content, {"image", "thinking"}) = <<>>
  /\ \A i \in DOMAIN m.content : m.content[i].kind = "tool_result" => Len(m.content) = 1
  /\ \A i, j \in DOMAIN m.content :
       (i < j /\ m.content[j].kind = "text") => m.content[i].kind = "text"

(***************************************************************************)
(* Translation may lose texts next to results and after calls, and all     *)
(* results of a message but the last, but nothing of a message that has    *)
(* none of these: its texts, calls and results arrive, in their order and  *)
(* at their place in the conversation.                                     *)
(***************************************************************************)
PlainTurnsSurvive ==
  LET mine   == NotSystem(conv.messages)
      theirs == NotSystem(received.messages)
  IN  phase = "sent" =>
        /\ Len(theirs) = Len(mine)
        /\ \A i \in DOMAIN mine : Plain(mine[i]) =>
             /\ theirs[i].role = mine[i].role
             /\ TextsOf(theirs[i]) = TextsOf(mine[i])
             /\ CallsOf(theirs[i]) = CallsOf(mine[i])
             /\ ResultsOf(theirs[i]) = ResultsOf(mine[i])

\* What of an answer has to reach the client: its calls, and some text if any.
Reached(m) ==
  /\ CallsOf(m) = CallsOf(Msg("assistant", reply))
  /\ OfKind(reply, {"text"}) # <<>> => TextsOf(m) # <<>>

Answered == phase = "client" /\ reply # <<>>

(***************************************************************************)
(* An OpenAI client gets the calls and a text of every answer, and so does *)
(* an Anthropic client of an Anthropic provider, streamed or not, so that  *)
(* it can go on with the conversation.  An Anthropic client of an OpenAI   *)
(* provider gets an empty message, whatever the answer was: its            *)
(* conversation goes on as if nothing had been said.                       *)
(***************************************************************************)
AnswersArrive ==
  Answered => IF format = "openai" \/ provider = format
              THEN Reached(Last(conv.messages))
              ELSE Last(conv.messages) = Msg("assistant", <<>>)
=============================================================================
