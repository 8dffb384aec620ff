---------------------------- MODULE Translation ----------------------------
(***************************************************************************)
(* The protocol package (internal/protocol): a client's conversation from  *)
(* its own format through the intermediate representation into the format  *)
(* of a provider, and an answer back.  OpenAI's parser meets only          *)
(* Anthropic's builder and the other way round: with equal formats the     *)
(* body is passed on as it is (module Routing, FormatsMatch).              *)
(*                                                                         *)
(* A text, an image or a call is a model value.  Texts that the code joins *)
(* stay a sequence of blocks.  Sampling parameters, tool declarations, and *)
(* a call's name and arguments go through unchanged and are left out.      *)
(***************************************************************************)
EXTENDS Integers, SequencesExt

CONSTANTS
  Texts,      \* texts of users and providers
  Images,     \* images, by URL or by their data
  Calls,      \* identifiers of tool calls; also stand for what the tool returns
  Empty,      \* the empty text, and an image without URL and data
  NoCall      \* no call

ASSUME EmptyAssumption == Empty \notin Texts \union Images \union Calls
ASSUME CallAssumption  == NoCall \notin Calls

ContentTypes == {"text", "image", "tool_use", "tool_result", "thinking"}
Refs  == Texts \union Images \union Calls \union {Empty}

\* The canonical block, and the blocks of an Anthropic message.
ContentBlock == [kind : ContentTypes, ref : Refs, call : Calls \union {NoCall}]

Text(t)      == [kind |-> "text", ref |-> t, call |-> NoCall]
Image(i)     == [kind |-> "image", ref |-> i, call |-> NoCall]
Use(c)       == [kind |-> "tool_use", ref |-> Empty, call |-> c]
Result(c, t) == [kind |-> "tool_result", ref |-> t, call |-> c]
Thinking     == [kind |-> "thinking", ref |-> Empty, call |-> NoCall]

Roles == {"system", "user", "assistant", "tool"}

\* A message of either format, and of the intermediate representation.  Only
\* OpenAI's has calls and callId; its content has texts and images alone.
Message == [role : Roles, content : Seq(ContentBlock), calls : Seq(Calls),
            callId : Calls \union {NoCall}]

Msg(role, content) ==
  [role |-> role, content |-> content, calls |-> <<>>, callId |-> NoCall]

Map(Op(_), s) == [i \in DOMAIN s |-> Op(s[i])]
Gather(Op(_), s) == FlattenSeq(Map(Op, s))
FirstOf(s) == IF s = <<>> THEN <<>> ELSE <<s[1]>>

OfKind(blocks, kinds) ==
  Gather(LAMBDA b : IF b.kind \in kinds THEN <<b>> ELSE <<>>, blocks)

Uses(blocks) ==
  Gather(LAMBDA b : IF b.kind = "tool_use" THEN <<b.call>> ELSE <<>>, blocks)

NotSystem(messages) ==
  Gather(LAMBDA m : IF m.role = "system" THEN <<>> ELSE <<m>>, messages)

\* A conversation: Anthropic's system prompt is apart from its messages.
Conversation == [system : Texts \union {Empty}, messages : Seq(Message)]

-----------------------------------------------------------------------------
(* Requests                                                                *)

\* Mutant: tool calls are parsed only in a message without content.
ParseOpenAIMessageEither(m) ==
  Msg(m.role,
      (IF m.content # <<>> THEN m.content ELSE Map(Use, m.calls))
      \o (IF m.callId = NoCall THEN <<>> ELSE <<Result(m.callId, Empty)>>))

\* What a tool returned stays a text, next to a result without one.
ParseOpenAIMessage(m) ==
  Msg(m.role,
      m.content \o Map(Use, m.calls)
      \o (IF m.callId = NoCall THEN <<>> ELSE <<Result(m.callId, Empty)>>))

ParseOpenAIRequest(conv) ==
  [system |-> Empty, messages |-> Map(ParseOpenAIMessage, conv.messages)]

\* Any other kind of block, such as thinking, falls through the switch.
ParseAnthropicRequest(conv) ==
  [ system |-> conv.system,
    messages |-> Map(LAMBDA m : Msg(m.role, OfKind(m.content, ContentTypes \ {"thinking"})),
                     conv.messages) ]

\* The builders of either side know only the other field of an image.
NoImage(b) == IF b.kind = "image" THEN Image(Empty) ELSE b

\* The first text of a system message; a later such message overrides it.
SystemOf(ir) ==
  LET prompts == Gather(LAMBDA m : IF m.role = "system"
                                   THEN FirstOf(OfKind(m.content, {"text"})) ELSE <<>>,
                        ir.messages)
  IN  IF ir.system # Empty \/ prompts = <<>> THEN ir.system ELSE Last(prompts).ref

\* AnthropicAdapter.BuildRequest.  Roles are passed on as they are.
BuildAnthropicRequest(ir) ==
  [ system |-> SystemOf(ir),
    messages |-> Map(LAMBDA m : Msg(m.role, Map(NoImage, m.content)),
                     NotSystem(ir.messages)) ]

\* Mutant: texts before a call are not flushed into the content.
AddBlockUnflushed(m, b) ==
  CASE b.kind = "text"  -> [m EXCEPT !.texts = Append(@, b)]
    [] b.kind = "image" -> [m EXCEPT !.content = Append(m.texts, NoImage(b)), !.texts = <<>>]
    [] b.kind = "tool_use" -> [m EXCEPT !.texts = <<>>, !.calls = Append(@, b.call)]
    [] b.kind = "tool_result" -> [m EXCEPT !.callId = b.call, !.content = <<Text(b.ref)>>]

\* Mutant: the list of calls is assigned where it should be extended.
AddBlockLastCall(m, b) ==
  CASE b.kind = "text"  -> [m EXCEPT !.texts = Append(@, b)]
    [] b.kind = "image" -> [m EXCEPT !.content = Append(m.texts, NoImage(b)), !.texts = <<>>]
    [] b.kind = "tool_use" ->
         [m EXCEPT !.content = IF m.texts = <<>> THEN @ ELSE m.texts,
                   !.texts = <<>>, !.calls = <<b.call>>]
    [] b.kind = "tool_result" -> [m EXCEPT !.callId = b.call, !.content = <<Text(b.ref)>>]

\* One turn of the loop over a message's blocks.  texts is what textContent
\* collects; an image, or texts before a call, replace the content, and so does
\* every result: of several in a message the last one is left.
AddBlock(m, b) ==
  CASE b.kind = "text"  -> [m EXCEPT !.texts = Append(@, b)]
    [] b.kind = "image" -> [m EXCEPT !.content = Append(m.texts, NoImage(b)), !.texts = <<>>]
    [] b.kind = "tool_use" ->
         [m EXCEPT !.content = IF m.texts = <<>> THEN @ ELSE m.texts,
                   !.texts = <<>>, !.calls = Append(@, b.call)]
    [] b.kind = "tool_result" -> [m EXCEPT !.callId = b.call, !.content = <<Text(b.ref)>>]

\* Texts that are left become the content if there is none yet.
BuildOpenAIMessage(m) ==
  LET start == [texts |-> <<>>, content |-> <<>>, calls |-> <<>>, callId |-> NoCall]
      after[n \in 0..Len(m.content)] ==
        IF n = 0 THEN start ELSE AddBlock(after[n - 1], m.content[n])
      end   == after[Len(m.content)]
  IN  [ role |-> m.role, calls |-> end.calls, callId |-> end.callId,
        content |-> IF end.content = <<>> THEN end.texts ELSE end.content ]

\* OpenAIAdapter.BuildRequest: the system prompt becomes the first message.
BuildOpenAIRequest(ir) ==
  [ system |-> Empty,
    messages |-> (IF ir.system = Empty THEN <<>> ELSE <<Msg("system", <<Text(ir.system)>>)>>)
                 \o Map(BuildOpenAIMessage, ir.messages) ]

\* The request a provider gets that speaks the other format.
Translate(format, conv) ==
  IF format = "openai" THEN BuildAnthropicRequest(ParseOpenAIRequest(conv))
                       ELSE BuildOpenAIRequest(ParseAnthropicRequest(conv))

-----------------------------------------------------------------------------
(* Answers                                                                 *)

\* Mutant: a call ends the loop over the blocks.
AnswerToOpenAIClientFirst(m) ==
  [ role |-> "assistant", callId |-> NoCall,
    content |-> FirstOf(OfKind(m.content, {"text"})), calls |-> FirstOf(Uses(m.content)) ]

\* AnthropicAdapter.ParseResponse and irMsgToOpenAI: thinking is dropped, and
\* every text but the first.
AnswerToOpenAIClient(m) ==
  [ role |-> "assistant", callId |-> NoCall,
    content |-> FirstOf(OfKind(m.content, {"text"})), calls |-> Uses(m.content) ]

\* OpenAIAdapter.ParseResponse fills Choices, SerializeAnthropicResponse reads
\* Content: nothing of the answer is left.
AnswerToAnthropicClient(m) == Msg("assistant", <<>>)

TranslateAnswer(format, m) ==
  IF format = "openai" THEN AnswerToOpenAIClient(m) ELSE AnswerToAnthropicClient(m)
=============================================================================
