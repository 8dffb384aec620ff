--------------------------- MODULE ExchangeProofs ---------------------------
(***************************************************************************)
(* Proofs about StreamFilter, for every set of indices and of blocks and   *)
(* for streams of any length, and about the conversations of Exchange.     *)
(*                                                                         *)
(* The filter decides from the one event it looks at and from the indices  *)
(* it remembers; that these are the open thinking blocks makes the         *)
(* decision right.  That the client can follow needs, besides, that of     *)
(* every other open block it got the start and no stop since (Followed).   *)
(*                                                                         *)
(* Exchange uses the filter as a component: each of its steps is a step of *)
(* the filter or leaves it alone, so what is proved about the filter holds *)
(* in every conversation.                                                  *)
(*                                                                         *)
(* What a conversation keeps is not inductive either.  CInv adds where     *)
(* every message comes from: what a client keeps has no orphan result;     *)
(* what the provider got is that conversation or its translation; of a     *)
(* complete stream the filter withheld thinking only, so that the blocks   *)
(* the client gathers are those that were streamed.  TranslationProofs     *)
(* says what a conversion leaves of such a conversation.                   *)
(***************************************************************************)
EXTENDS TranslationProofs

\* Of the events es, those at the positions ps were sent: the one at j starts
\* the block that is open at index x before position n.
Starts(es, ps, j, x, n) ==
  /\ j < n
  /\ es[j].type = "content_block_start"
  /\ es[j].index = x
  /\ \A k \in ps : (j < k /\ k < n) =>
       ~ (es[k].type = "content_block_stop" /\ es[k].index = x)

\* The event at i is one whose block the client has to know.
Refers(es, i) ==
  /\ es[i].type \in {"content_block_delta", "content_block_stop"}
  /\ es[i].delta # "signature_delta"

\* What the client knows of the open blocks.
Followed ==
  stream = "open" =>
    \A x \in Indices : open[x] \notin {"none", "thinking"} =>
      \E j \in sent : Starts(input, sent, j, x, Next1)

\* Between two streams nothing is remembered.
Resting ==
  stream = "idle" => /\ input = <<>> /\ sent = {} /\ thinking = {}
                     /\ open = NoBlocks

IInv == StreamTypeOK /\ Resting /\ ThinkingStripped /\ ClientCanFollow /\ Followed

-----------------------------------------------------------------------------
\* An event that is appended leaves the earlier ones where they are.
LEMMA Appended ==
  ASSUME NEW s \in Seq(Event), NEW e \in Event
  PROVE  /\ Append(s, e) \in Seq(Event)
         /\ Len(s) \in Nat /\ Len(Append(s, e)) = Len(s) + 1
         /\ Append(s, e)[Len(s) + 1] = e
         /\ \A i \in 1..Len(s) : Append(s, e)[i] = s[i]
OBVIOUS

\* The backend's blocks stay blocks.
LEMMA Blocks1Facts ==
  ASSUME StreamTypeOK, NEW e \in Event, Sends(e)
  PROVE  Blocks1(e) \in [Indices -> Kinds]
<1>1. open \in [Indices -> Kinds] BY DEF StreamTypeOK
<1>2. e.index \in Indices /\ e.block \in Kinds BY DEF Event
<1>3. "none" \in Kinds BY DEF Kinds
<1> QED BY <1>1, <1>2, <1>3 DEF Blocks1

\* The filter drops an event exactly if it is of a thinking block and no
\* signature.
LEMMA SkipsFacts ==
  ASSUME StreamTypeOK, stream = "open", NEW e \in Event, Sends(e)
  PROVE  Skips(e) <=> e.block = "thinking" /\ e.delta # "signature_delta"
<1>1. thinking = {x \in Indices : open[x] = "thinking"} BY DEF StreamTypeOK
<1>2. e.index \in Indices /\ e.type \in Types BY DEF Event
<1>3. CASE e.type = "content_block_start" BY <1>3 DEF Skips, Sends
<1>4. CASE e.type = "content_block_delta" BY <1>4 DEF Skips, Sends
<1>5. CASE e.type = "content_block_stop" BY <1>1, <1>2, <1>5 DEF Skips, Sends
<1>6. CASE e.type = "other" BY <1>6 DEF Skips, Sends
<1> QED BY <1>2, <1>3, <1>4, <1>5, <1>6 DEF Types

\* What it remembers stays the open thinking blocks.
LEMMA RemembersFacts ==
  ASSUME StreamTypeOK, stream = "open", NEW e \in Event, Sends(e)
  PROVE  Remembers(e) = {x \in Indices : Blocks1(e)[x] = "thinking"}
<1>1. thinking = {x \in Indices : open[x] = "thinking"} BY DEF StreamTypeOK
<1>2. e.index \in Indices /\ e.type \in Types BY DEF Event
<1>3. open \in [Indices -> Kinds] BY DEF StreamTypeOK
<1>4. CASE e.type = "content_block_start" /\ e.block = "thinking"
  BY <1>1, <1>2, <1>3, <1>4 DEF Remembers, Blocks1
<1>5. CASE e.type = "content_block_start" /\ e.block # "thinking"
  BY <1>1, <1>2, <1>3, <1>5 DEF Remembers, Blocks1, Sends
<1>6. CASE e.type = "content_block_stop"
  BY <1>1, <1>2, <1>3, <1>6 DEF Remembers, Blocks1
<1>7. CASE e.type \notin {"content_block_start", "content_block_stop"}
  BY <1>1, <1>7 DEF Remembers, Blocks1
<1> QED BY <1>4, <1>5, <1>6, <1>7

-----------------------------------------------------------------------------
LEMMA StreamInitially == StreamInit => IInv
<1> SUFFICES ASSUME StreamInit PROVE IInv OBVIOUS
<1>1. NoBlocks \in [Indices -> Kinds] BY DEF NoBlocks, Kinds
<1>2. StreamTypeOK BY <1>1 DEF StreamInit, StreamTypeOK
<1> QED BY <1>2 DEF StreamInit, IInv, Resting, ThinkingStripped, ClientCanFollow, Followed

\* A whole event.
LEMMA ReadEventKeeps ==
  ASSUME IInv, NEW e \in Event, ReadEvent(e)
  PROVE  IInv'
<1> USE DEF IInv
<1> DEFINE n == Next1
<1>1. /\ input \in Seq(Event) /\ sent \subseteq 1..Len(input)
      /\ stream = "open" /\ stream' = "open" /\ Sends(e)
  BY DEF StreamTypeOK, ReadEvent
<1>2. /\ input' = Append(input, e) /\ open' = Blocks1(e) /\ thinking' = Remembers(e)
      /\ sent' = IF Skips(e) THEN sent ELSE sent \union {n}
  BY DEF ReadEvent
<1>3. /\ Len(input) \in Nat /\ n = Len(input) + 1 /\ Len(input') = n
      /\ input'[n] = e /\ \A i \in 1..Len(input) : input'[i] = input[i]
      /\ input' \in Seq(Event)
  BY <1>1, <1>2, Appended DEF Next1
<1>4. e.index \in Indices /\ e.type \in Types BY DEF Event
<1>5. Skips(e) <=> e.block = "thinking" /\ e.delta # "signature_delta"
  BY <1>1, SkipsFacts
<1>6. n \notin sent /\ sent \subseteq sent' /\ sent' \subseteq sent \union {n}
      /\ (n \in sent' <=> ~ Skips(e))
  BY <1>1, <1>2, <1>3
<1>7. StreamTypeOK'
  <2>1. sent' \subseteq 1..Len(input') BY <1>1, <1>3, <1>6
  <2>2. open' \in [Indices -> Kinds] BY <1>1, <1>2, Blocks1Facts
  <2>3. thinking' = {x \in Indices : open'[x] = "thinking"}
    BY <1>1, <1>2, RemembersFacts
  <2> QED BY <1>1, <1>3, <2>1, <2>2, <2>3 DEF StreamTypeOK
<1>8. Resting' BY <1>1 DEF Resting
<1>9. ThinkingStripped'
  <2> SUFFICES ASSUME NEW i \in 1..Len(input')
               PROVE  i \in sent' <=> \/ input'[i].block # "thinking"
                                      \/ input'[i].delta = "signature_delta"
    BY <1>1 DEF ThinkingStripped
  <2>1. CASE i = n BY <1>3, <1>5, <1>6, <2>1
  <2>2. CASE i # n
    <3>1. i \in 1..Len(input) BY <1>3, <2>2
    <3>2. i \in sent <=> \/ input[i].block # "thinking"
                         \/ input[i].delta = "signature_delta"
      BY <1>1, <3>1 DEF ThinkingStripped
    <3> QED BY <1>3, <1>6, <2>2, <3>1, <3>2
  <2> QED BY <2>1, <2>2
<1>10. \A j \in sent, x \in Indices, i \in 1..n :
         Starts(input, sent, j, x, i) => Starts(input', sent', j, x, i)
  BY <1>1, <1>3, <1>6 DEF Starts
<1>11. ClientCanFollow'
  <2> SUFFICES ASSUME NEW i \in sent', Refers(input', i)
               PROVE  \E j \in sent' : Starts(input', sent', j, input'[i].index, i)
    BY DEF ClientCanFollow, Refers, Starts
  <2>1. CASE i = n
    <3>1. e.block \notin {"none", "thinking"} /\ open[e.index] = e.block
      BY <1>1, <1>3, <1>5, <1>6, <2>1 DEF Refers, Sends
    <3> QED BY <1>1, <1>3, <1>4, <1>6, <1>10, <2>1, <3>1 DEF Followed
  <2>2. CASE i # n
    <3>1. i \in sent /\ i \in 1..Len(input) /\ input'[i] = input[i]
      BY <1>1, <1>3, <1>6, <2>2
    <3>2. \E j \in sent : Starts(input, sent, j, input[i].index, i)
      BY <1>1, <3>1 DEF ClientCanFollow, Refers, Starts
    <3>3. input[i] \in Event BY <1>1, <3>1
    <3>4. input[i].index \in Indices BY <3>3 DEF Event
    <3> QED BY <1>3, <1>6, <1>10, <3>1, <3>2, <3>4
  <2> QED BY <2>1, <2>2
<1>12. Followed'
  <2> SUFFICES ASSUME NEW x \in Indices, open'[x] \notin {"none", "thinking"}
               PROVE  \E j \in sent' : Starts(input', sent', j, x, n + 1)
    BY <1>3 DEF Followed, Next1
  <2>1. open \in [Indices -> Kinds] BY DEF StreamTypeOK
  <2>2. CASE e.type = "content_block_start" /\ e.index = x
    <3>1. e.block # "thinking" BY <1>2, <2>1, <2>2 DEF Blocks1
    <3>2. n \in sent' BY <1>5, <1>6, <3>1
    <3>3. \A k \in sent' : ~ (n < k /\ k < n + 1) BY <1>1, <1>3, <1>6
    <3> QED BY <1>3, <2>2, <3>2, <3>3 DEF Starts
  <2>3. CASE ~ (e.type = "content_block_start" /\ e.index = x)
    <3>1. open'[x] = open[x] /\ ~ (e.type = "content_block_stop" /\ e.index = x)
      BY <1>2, <1>4, <2>1, <2>3 DEF Blocks1
    <3>2. PICK j \in sent : Starts(input, sent, j, x, n)
      BY <1>1, <3>1 DEF Followed
    <3>3. Starts(input', sent', j, x, n) BY <1>3, <1>10, <3>2
    <3>4. Starts(input', sent', j, x, n + 1)
      BY <1>1, <1>3, <1>6, <3>1, <3>3 DEF Starts
    <3> QED BY <1>6, <3>4
  <2> QED BY <2>2, <2>3
<1> QED BY <1>7, <1>8, <1>9, <1>11, <1>12

\* An event that the end of the stream cuts short.
LEMMA BreaksInEventKeeps ==
  ASSUME IInv, NEW e \in Event, BreaksInEvent(e)
  PROVE  IInv'
<1> USE DEF IInv
<1> DEFINE n == Next1
<1>1. /\ input \in Seq(Event) /\ sent \subseteq 1..Len(input)
      /\ stream = "open" /\ stream' = "cut" /\ Sends(e)
  BY DEF StreamTypeOK, BreaksInEvent
<1>2. /\ input' = Append(input, e) /\ open' = Blocks1(e) /\ thinking' = thinking
      /\ sent' = sent \union {n}
  BY DEF BreaksInEvent
<1>3. /\ Len(input) \in Nat /\ n = Len(input) + 1 /\ Len(input') = n
      /\ \A i \in 1..Len(input) : input'[i] = input[i]
      /\ input' \in Seq(Event)
  BY <1>1, <1>2, Appended DEF Next1
<1>4. StreamTypeOK'
  <2>1. open' \in [Indices -> Kinds] BY <1>1, <1>2, Blocks1Facts
  <2>2. sent' \subseteq 1..Len(input')
    <3>1. 1..Len(input) \subseteq 1..n /\ n \in 1..n BY <1>3
    <3> HIDE DEF n
    <3> QED BY <1>1, <1>2, <1>3, <3>1
  <2>3. thinking' \subseteq Indices BY <1>2 DEF StreamTypeOK
  <2> QED BY <1>1, <1>3, <2>1, <2>2, <2>3 DEF StreamTypeOK
<1>5. ThinkingStripped'
  <2> SUFFICES ASSUME NEW i \in 1..Len(input'), i # n
               PROVE  i \in sent' <=> \/ input'[i].block # "thinking"
                                      \/ input'[i].delta = "signature_delta"
    BY <1>1, <1>2, <1>3 DEF ThinkingStripped
  <2>1. i \in 1..Len(input) BY <1>3
  <2> QED BY <1>1, <1>2, <1>3, <2>1 DEF ThinkingStripped
<1>6. ClientCanFollow'
  <2> SUFFICES ASSUME NEW i \in sent', i < n, Refers(input', i)
               PROVE  \E j \in sent' : Starts(input', sent', j, input'[i].index, i)
    BY <1>1, <1>3 DEF ClientCanFollow, Refers, Starts
  <2>1. i \in sent /\ i \in 1..Len(input) BY <1>1, <1>2, <1>3
  <2>2. PICK j \in sent : Starts(input, sent, j, input[i].index, i)
    BY <1>1, <1>3, <2>1 DEF ClientCanFollow, Refers, Starts
  <2>3. Starts(input', sent', j, input'[i].index, i)
    BY <1>1, <1>2, <1>3, <2>1, <2>2 DEF Starts
  <2> QED BY <1>2, <2>3
<1>7. Resting' /\ Followed' BY <1>1 DEF Resting, Followed
<1> QED BY <1>4, <1>5, <1>6, <1>7

\* Steps that leave events and blocks alone.
LEMMA StreamEndKeeps ==
  ASSUME IInv, StreamEnds \/ LineTooLong
  PROVE  IInv'
<1> USE DEF IInv
<1>1. /\ stream = "open" /\ stream' \in {"complete", "cut", "overlong"}
      /\ UNCHANGED <<input, sent, thinking, open>>
  BY DEF StreamEnds, LineTooLong
<1>2. StreamTypeOK' BY <1>1 DEF StreamTypeOK
<1>3. ThinkingStripped' BY <1>1 DEF ThinkingStripped
<1>4. ClientCanFollow' BY <1>1 DEF ClientCanFollow
<1>5. Resting' /\ Followed' BY <1>1 DEF Resting, Followed
<1> QED BY <1>2, <1>3, <1>4, <1>5

LEMMA StreamBeginsKeeps ==
  ASSUME IInv, StreamBegins
  PROVE  IInv'
<1>1. /\ stream' = "open" /\ input' = <<>> /\ sent' = {} /\ thinking' = {}
      /\ open' = NoBlocks
  BY DEF IInv, Resting, StreamBegins
<1>2. open' \in [Indices -> Kinds] /\ \A x \in Indices : open'[x] = "none"
  BY <1>1 DEF NoBlocks, Kinds
<1> QED BY <1>1, <1>2
      DEF IInv, StreamTypeOK, Resting, ThinkingStripped, ClientCanFollow, Followed

LEMMA StreamReturnsKeeps ==
  ASSUME IInv, StreamReturns
  PROVE  IInv'
<1>1. /\ stream' = "idle" /\ input' = <<>> /\ sent' = {} /\ thinking' = {}
      /\ open' = NoBlocks
  BY DEF StreamReturns
<1>2. NoBlocks \in [Indices -> Kinds] BY DEF NoBlocks, Kinds
<1> QED BY <1>1, <1>2
      DEF IInv, StreamTypeOK, Resting, ThinkingStripped, ClientCanFollow, Followed

LEMMA StreamKeeps == IInv /\ [StreamNext]_streamVars => IInv'
<1> SUFFICES ASSUME IInv, [StreamNext]_streamVars PROVE IInv' OBVIOUS
<1>1. CASE StreamBegins BY <1>1, StreamBeginsKeeps
<1>2. ASSUME NEW e \in Event, ReadEvent(e) PROVE IInv' BY <1>2, ReadEventKeeps
<1>3. ASSUME NEW e \in Event, BreaksInEvent(e) PROVE IInv' BY <1>3, BreaksInEventKeeps
<1>4. CASE StreamEnds \/ LineTooLong BY <1>4, StreamEndKeeps
<1>5. CASE StreamReturns BY <1>5, StreamReturnsKeeps
<1>6. CASE UNCHANGED streamVars
  BY <1>6 DEF streamVars, IInv, StreamTypeOK, Resting, ThinkingStripped,
              ClientCanFollow, Followed, Starts, Next1
<1> QED BY <1>1, <1>2, <1>3, <1>4, <1>5, <1>6 DEF StreamNext

-----------------------------------------------------------------------------
(***************************************************************************)
(* The filter of streamAnthropicFiltered (handler.go:435) remembers the    *)
(* open thinking blocks and no others, the client gets the events of all   *)
(* other blocks and none of those but signatures, and it can follow what   *)
(* it gets.                                                                *)
(***************************************************************************)
THEOREM FilterCorrect ==
  StreamSpec => [](StreamTypeOK /\ ThinkingStripped /\ ClientCanFollow)
<1>1. IInv => StreamTypeOK /\ ThinkingStripped /\ ClientCanFollow BY DEF IInv
<1> QED BY StreamInitially, StreamKeeps, <1>1, PTL DEF StreamSpec

-----------------------------------------------------------------------------
(* Conversations                                                           *)

\* Whatever client, proxy and providers do to the conversation.
LEMMA StepsOfTheFilter == ExchangeNext => [StreamNext]_streamVars
<1> SUFFICES ASSUME ExchangeNext PROVE StreamNext \/ UNCHANGED streamVars OBVIOUS
<1>1. CASE BeginAgain BY <1>1 DEF BeginAgain
<1>2. ASSUME NEW content \in Says, Say(content) PROVE UNCHANGED streamVars
  BY <1>2 DEF Say
<1>3. ASSUME NEW content \in Says \union {<<>>}, ReturnResults(content)
      PROVE  UNCHANGED streamVars
  BY <1>3 DEF ReturnResults
<1>4. ASSUME NEW p \in {"openai", "anthropic"}, Send(p) PROVE UNCHANGED streamVars
  BY <1>4 DEF Send
<1>5. ASSUME NEW blocks \in Replies, AnswerWhole(blocks) PROVE UNCHANGED streamVars
  BY <1>5 DEF AnswerWhole
<1>6. CASE Unanswered BY <1>6 DEF Unanswered
<1>7. CASE StreamAnswer BY <1>7 DEF StreamAnswer, StreamNext
<1>8. CASE PassEvents BY <1>8 DEF PassEvents, StreamNext
<1>9. CASE TakeStream BY <1>9 DEF TakeStream, StreamNext
<1>10. CASE DropStream BY <1>10 DEF DropStream, StreamNext
<1> QED BY <1>1, <1>2, <1>3, <1>4, <1>5, <1>6, <1>7, <1>8, <1>9, <1>10 DEF ExchangeNext

(***************************************************************************)
(* A conversation runs the filter as it is specified, one stream after the *)
(* other, with nothing left over from the one before.                      *)
(***************************************************************************)
THEOREM ExchangeRunsTheFilter == ExchangeSpec => StreamSpec
<1>1. ExchangeInit => StreamInit BY DEF ExchangeInit
<1>2. [ExchangeNext]_allVars => [StreamNext]_streamVars
  BY StepsOfTheFilter DEF allVars, streamVars
<1> QED BY <1>1, <1>2, PTL DEF ExchangeSpec, StreamSpec

(***************************************************************************)
(* In every conversation, an Anthropic client of an Anthropic provider     *)
(* gets the streams that FilterCorrect describes (handler.go:223, 435).    *)
(***************************************************************************)
THEOREM ConversationsAreFiltered ==
  ExchangeSpec => [](StreamTypeOK /\ ThinkingStripped /\ ClientCanFollow)
BY ExchangeRunsTheFilter, FilterCorrect, PTL

(***************************************************************************)
(* In every conversation what the filter remembers of an open stream is    *)
(* the indices of its open thinking blocks (handler.go:447, 463).          *)
(***************************************************************************)
THEOREM FilterRemembers == ExchangeSpec => []StreamTypeOK
BY ConversationsAreFiltered, PTL

-----------------------------------------------------------------------------
(* Conversations and requests                                              *)

MessagesOf(f) == IF f = "openai" THEN OpenAIMessages ELSE AnthropicMessages

\* A conversation as a client of the format f keeps it.
Kept(f, c) ==
  /\ c = [system |-> c.system, messages |-> c.messages]
  /\ c.system \in Texts \union {Empty} /\ (f = "openai" => c.system = Empty)
  /\ c.messages \in Seq(MessagesOf(f))
  /\ Orphanless(c.messages)

\* A request as a provider of the format p gets it.
Asked(p, r) ==
  /\ r = [system |-> r.system, messages |-> r.messages]
  /\ r.system \in Texts \union {Empty}
  /\ r.messages \in Seq(Messages)
  /\ p = "openai" =>
       \A i \in DOMAIN r.messages : r.messages[i].content \in Seq(Shown)
  /\ Orphanless(r.messages)

LEMMA MessagesOfFacts ==
  ASSUME NEW f
  PROVE  /\ MessagesOf(f) \subseteq Messages
         /\ \A s \in Seq(MessagesOf(f)) : s \in Seq(Messages)
BY MessageKinds, SeqMonotonic DEF MessagesOf

\* Nothing needs translation.
LEMMA AskedAsKept ==
  ASSUME NEW f, NEW c, Kept(f, c) PROVE Asked(f, c)
<1>1. c.messages \in Seq(Messages) BY MessagesOfFacts DEF Kept
<1>2. ASSUME f = "openai", NEW i \in DOMAIN c.messages
      PROVE  c.messages[i].content \in Seq(Shown)
  <2>1. c.messages \in Seq(OpenAIMessages) BY <1>2 DEF Kept, MessagesOf
  <2>2. c.messages[i] \in OpenAIMessages BY <1>2, <2>1
  <2> QED BY <2>2 DEF OpenAIMessages
<1> QED BY <1>1, <1>2 DEF Kept, Asked

LEMMA NothingIsAsked == ASSUME NEW p PROVE Asked(p, Nothing)
<1>1. <<>> \in Seq(Messages) /\ DOMAIN <<>> = {} BY EmptySeq
<1> QED BY <1>1 DEF Asked, Nothing, Orphanless

\* What a request loses on its way is neither a call nor anything of a plain turn.
Arrives(c, r) ==
  /\ AllCalls(r.messages) = AllCalls(c.messages)
  /\ SamePlainTurns(NotSystem(c.messages), NotSystem(r.messages))

LEMMA ToAnthropicArrives ==
  ASSUME NEW c, Kept("openai", c)
  PROVE  Asked("anthropic", Translate("openai", c)) /\ Arrives(c, Translate("openai", c))
<1> DEFINE r == Translate("openai", c)  s == c.messages
<1>1. s \in Seq(OpenAIMessages) /\ Orphanless(s) BY DEF Kept, MessagesOf
<1>2. r = BuildAnthropicRequest(ParseOpenAIRequest(c)) BY DEF Translate
<1>3. r.messages = GatherBy(ToAnthropicF, s) BY <1>1, <1>2, AnthropicRequest
<1>4. r.system \in Texts \union {Empty} BY <1>1, <1>2, AnthropicRequestSystem
<1>5. r = [system |-> r.system, messages |-> r.messages]
  BY <1>2 DEF BuildAnthropicRequest
<1> HIDE DEF r, s
<1>6. r.messages \in Seq(Messages) BY <1>1, <1>3, ToAnthropicFType, GatherType
<1>7. Orphanless(r.messages) BY <1>1, <1>3, AnthropicRequestResults
<1>8. AllCalls(r.messages) = AllCalls(s) BY <1>1, <1>3, AnthropicRequestCalls
<1>9. SamePlainTurns(NotSystem(s), NotSystem(r.messages))
  BY <1>1, <1>3, AnthropicRequestTurns
<1> QED BY <1>4, <1>5, <1>6, <1>7, <1>8, <1>9 DEF Asked, Arrives, r, s

LEMMA ToOpenAIArrives ==
  ASSUME NEW c, Kept("anthropic", c)
  PROVE  Asked("openai", Translate("anthropic", c)) /\ Arrives(c, Translate("anthropic", c))
<1> DEFINE r == Translate("anthropic", c)  s == c.messages  x == c.system
           q == Prompt(x) \o Turns(s)
<1>1. s \in Seq(AnthropicMessages) /\ Orphanless(s) /\ x \in Texts \union {Empty}
  BY DEF Kept, MessagesOf
<1>2. r = BuildOpenAIRequest(ParseAnthropicRequest(c)) BY DEF Translate
<1>3. r = [system |-> Empty, messages |-> q] BY <1>1, <1>2, OpenAIRequest
<1>4. r.system = Empty /\ r.messages = q BY <1>3
<1> HIDE DEF r, s, x
<1>5. q \in Seq(Messages) /\ AllCalls(q) = AllCalls(s) BY <1>1, OpenAIRequestCalls
<1>6. Orphanless(q) BY <1>1, OpenAIRequestResults
<1>7. SamePlainTurns(NotSystem(s), NotSystem(q)) BY <1>1, OpenAIRequestTurns
<1>8. \A i \in DOMAIN q : q[i].content \in Seq(Shown)
  <2> DEFINE h == Prompt(x)  t == Turns(s)
  <2>1. h \in Seq(Messages) /\ \A i \in DOMAIN h : h[i].content \in Seq(Shown)
    BY <1>1, PromptFacts
  <2>2. /\ t \in Seq(Messages) /\ DOMAIN t = DOMAIN s
        /\ \A i \in DOMAIN s : t[i] = ToOpenAI(s[i])
    BY <1>1, TurnsFacts
  <2>3. \A i \in DOMAIN t : t[i].content \in Seq(Shown)
    <3> TAKE i \in DOMAIN t
    <3>1. s[i] \in AnthropicMessages /\ t[i] = ToOpenAI(s[i]) BY <1>1, <2>2
    <3> QED BY <3>1, ToOpenAIKeeps
  <2> HIDE DEF h, t
  <2>4. ASSUME NEW i \in DOMAIN (h \o t) PROVE (h \o t)[i].content \in Seq(Shown)
    <3>1. In((h \o t)[i], h \o t) BY DEF In
    <3>2. In((h \o t)[i], h) \/ In((h \o t)[i], t) BY <2>1, <2>2, <3>1, InConcat
    <3> QED BY <2>1, <2>3, <3>2 DEF In
  <2> QED BY <2>4 DEF h, t
<1> HIDE DEF q
<1> QED BY <1>3, <1>4, <1>5, <1>6, <1>7, <1>8 DEF Asked, Arrives, r, s

LEMMA TranslateArrives ==
  ASSUME NEW f \in {"openai", "anthropic"}, NEW p \in {"openai", "anthropic"}, NEW c,
         Kept(f, c)
  PROVE  LET r == IF p = f THEN c ELSE Translate(f, c)
         IN  Asked(p, r) /\ Arrives(c, r)
<1>1. CASE p = f
  <2>1. SamePlainTurns(NotSystem(c.messages), NotSystem(c.messages))
    BY DEF SamePlainTurns, SameTurn
  <2> QED BY <1>1, <2>1, AskedAsKept DEF Arrives
<1>2. CASE p # f /\ f = "openai"
  <2>1. p = "anthropic" BY <1>2
  <2> QED BY <1>2, <2>1, ToAnthropicArrives
<1>3. CASE p # f /\ f = "anthropic"
  <2>1. p = "openai" BY <1>3
  <2> QED BY <1>3, <2>1, ToOpenAIArrives
<1> QED BY <1>1, <1>2, <1>3

-----------------------------------------------------------------------------
(* The conversation grows                                                  *)

LEMMA OrphanlessConcat ==
  ASSUME NEW s \in Seq(Messages), NEW t \in Seq(Messages), Orphanless(s),
         \A i \in DOMAIN t : \A c \in ResultsOf(t[i]) : In(c, AllCalls(s))
  PROVE  Orphanless(s \o t)
<1> DEFINE a == s \o t  n == Len(s)
<1>1. /\ n \in Nat /\ Len(t) \in Nat /\ DOMAIN s = 1..n /\ DOMAIN t = 1..Len(t)
      /\ DOMAIN a = 1..(n + Len(t))
      /\ \A i \in 1..n : a[i] = s[i]
      /\ \A i \in (n + 1)..(n + Len(t)) : a[i] = t[i - n]
  OBVIOUS
<1>2. \A c : In(c, AllCalls(s)) <=> \E j \in 1..n : c \in ToSet(CallsOf(s[j]))
  BY InAllCalls
<1> HIDE DEF a, n
<1> SUFFICES ASSUME NEW i \in DOMAIN a, NEW c \in ResultsOf(a[i])
             PROVE  \E j \in 1..(i - 1) : c \in ToSet(CallsOf(a[j]))
  BY DEF Orphanless, a
<1>3. CASE i <= n
  <2>1. i \in DOMAIN s /\ a[i] = s[i] BY <1>1, <1>3
  <2>2. PICK j \in 1..(i - 1) : c \in ToSet(CallsOf(s[j])) BY <2>1 DEF Orphanless
  <2>3. a[j] = s[j] BY <1>1, <1>3
  <2> QED BY <2>2, <2>3
<1>4. CASE ~ (i <= n)
  <2>1. i - n \in DOMAIN t /\ a[i] = t[i - n] BY <1>1, <1>4
  <2>2. In(c, AllCalls(s)) BY <2>1
  <2>3. PICK j \in 1..n : c \in ToSet(CallsOf(s[j])) BY <1>2, <2>2
  <2>4. j \in 1..(i - 1) /\ a[j] = s[j] BY <1>1, <1>4
  <2> QED BY <2>3, <2>4
<1> QED BY <1>3, <1>4

\* By messages whose results answer calls of the conversation.
LEMMA KeptGrows ==
  ASSUME NEW f, NEW c, Kept(f, c), NEW t \in Seq(MessagesOf(f)),
         \A i \in DOMAIN t : \A x \in ResultsOf(t[i]) : In(x, AllCalls(c.messages))
  PROVE  Kept(f, [c EXCEPT !.messages = @ \o t])
<1> DEFINE d == [c EXCEPT !.messages = @ \o t]
<1>1. d = [system |-> c.system, messages |-> c.messages \o t]
  <2> DEFINE u == c.messages \o t
  <2>1. c \in [system : {c.system}, messages : {c.messages}] BY DEF Kept
  <2> HIDE DEF u
  <2>2. [c EXCEPT !.messages = u] = [system |-> c.system, messages |-> u] BY <2>1
  <2> QED BY <2>2 DEF u
<1>2. d.system = c.system /\ d.messages = c.messages \o t BY <1>1
<1>3. c.messages \o t \in Seq(MessagesOf(f)) BY ConcatProperties DEF Kept
<1>4. Orphanless(c.messages \o t)
  <2>1. c.messages \in Seq(Messages) /\ t \in Seq(Messages) BY MessagesOfFacts DEF Kept
  <2>2. Orphanless(c.messages) BY DEF Kept
  <2> QED BY <2>1, <2>2, OrphanlessConcat
<1> HIDE DEF d
<1>5. Kept(f, d) BY <1>1, <1>2, <1>3, <1>4 DEF Kept
<1> QED BY <1>5 DEF d

\* By one message without results.
LEMMA KeptGrowsByOne ==
  ASSUME NEW f, NEW c, Kept(f, c), NEW m \in MessagesOf(f), ResultsOf(m) = {}
  PROVE  Kept(f, [c EXCEPT !.messages = @ \o <<m>>])
<1> DEFINE t == <<m>>
<1>1. t \in Seq(MessagesOf(f)) /\ \A i \in DOMAIN t : t[i] = m OBVIOUS
<1> HIDE DEF t
<1>2. \A i \in DOMAIN t : \A x \in ResultsOf(t[i]) : In(x, AllCalls(c.messages)) BY <1>1
<1>3. Kept(f, [c EXCEPT !.messages = @ \o t]) BY <1>1, <1>2, KeptGrows
<1> QED BY <1>3 DEF t

-----------------------------------------------------------------------------
(* Answers                                                                 *)

LEMMA AnswersAreBlocks ==
  /\ Answers \subseteq Block /\ TextBlocks \subseteq Shown
  /\ \A b \in Answers : /\ b.kind # "tool_result"
                        /\ b.kind \in {"text"} => b \in TextBlocks
  /\ \A b \in TextBlocks : b.kind = "text" /\ b.ref \in Texts
<1>1. ASSUME NEW x \in Texts PROVE /\ Text(x) \in Block /\ Text(x) \in Shown
                                   /\ Text(x).kind = "text" /\ Text(x).ref = x
  BY Constructors, BlockFacts DEF Refs, Text
<1>2. ASSUME NEW c \in Calls PROVE Use(c) \in Block /\ Use(c).kind = "tool_use"
  BY Constructors, BlockFacts DEF Use
<1>3. Thinking \in Block /\ Thinking.kind = "thinking" BY Constructors DEF Thinking
<1> QED BY <1>1, <1>2, <1>3 DEF Answers, TextBlocks

\* The texts and the calls of an answer.
LEMMA AnswerParts ==
  ASSUME NEW s \in Seq(Answers)
  PROVE  /\ s \in Seq(Block)
         /\ OfKind(s, {"text"}) \in Seq(TextBlocks) /\ Uses(s) \in Seq(Calls)
         /\ OfKind(s, {"text"}) # <<>> => GatherBy(TextF, s) # <<>>
<1> DEFINE k == KindF({"text"})  o == OfKind(s, {"text"})
           p == [b \in Answers |-> IF b.kind \in {"text"} THEN <<b>> ELSE <<>>]
<1>1. s \in Seq(Block) BY AnswersAreBlocks, SeqMonotonic
<1>2. \A i \in DOMAIN s : s[i] \in Answers /\ s[i] \in Block BY <1>1
<1>3. o = GatherBy(k, s) BY <1>1, OfKindIs
<1>4. \A i \in DOMAIN s : k[s[i]] = p[s[i]] BY <1>2 DEF KindF
<1>5. p \in [Answers -> Seq(TextBlocks)]
  <2>1. \A b \in Answers : b.kind \in {"text"} => b \in TextBlocks BY AnswersAreBlocks
  <2> QED BY <2>1
<1>6. k \in [Block -> Seq(Block)] BY KindFType
<1>7. \A b \in Block : k[b] = IF b.kind \in {"text"} THEN <<b>> ELSE <<>> BY DEF KindF
<1> HIDE DEF k, p, o
<1>8. o \in Seq(TextBlocks)
  <2>1. GatherBy(k, s) = GatherBy(p, s) BY <1>4, GatherSame
  <2>2. GatherBy(p, s) \in Seq(TextBlocks) BY <1>5, GatherType
  <2> QED BY <1>3, <2>1, <2>2
<1>9. Uses(s) \in Seq(Calls)
  <2>1. Uses(s) = GatherBy(UseF, s) BY <1>1, UsesIs
  <2>2. GatherBy(UseF, s) \in Seq(Calls) BY <1>1, UseFType, GatherType
  <2> QED BY <2>1, <2>2
<1>10. ASSUME o # <<>> PROVE GatherBy(TextF, s) # <<>>
  <2>1. 1 \in DOMAIN o BY <1>8, <1>10, EmptySeq
  <2>2. In(o[1], o) BY <2>1 DEF In
  <2>3. \E i \in DOMAIN s : In(o[1], k[s[i]]) BY <1>1, <1>3, <1>6, <2>2, GatherElements
  <2>4. PICK i \in DOMAIN s : In(o[1], k[s[i]]) BY <2>3
  <2>5. s[i].kind = "text"
    <3>1. k[s[i]] = IF s[i].kind \in {"text"} THEN <<s[i]>> ELSE <<>> BY <1>2, <1>7
    <3>2. ~ In(o[1], <<>>) BY DEF In
    <3>3. k[s[i]] # <<>> BY <2>4, <3>2
    <3> QED BY <3>1, <3>3
  <2>6. s[i].ref \in Texts BY <1>2, <2>5, AnswersAreBlocks
  <2>7. s[i].ref # Empty BY <2>6, EmptyAssumption
  <2>8. TextF[s[i]] = <<s[i].ref>> BY <1>2, <2>5, <2>7 DEF TextF
  <2>9. In(s[i].ref, TextF[s[i]]) BY <2>8 DEF In
  <2>10. In(s[i].ref, GatherBy(TextF, s)) BY <1>1, <2>9, TextFType, GatherElements
  <2>11. ~ In(s[i].ref, <<>>) BY DEF In
  <2> QED BY <2>10, <2>11
<1> QED BY <1>1, <1>8, <1>9, <1>10 DEF o

\* The messages that an answer may become.
Assistant(content, calls) ==
  [role |-> "assistant", content |-> content, calls |-> calls, callId |-> NoCall]

LEMMA AssistantType ==
  /\ \A s \in Seq(Answers) : /\ Assistant(s, <<>>) \in AnthropicMessages
                             /\ ResultsOf(Assistant(s, <<>>)) = {}
  /\ \A s \in Seq(TextBlocks), c \in Seq(Calls) :
       /\ Assistant(s, c) \in OpenAIMessages
       /\ ResultsOf(Assistant(s, c)) = {}
<1>1. ASSUME NEW s \in Seq(Block), NEW c \in Seq(Calls),
             \A i \in DOMAIN s : s[i].kind # "tool_result"
      PROVE  /\ Assistant(s, c) \in Messages /\ ResultsOf(Assistant(s, c)) = {}
             /\ CallsOf(Assistant(s, c)) = c \o GatherBy(UseF, s)
  <2> DEFINE m == Assistant(s, c)
  <2>1. m \in Messages BY DEF Messages, Assistant, Roles
  <2>2. m.content = s /\ m.callId = NoCall /\ m.calls = c BY DEF Assistant
  <2> HIDE DEF m
  <2>3. \A x : x \notin ResultsOf(m) BY <1>1, <2>1, <2>2, ResultsOfIs
  <2> QED BY <2>1, <2>2, <2>3, CallsOfIs DEF m
<1>2. ASSUME NEW s \in Seq(Answers)
      PROVE  /\ Assistant(s, <<>>) \in AnthropicMessages
             /\ ResultsOf(Assistant(s, <<>>)) = {}
  <2>1. s \in Seq(Block) BY AnswerParts
  <2>2. \A i \in DOMAIN s : s[i].kind # "tool_result" BY AnswersAreBlocks
  <2>3. ResultsOf(Assistant(s, <<>>)) = {} BY <1>1, <2>1, <2>2, EmptySeq
  <2>4. Assistant(s, <<>>) \in AnthropicMessages
    BY <2>1 DEF Assistant, AnthropicMessages, Roles
  <2> QED BY <2>3, <2>4
<1>3. ASSUME NEW s \in Seq(TextBlocks), NEW c \in Seq(Calls)
      PROVE  Assistant(s, c) \in OpenAIMessages /\ ResultsOf(Assistant(s, c)) = {}
  <2>1. s \in Seq(Shown) /\ s \in Seq(Block) BY AnswersAreBlocks, BlockFacts, SeqMonotonic
  <2>2. \A i \in DOMAIN s : s[i].kind # "tool_result" BY AnswersAreBlocks
  <2>3. ResultsOf(Assistant(s, c)) = {} BY <1>1, <2>1, <2>2
  <2>4. Assistant(s, c) \in OpenAIMessages
    BY <2>1 DEF Assistant, OpenAIMessages, Roles
  <2> QED BY <2>3, <2>4
<1> QED BY <1>2, <1>3

\* What of the answer r has to be in the message m (Reached).
Reaches(m, r) ==
  /\ CallsOf(m) = CallsOf(Msg("assistant", r))
  /\ OfKind(r, {"text"}) # <<>> => TextsOf(m) # <<>>

LEMMA CallsOfAnswer ==
  ASSUME NEW r \in Seq(Answers)
  PROVE  CallsOf(Msg("assistant", r)) = Uses(r)
<1>1. Uses(r) \in Seq(Calls) BY AnswerParts
<1>2. CallsOf(Msg("assistant", r)) = <<>> \o Uses(r) BY DEF CallsOf, Msg
<1> QED BY <1>1, <1>2, ConcatEmptySeq

\* Its own blocks, or others with the same texts and calls.
LEMMA BlocksReach ==
  ASSUME NEW r \in Seq(Answers), NEW s \in Seq(Answers),
         GatherBy(UseF, s) = GatherBy(UseF, r), GatherBy(TextF, s) = GatherBy(TextF, r)
  PROVE  Reaches(Assistant(s, <<>>), r)
<1> DEFINE m == Assistant(s, <<>>)
<1>1. r \in Seq(Block) /\ s \in Seq(Block) BY AnswerParts
<1>2. m = Msg("assistant", s) BY DEF Assistant, Msg
<1>3. CallsOf(m) = Uses(s) BY <1>2, CallsOfAnswer
<1>4. Uses(s) = Uses(r) BY <1>1, UsesIs
<1>5. CallsOf(Msg("assistant", r)) = Uses(r) BY CallsOfAnswer
<1>6. TextsOf(m) = GatherBy(TextF, s)
  <2>1. m \in Messages BY AssistantType, MessageKinds
  <2>2. m.content = s BY DEF Assistant
  <2> QED BY <2>1, <2>2, TextsOfIs
<1>7. OfKind(r, {"text"}) # <<>> => GatherBy(TextF, r) # <<>> BY AnswerParts
<1> HIDE DEF m
<1>8. Reaches(m, r) BY <1>3, <1>4, <1>5, <1>6, <1>7 DEF Reaches
<1> QED BY <1>8 DEF m

\* Its calls, and texts if it has any.
LEMMA TextReaches ==
  ASSUME NEW r \in Seq(Answers), NEW s \in Seq(TextBlocks),
         OfKind(r, {"text"}) # <<>> => s # <<>>
  PROVE  Reaches(Assistant(s, Uses(r)), r)
<1> DEFINE m == Assistant(s, Uses(r))
<1>1. Uses(r) \in Seq(Calls) BY AnswerParts
<1>2. m \in Messages BY <1>1, AssistantType, MessageKinds
<1>3. m.content = s /\ m.calls = Uses(r) BY DEF Assistant
<1>4. \A i \in DOMAIN s : s[i] \in TextBlocks /\ s[i] \in Block
  BY AnswersAreBlocks, BlockFacts
<1>5. GatherBy(UseF, s) = <<>>
  <2>1. \A i \in DOMAIN s : UseF[s[i]] = <<>> BY <1>4, AnswersAreBlocks DEF UseF
  <2> QED BY <2>1, GatherNone
<1> HIDE DEF m
<1>6. CallsOf(m) = Uses(r) BY <1>1, <1>2, <1>3, <1>5, CallsOfIs, ConcatEmptySeq
<1>7. CallsOf(Msg("assistant", r)) = Uses(r) BY CallsOfAnswer
<1>8. TextsOf(m) = GatherBy(TextF, s) BY <1>2, <1>3, TextsOfIs
<1>9. ASSUME s # <<>> PROVE GatherBy(TextF, s) # <<>>
  <2>1. 1 \in DOMAIN s BY <1>9, EmptySeq
  <2>2. s[1].kind = "text" /\ s[1].ref \in Texts BY <1>4, <2>1, AnswersAreBlocks
  <2>3. s[1].ref # Empty BY <2>2, EmptyAssumption
  <2>4. TextF[s[1]] = <<s[1].ref>> BY <1>4, <2>1, <2>2, <2>3 DEF TextF
  <2>5. In(s[1].ref, TextF[s[1]]) BY <2>4 DEF In
  <2>6. s \in Seq(Block) BY <1>4, AnswersAreBlocks, BlockFacts, SeqMonotonic
  <2>7. In(s[1].ref, GatherBy(TextF, s)) BY <2>1, <2>5, <2>6, TextFType, GatherElements
  <2>8. ~ In(s[1].ref, <<>>) BY DEF In
  <2> QED BY <2>7, <2>8
<1>10. Reaches(m, r) BY <1>6, <1>7, <1>8, <1>9 DEF Reaches
<1> QED BY <1>10 DEF m

\* Of the blocks that a stream starts, those of some positions.
BlockF(positions) ==
  [i \in DOMAIN input |-> IF i \in positions THEN <<BlockOf(input[i])>> ELSE <<>>]

Positions == [i \in DOMAIN input |-> i]

\* What the backend starts is a block.
StartsBlocks == \A i \in Started : input[i].block \in Blocks \union {"thinking"}

LEMMA BlockOfFacts ==
  ASSUME NEW e, e.block \in Blocks \union {"thinking"}
  PROVE  BlockOf(e) \in Answers /\ (e.block = "thinking" => BlockOf(e) = Thinking)
BY BlockAssumption DEF BlockOf, Answers, TextBlocks

LEMMA BlocksAtFacts ==
  ASSUME StreamTypeOK, StartsBlocks, NEW P \in SUBSET Started
  PROVE  /\ BlocksAt(P) = GatherBy(BlockF(P), Positions)
         /\ Positions \in Seq(DOMAIN input)
         /\ BlockF(P) \in [DOMAIN input -> Seq(Answers)]
         /\ BlocksAt(P) \in Seq(Answers)
<1>1. input \in Seq(Event) BY DEF StreamTypeOK
<1>2. Positions \in Seq(DOMAIN input)
  <2>1. DOMAIN input = 1..Len(input) /\ Len(input) \in Nat BY <1>1, LenProperties
  <2> QED BY <2>1, IsASeq DEF Positions
<1>3. BlockF(P) \in [DOMAIN input -> Seq(Answers)]
  <2>1. \A i \in P : BlockOf(input[i]) \in Answers BY BlockOfFacts DEF StartsBlocks
  <2>2. \A i \in DOMAIN input :
          (IF i \in P THEN <<BlockOf(input[i])>> ELSE <<>>) \in Seq(Answers)
    BY <2>1
  <2> QED BY <2>2 DEF BlockF
<1>4. BlocksAt(P) = GatherBy(BlockF(P), Positions)
  <2> DEFINE d == DOMAIN input
  <2>1. DOMAIN Positions = d /\ \A i \in d : Positions[i] = i BY DEF Positions
  <2>2. [i \in DOMAIN Positions |-> BlockF(P)[Positions[i]]] = BlockF(P)
    <3>1. BlockF(P) = [i \in d |-> BlockF(P)[i]] BY DEF BlockF
    <3> HIDE DEF d
    <3> QED BY <2>1, <3>1
  <2> QED BY <2>2 DEF BlocksAt, GatherBy, BlockF
<1>5. GatherBy(BlockF(P), Positions) \in Seq(Answers) BY <1>2, <1>3, GatherType
<1> QED BY <1>2, <1>3, <1>4, <1>5

\* Of a complete stream the client gets all blocks but thinking.
LEMMA CompleteStream ==
  ASSUME StreamTypeOK, ThinkingStripped, StartsBlocks, stream = "complete"
  PROVE  /\ GatherBy(UseF, BlocksAt(Started \intersect sent)) = GatherBy(UseF, BlocksAt(Started))
         /\ GatherBy(TextF, BlocksAt(Started \intersect sent)) = GatherBy(TextF, BlocksAt(Started))
<1> DEFINE P == Started \intersect sent
<1>1. P \in SUBSET Started /\ Started \in SUBSET Started OBVIOUS
<1>2. /\ BlocksAt(P) = GatherBy(BlockF(P), Positions)
      /\ Positions \in Seq(DOMAIN input)
      /\ BlockF(P) \in [DOMAIN input -> Seq(Answers)]
  BY <1>1, BlocksAtFacts
<1>3. /\ BlocksAt(Started) = GatherBy(BlockF(Started), Positions)
      /\ BlockF(Started) \in [DOMAIN input -> Seq(Answers)]
  BY <1>1, BlocksAtFacts
<1>4. ASSUME NEW h, NEW T, h \in [Block -> Seq(T)], h[Thinking] = <<>>
      PROVE  GatherBy(h, BlocksAt(P)) = GatherBy(h, BlocksAt(Started))
  <2> DEFINE k(Q) == [i \in DOMAIN input |-> GatherBy(h, BlockF(Q)[i])]
             p == k(P)  q == k(Started)
  <2>1. ASSUME NEW Q, BlockF(Q) \in [DOMAIN input -> Seq(Answers)]
        PROVE  GatherBy(h, GatherBy(BlockF(Q), Positions)) = GatherBy(k(Q), Positions)
    <3>1. BlockF(Q) \in [DOMAIN input -> Seq(Block)]
      BY <2>1, AnswersAreBlocks, SeqMonotonic
    <3> DEFINE l == k(Q)
    <3>2. \A i \in DOMAIN input : l[i] = GatherBy(h, BlockF(Q)[i]) OBVIOUS
    <3> HIDE DEF l
    <3>3. Composes(l, BlockF(Q), h, DOMAIN input, Block, T) BY <1>4, <3>1, <3>2 DEF Composes
    <3>4. GatherBy(h, GatherBy(BlockF(Q), Positions)) = GatherBy(l, Positions)
      BY <1>2, <3>3, GatherTwice
    <3> QED BY <3>4 DEF l
  <2>2. ASSUME NEW i \in DOMAIN input
        PROVE  GatherBy(h, BlockF(P)[i]) = GatherBy(h, BlockF(Started)[i])
    <3>1. CASE i \in P \/ i \notin Started
      <4>1. i \in P <=> i \in Started BY <3>1
      <4>2. BlockF(P)[i] = BlockF(Started)[i] BY <4>1 DEF BlockF
      <4> QED BY <4>2
    <3>2. CASE i \notin P /\ i \in Started
      <4>1. i \notin sent /\ i \in 1..Len(input) BY <3>2, LenProperties DEF StreamTypeOK
      <4>2. input[i].block = "thinking" BY <4>1 DEF ThinkingStripped
      <4>3. BlockOf(input[i]) = Thinking BY <4>2, BlockOfFacts
      <4>4. BlockF(P)[i] = <<>> /\ BlockF(Started)[i] = <<Thinking>>
        BY <3>2, <4>3 DEF BlockF
      <4>5. Thinking \in Block BY Constructors
      <4>6. GatherBy(h, <<Thinking>>) = h[Thinking] BY <1>4, <4>5, GatherSingle
      <4> QED BY <1>4, <4>4, <4>6, GatherEmpty
    <3> QED BY <3>1, <3>2
  <2>3. p = q BY <2>2
  <2> HIDE DEF p, q
  <2>4. GatherBy(h, GatherBy(BlockF(P), Positions)) = GatherBy(p, Positions)
    BY <1>2, <2>1 DEF p
  <2>5. GatherBy(h, GatherBy(BlockF(Started), Positions)) = GatherBy(q, Positions)
    BY <1>3, <2>1 DEF q
  <2> QED BY <1>2, <1>3, <2>3, <2>4, <2>5
<1>5. UseF[Thinking] = <<>> /\ TextF[Thinking] = <<>>
  <2>1. Thinking \in Block /\ Thinking.kind = "thinking" BY Constructors DEF Thinking
  <2> QED BY <2>1 DEF UseF, TextF
<1> HIDE DEF P
<1>6. GatherBy(UseF, BlocksAt(P)) = GatherBy(UseF, BlocksAt(Started))
  BY <1>4, <1>5, UseFType
<1>7. GatherBy(TextF, BlocksAt(P)) = GatherBy(TextF, BlocksAt(Started))
  BY <1>4, <1>5, TextFType
<1> QED BY <1>6, <1>7 DEF P

-----------------------------------------------------------------------------
(* The invariant of a conversation                                         *)

Formats == {"openai", "anthropic"}

PhasesMatch ==
  /\ format \in Formats /\ provider \in Formats
  /\ phase \in {"client", "ready", "sent", "streaming"}
  /\ reply \in Seq(Answers)
  /\ stream # "idle" <=> phase = "streaming"
  /\ phase = "streaming" => format = "anthropic" /\ provider = "anthropic"

RequestMatches ==
  /\ Asked(provider, received)
  /\ phase = "sent" => received = IF provider = format THEN conv ELSE Translate(format, conv)

CInv ==
  /\ PhasesMatch
  /\ Kept(format, conv)
  /\ RequestMatches
  /\ StartsBlocks
  /\ AnswersArrive

Filtered == StreamTypeOK /\ ThinkingStripped

\* As AnswersArrive, with the answer named.
Arrived(f, p, c, r) ==
  IF f = "openai" \/ p = f THEN Reaches(Last(c.messages), r)
                           ELSE Last(c.messages) = Msg("assistant", <<>>)

LEMMA LastOfGrown ==
  ASSUME NEW f, NEW c, Kept(f, c), NEW m \in MessagesOf(f)
  PROVE  Last([c EXCEPT !.messages = @ \o <<m>>].messages) = m
<1> DEFINE u == c.messages \o <<m>>
<1>1. c \in [system : {c.system}, messages : {c.messages}] BY DEF Kept
<1>2. c.messages \in Seq(MessagesOf(f)) BY DEF Kept
<1>3. u \in Seq(MessagesOf(f)) /\ Len(u) = Len(c.messages) + 1 /\ u[Len(c.messages) + 1] = m
  BY <1>2
<1> HIDE DEF u
<1>4. [c EXCEPT !.messages = u].messages = u BY <1>1
<1>5. [c EXCEPT !.messages = c.messages \o <<m>>].messages = u BY <1>4 DEF u
<1>6. Last(u) = m BY <1>3 DEF Last
<1> QED BY <1>5, <1>6

LEMMA BeginningIsKept ==
  ASSUME format \in Formats, NEW x \in Systems
  PROVE  Kept(format, Beginning(x))
<1>1. x \in Texts \union {Empty} BY SystemsAssumption
<1>2. <<>> \in Seq(MessagesOf(format)) /\ Orphanless(<<>>) BY EmptySeq DEF Orphanless
<1>3. CASE format = "anthropic" \/ x = Empty
  <2>1. Beginning(x) = [Nothing EXCEPT !.system = x] BY <1>3 DEF Beginning
  <2>2. Beginning(x) = [system |-> x, messages |-> <<>>] BY <2>1 DEF Nothing
  <2>3. format = "openai" => x = Empty BY <1>3
  <2> QED BY <1>1, <1>2, <2>2, <2>3 DEF Kept
<1>4. CASE format = "openai" /\ x # Empty
  <2> DEFINE m == Msg("system", <<Text(x)>>)
  <2>1. Text(x) \in Spoken BY <1>1, <1>4 DEF Spoken, TextBlocks
  <2>2. <<Text(x)>> \in Seq(Spoken) /\ <<Text(x)>> \in Seq(Shown)
    BY <2>1, SpokenIsShown
  <2>3. m \in OpenAIMessages BY <2>2, EmptySeq DEF Msg, OpenAIMessages, Roles
  <2>4. <<m>> = Prompt(x) BY <1>4 DEF Prompt
  <2>5. Orphanless(<<m>>) BY <1>1, <2>4, PromptFacts
  <2>6. Beginning(x) = [system |-> Empty, messages |-> <<m>>]
    BY <1>4 DEF Beginning, Nothing, Formats
  <2> HIDE DEF m
  <2>7. <<m>> \in Seq(MessagesOf(format)) BY <1>4, <2>3 DEF MessagesOf
  <2> QED BY <1>4, <2>5, <2>6, <2>7 DEF Kept
<1> QED BY <1>3, <1>4 DEF Formats

LEMMA ConversationBegins == ExchangeInit => CInv
<1> SUFFICES ASSUME ExchangeInit PROVE CInv OBVIOUS
<1>1. /\ StreamInit /\ format \in Formats /\ provider = format /\ received = Nothing
      /\ reply = <<>> /\ phase = "client"
  BY DEF ExchangeInit, Formats
<1>2. PICK x \in Systems : conv = Beginning(x) BY DEF ExchangeInit
<1>3. PhasesMatch BY <1>1, EmptySeq DEF PhasesMatch, StreamInit
<1>4. Kept(format, conv) BY <1>1, <1>2, BeginningIsKept
<1>5. RequestMatches BY <1>1, NothingIsAsked DEF RequestMatches
<1>6. StartsBlocks BY <1>1, EmptySeq DEF StartsBlocks, Started, StreamInit
<1>7. AnswersArrive BY <1>1 DEF AnswersArrive, Answered
<1> QED BY <1>3, <1>4, <1>5, <1>6, <1>7 DEF CInv

LEMMA StartsStay ==
  ASSUME StartsBlocks, UNCHANGED streamVars
  PROVE  StartsBlocks'
BY DEF StartsBlocks, Started, streamVars

LEMMA BeginAgainKeeps == ASSUME CInv, BeginAgain PROVE CInv'
<1> USE DEF CInv
<1>1. /\ phase = "client" /\ reply' = <<>>
      /\ UNCHANGED <<format, provider, received, phase, streamVars>>
  BY DEF BeginAgain
<1>2. PICK x \in Systems : conv' = Beginning(x) BY DEF BeginAgain
<1>3. PhasesMatch' BY <1>1, EmptySeq DEF PhasesMatch, streamVars
<1>4. Kept(format, conv)'
  <2>1. Kept(format, Beginning(x)) BY BeginningIsKept DEF PhasesMatch
  <2> QED BY <1>1, <1>2, <2>1
<1>5. RequestMatches' BY <1>1 DEF RequestMatches
<1>6. StartsBlocks' BY <1>1, StartsStay
<1>7. AnswersArrive' BY <1>1 DEF AnswersArrive, Answered
<1> QED BY <1>3, <1>4, <1>5, <1>6, <1>7

\* What a user says has no results.
LEMMA SaidFacts ==
  ASSUME NEW content \in Seq(Spoken), NEW role \in {"user", "system"}
  PROVE  /\ Msg(role, content) \in OpenAIMessages
         /\ role = "user" => Msg(role, content) \in AnthropicMessages
         /\ ResultsOf(Msg(role, content)) = {}
<1> DEFINE m == Msg(role, content)
<1>1. content \in Seq(Shown) /\ content \in Seq(Block)
  BY SpokenIsShown, BlockFacts, SeqMonotonic
<1>2. m \in OpenAIMessages BY <1>1, EmptySeq DEF Msg, OpenAIMessages, Roles
<1>3. role = "user" => m \in AnthropicMessages
  BY <1>1 DEF Msg, AnthropicMessages, Roles
<1>4. m.content = content /\ m.callId = NoCall BY DEF Msg
<1> HIDE DEF m
<1>5. \A x : x \notin ResultsOf(m)
  <2> TAKE x
  <2>1. m \in Messages BY <1>2, MessageKinds
  <2>2. \A i \in DOMAIN content : content[i].kind # "tool_result" BY <1>1 DEF Shown
  <2> QED BY <1>4, <2>1, <2>2, ResultsOfIs
<1> QED BY <1>2, <1>3, <1>5 DEF m

LEMMA SayKeeps == ASSUME CInv, NEW content \in Says, Say(content) PROVE CInv'
<1> USE DEF CInv
<1>1. /\ phase = "client" /\ phase' = "ready" /\ reply' = <<>>
      /\ UNCHANGED <<format, provider, received, streamVars>>
  BY DEF Say
<1>2. PICK role \in {"user"} \union IF format = "openai" THEN {"system"} ELSE {} :
        conv' = With(<<Msg(role, content)>>)
  BY DEF Say
<1>3. content \in Seq(Spoken) BY SaysAssumption
<1>4. role \in {"user", "system"} /\ (role = "user" \/ format = "openai") BY <1>2
<1>5. Msg(role, content) \in MessagesOf(format) /\ ResultsOf(Msg(role, content)) = {}
  BY <1>3, <1>4, SaidFacts DEF MessagesOf
<1>6. Kept(format, conv)'
  <2>1. Kept(format, [conv EXCEPT !.messages = @ \o <<Msg(role, content)>>])
    BY <1>5, KeptGrowsByOne
  <2>2. conv' = [conv EXCEPT !.messages = @ \o <<Msg(role, content)>>] BY <1>2 DEF With
  <2> QED BY <1>1, <2>1, <2>2
<1>7. PhasesMatch' BY <1>1, EmptySeq DEF PhasesMatch, streamVars
<1>8. RequestMatches' BY <1>1 DEF RequestMatches
<1>9. StartsBlocks' BY <1>1, StartsStay
<1>10. AnswersArrive' BY <1>1 DEF AnswersArrive, Answered
<1> QED BY <1>6, <1>7, <1>8, <1>9, <1>10

LEMMA OpenCallsFacts ==
  ASSUME CInv, OpenCalls # <<>>
  PROVE  /\ OpenCalls \in Seq(Calls)
         /\ \A i \in DOMAIN OpenCalls : In(OpenCalls[i], AllCalls(conv.messages))
<1> DEFINE s == conv.messages  n == Len(s)
<1>1. s \in Seq(Messages) BY MessagesOfFacts DEF CInv, Kept
<1>2. s # <<>> /\ OpenCalls = CallsOf(Last(s)) BY DEF OpenCalls
<1> HIDE DEF s
<1>3. n \in 1..n /\ n \in Nat BY <1>1, <1>2, EmptySeq
<1>4. Last(s) = s[n] /\ s[n] \in Messages BY <1>1, <1>3 DEF Last
<1>5. OpenCalls \in Seq(Calls) BY <1>2, <1>4, CallsOfIs
<1>6. ASSUME NEW i \in DOMAIN OpenCalls PROVE In(OpenCalls[i], AllCalls(s))
  <2>1. OpenCalls[i] \in ToSet(CallsOf(s[n])) BY <1>2, <1>4, <1>6 DEF ToSet
  <2> QED BY <1>1, <1>3, <2>1, InAllCalls
<1> QED BY <1>5, <1>6 DEF s

LEMMA ToolMessageFacts ==
  ASSUME NEW c \in Calls
  PROVE  ToolMessage(c) \in OpenAIMessages /\ ResultsOf(ToolMessage(c)) = {c}
<1> DEFINE m == ToolMessage(c)  b == Text(c)
<1>1. b \in Shown BY Constructors DEF Refs
<1> HIDE DEF b
<1>2. <<b>> \in Seq(Shown) BY <1>1
<1>3. m = [role |-> "tool", content |-> <<b>>, calls |-> <<>>, callId |-> c]
  BY DEF ToolMessage, Msg, b
<1>4. m \in OpenAIMessages BY <1>2, <1>3, EmptySeq DEF OpenAIMessages, Roles
<1>5. m.content = <<b>> /\ m.callId = c BY <1>3
<1> HIDE DEF m
<1>6. ASSUME NEW x PROVE x \in ResultsOf(m) <=> x = c
  <2>1. m \in Messages BY <1>4, MessageKinds
  <2>2. \A i \in DOMAIN m.content : m.content[i].kind # "tool_result"
    BY <1>1, <1>5 DEF Shown
  <2>3. x \in ResultsOf(m) <=> x = c /\ x # NoCall BY <1>5, <2>1, <2>2, ResultsOfIs
  <2> QED BY <2>3, CallAssumption
<1> QED BY <1>4, <1>6 DEF m

\* An OpenAI client's results, a message each.
LEMMA ToolMessages ==
  ASSUME NEW s \in Seq(Calls)
  PROVE  /\ Map(ToolMessage, s) \in Seq(OpenAIMessages)
         /\ \A i \in DOMAIN Map(ToolMessage, s) :
              ResultsOf(Map(ToolMessage, s)[i]) = {s[i]} /\ i \in DOMAIN s
<1> DEFINE g == [c \in Calls |-> ToolMessage(c)]
<1>1. \A i \in DOMAIN s : s[i] \in Calls OBVIOUS
<1>2. Map(ToolMessage, s) = [i \in DOMAIN s |-> g[s[i]]] BY <1>1 DEF Map
<1>3. g \in [Calls -> OpenAIMessages] BY ToolMessageFacts
<1> HIDE DEF g
<1>4. Map(ToolMessage, s) \in Seq(OpenAIMessages) BY <1>2, <1>3, MapAppend
<1>5. DOMAIN Map(ToolMessage, s) = DOMAIN s
      /\ \A i \in DOMAIN s : Map(ToolMessage, s)[i] = ToolMessage(s[i])
  BY DEF Map
<1> QED BY <1>1, <1>4, <1>5, ToolMessageFacts

\* An Anthropic client's results, the first blocks of one message.
LEMMA ResultBlocks ==
  ASSUME NEW s \in Seq(Calls), NEW content \in Seq(Spoken)
  PROVE  LET m == Msg("user", Map(LAMBDA c : Result(c, c), s) \o content)
         IN  /\ m \in AnthropicMessages
             /\ \A x \in ResultsOf(m) : \E i \in DOMAIN s : s[i] = x
<1> DEFINE g == [c \in Calls |-> Result(c, c)]
           r == [i \in DOMAIN s |-> Result(s[i], s[i])]
           m == Msg("user", r \o content)
<1>1. \A i \in DOMAIN s : s[i] \in Calls OBVIOUS
<1>2. r = [i \in DOMAIN s |-> g[s[i]]] BY <1>1
<1>3. g \in [Calls -> Block] BY Constructors, BlockFacts DEF Refs
<1>4. Map(LAMBDA c : Result(c, c), s) = r BY DEF Map
<1>5. DOMAIN r = DOMAIN s /\ \A i \in DOMAIN s : r[i].call = s[i] BY DEF Result
<1> HIDE DEF g, r
<1>6. r \in Seq(Block) BY <1>2, <1>3, MapAppend
<1>7. content \in Seq(Shown) /\ content \in Seq(Block)
  BY SpokenIsShown, BlockFacts, SeqMonotonic
<1>8. r \o content \in Seq(Block) BY <1>6, <1>7, ConcatProperties
<1>9. m \in AnthropicMessages BY <1>8 DEF Msg, AnthropicMessages, Roles
<1>10. m.content = r \o content /\ m.callId = NoCall BY DEF Msg
<1> HIDE DEF m
<1>11. ASSUME NEW x \in ResultsOf(m) PROVE \E i \in DOMAIN s : s[i] = x
  <2>1. m \in Messages BY <1>9, MessageKinds
  <2>2. PICK i \in DOMAIN m.content : m.content[i].kind = "tool_result" /\ m.content[i].call = x
    BY <1>10, <1>11, <2>1, ResultsOfIs
  <2>3. In(m.content[i], r \o content) BY <1>10, <2>2 DEF In
  <2>4. In(m.content[i], r) \/ In(m.content[i], content) BY <1>6, <1>7, <2>3, InConcat
  <2>5. ~ In(m.content[i], content) BY <1>7, <2>2 DEF In, Shown
  <2>6. PICK j \in DOMAIN r : r[j] = m.content[i] BY <2>4, <2>5 DEF In
  <2> QED BY <1>5, <2>2, <2>6
<1> QED BY <1>4, <1>9, <1>11 DEF m

LEMMA ReturnResultsKeeps ==
  ASSUME CInv, NEW content \in Says \union {<<>>}, ReturnResults(content)
  PROVE  CInv'
<1> USE DEF CInv
<1>1. /\ phase = "client" /\ phase' = "ready" /\ reply' = <<>> /\ OpenCalls # <<>>
      /\ UNCHANGED <<format, provider, received, streamVars>>
  BY DEF ReturnResults
<1>2. content \in Seq(Spoken) BY SaysAssumption, EmptySeq
<1>3. /\ OpenCalls \in Seq(Calls)
      /\ \A i \in DOMAIN OpenCalls : In(OpenCalls[i], AllCalls(conv.messages))
  BY <1>1, OpenCallsFacts
<1>4. Kept(format, conv')
  <2>1. CASE format = "openai"
    <3> DEFINE a == Map(ToolMessage, OpenCalls)
               b == IF content = <<>> THEN <<>> ELSE <<Msg("user", content)>>
    <3>1. conv' = [conv EXCEPT !.messages = @ \o (a \o b)]
      BY <2>1 DEF ReturnResults, With
    <3>2. /\ a \in Seq(OpenAIMessages)
          /\ \A i \in DOMAIN a : ResultsOf(a[i]) = {OpenCalls[i]} /\ i \in DOMAIN OpenCalls
      BY <1>3, ToolMessages
    <3>3. b \in Seq(OpenAIMessages) /\ \A i \in DOMAIN b : ResultsOf(b[i]) = {}
      <4>1. Msg("user", content) \in OpenAIMessages /\ ResultsOf(Msg("user", content)) = {}
        BY <1>2, SaidFacts
      <4> QED BY <4>1, EmptySeq
    <3> DEFINE t == a \o b
    <3> HIDE DEF a, b
    <3>4. t \in Seq(OpenAIMessages) BY <3>2, <3>3, ConcatProperties
    <3>5. ASSUME NEW i \in DOMAIN t, NEW x \in ResultsOf(t[i])
          PROVE  In(x, AllCalls(conv.messages))
      <4>1. In(t[i], a \o b) BY DEF In
      <4>2. In(t[i], a) \/ In(t[i], b) BY <3>2, <3>3, <4>1, InConcat
      <4>3. ~ In(t[i], b) BY <3>3, <3>5 DEF In
      <4>4. PICK j \in DOMAIN a : a[j] = t[i] BY <4>2, <4>3 DEF In
      <4>5. ResultsOf(t[i]) = {OpenCalls[j]} /\ j \in DOMAIN OpenCalls BY <3>2, <4>4
      <4> QED BY <1>3, <3>5, <4>5
    <3> HIDE DEF t
    <3>6. t \in Seq(MessagesOf(format)) BY <2>1, <3>4 DEF MessagesOf
    <3>7. Kept(format, [conv EXCEPT !.messages = @ \o t]) BY <3>5, <3>6, KeptGrows
    <3> QED BY <3>1, <3>7 DEF t
  <2>2. CASE format # "openai"
    <3> DEFINE m == Msg("user", Map(LAMBDA c : Result(c, c), OpenCalls) \o content)
    <3>1. conv' = [conv EXCEPT !.messages = @ \o <<m>>] BY <2>2 DEF ReturnResults, With
    <3>2. /\ m \in AnthropicMessages
          /\ \A x \in ResultsOf(m) : \E i \in DOMAIN OpenCalls : OpenCalls[i] = x
      BY <1>2, <1>3, ResultBlocks
    <3> HIDE DEF m
    <3> DEFINE t == <<m>>
    <3>3. t \in Seq(MessagesOf(format)) /\ \A i \in DOMAIN t : t[i] = m
      BY <2>2, <3>2 DEF MessagesOf
    <3> HIDE DEF t
    <3>4. \A i \in DOMAIN t : \A x \in ResultsOf(t[i]) : In(x, AllCalls(conv.messages))
      BY <1>3, <3>2, <3>3
    <3>5. Kept(format, [conv EXCEPT !.messages = @ \o t]) BY <3>3, <3>4, KeptGrows
    <3> QED BY <3>1, <3>5 DEF t
  <2> QED BY <2>1, <2>2
<1>5. PhasesMatch' BY <1>1, EmptySeq DEF PhasesMatch, streamVars
<1>6. RequestMatches' BY <1>1 DEF RequestMatches
<1>7. StartsBlocks' BY <1>1, StartsStay
<1>8. AnswersArrive' BY <1>1 DEF AnswersArrive, Answered
<1> QED BY <1>1, <1>4, <1>5, <1>6, <1>7, <1>8

LEMMA SendKeeps == ASSUME CInv, NEW p \in Formats, Send(p) PROVE CInv'
<1> USE DEF CInv
<1>1. /\ phase = "ready" /\ phase' = "sent" /\ provider' = p
      /\ received' = IF p = format THEN conv ELSE Translate(format, conv)
      /\ UNCHANGED <<format, conv, reply, streamVars>>
  BY DEF Send
<1>2. PhasesMatch' BY <1>1 DEF PhasesMatch, streamVars
<1>3. RequestMatches'
  <2> DEFINE r == IF p = format THEN conv ELSE Translate(format, conv)
  <2>1. Asked(p, r) BY TranslateArrives DEF PhasesMatch, Formats
  <2> QED BY <1>1, <2>1 DEF RequestMatches
<1>4. StartsBlocks' BY <1>1, StartsStay
<1>5. AnswersArrive' BY <1>1 DEF AnswersArrive, Answered
<1>6. Kept(format, conv)' BY <1>1
<1> QED BY <1>2, <1>3, <1>4, <1>5, <1>6

LEMMA AnswerWholeKeeps == ASSUME CInv, NEW blocks \in Replies, AnswerWhole(blocks) PROVE CInv'
<1> USE DEF CInv
<1> DEFINE m == IF provider = format THEN Answer(blocks)
                ELSE TranslateAnswer(format, Answer(blocks))
           o == OfKind(blocks, {"text"})
<1>1. /\ phase = "sent" /\ phase' = "client" /\ reply' = blocks /\ received' = Nothing
      /\ conv' = [conv EXCEPT !.messages = @ \o <<m>>]
      /\ UNCHANGED <<format, provider, streamVars>>
  BY DEF AnswerWhole, With
<1>2. blocks \in Seq(Answers) BY RepliesAssumption
<1>3. o \in Seq(TextBlocks) /\ Uses(blocks) \in Seq(Calls) BY <1>2, AnswerParts
<1>4. /\ format \in {"openai", "anthropic"} /\ provider \in {"openai", "anthropic"}
  BY DEF PhasesMatch, Formats
<1> HIDE DEF o
<1>5. /\ m \in MessagesOf(format) /\ ResultsOf(m) = {}
      /\ IF format = "openai" \/ provider = format THEN Reaches(m, blocks)
         ELSE m = Msg("assistant", <<>>)
  <2>1. CASE provider = format /\ format = "anthropic"
    <3>1. m = Assistant(blocks, <<>>) BY <2>1 DEF Answer, Assistant, Msg
    <3>2. Assistant(blocks, <<>>) \in AnthropicMessages /\ ResultsOf(Assistant(blocks, <<>>)) = {}
      BY <1>2, AssistantType
    <3>3. Reaches(Assistant(blocks, <<>>), blocks) BY <1>2, BlocksReach
    <3> HIDE DEF m
    <3> QED BY <2>1, <3>1, <3>2, <3>3 DEF MessagesOf
  <2>2. CASE provider = format /\ format = "openai"
    <3>1. m = Assistant(o, Uses(blocks)) BY <2>2 DEF Answer, Assistant, Msg, o
    <3>2. /\ Assistant(o, Uses(blocks)) \in OpenAIMessages
          /\ ResultsOf(Assistant(o, Uses(blocks))) = {}
      BY <1>3, AssistantType
    <3>3. Reaches(Assistant(o, Uses(blocks)), blocks)
      <4>1. OfKind(blocks, {"text"}) # <<>> => o # <<>> BY DEF o
      <4> QED BY <1>2, <1>3, <4>1, TextReaches
    <3> HIDE DEF m
    <3> QED BY <2>2, <3>1, <3>2, <3>3 DEF MessagesOf
  <2>3. CASE provider # format /\ format = "openai"
    <3> DEFINE f == FirstOf(o)
    <3>1. f \in Seq(TextBlocks) /\ (o # <<>> => f # <<>>)
      BY <1>3, EmptySeq DEF FirstOf
    <3>2. m = Assistant(f, Uses(blocks))
      BY <1>4, <2>3 DEF TranslateAnswer, AnswerToOpenAIClient, Answer, Assistant, Msg, o
    <3> HIDE DEF f, m
    <3>3. /\ Assistant(f, Uses(blocks)) \in OpenAIMessages
          /\ ResultsOf(Assistant(f, Uses(blocks))) = {}
      BY <1>3, <3>1, AssistantType
    <3>4. Reaches(Assistant(f, Uses(blocks)), blocks)
      <4>1. OfKind(blocks, {"text"}) # <<>> => f # <<>> BY <3>1 DEF o
      <4> QED BY <1>2, <3>1, <4>1, TextReaches
    <3> QED BY <2>3, <3>2, <3>3, <3>4 DEF MessagesOf
  <2>4. CASE provider # format /\ format = "anthropic"
    <3>1. m = Msg("assistant", <<>>)
      BY <2>4 DEF TranslateAnswer, AnswerToAnthropicClient
    <3>2. m = Assistant(<<>>, <<>>) BY <3>1 DEF Assistant, Msg
    <3> HIDE DEF m
    <3>3. m \in AnthropicMessages /\ ResultsOf(m) = {} BY <3>2, AssistantType, EmptySeq
    <3> QED BY <2>4, <3>1, <3>3 DEF MessagesOf
  <2> QED BY <1>4, <2>1, <2>2, <2>3, <2>4
<1> HIDE DEF m
<1>6. Kept(format, conv)'
  <2>1. Kept(format, [conv EXCEPT !.messages = @ \o <<m>>]) BY <1>5, KeptGrowsByOne
  <2> QED BY <1>1, <2>1
<1>7. PhasesMatch' BY <1>1, <1>2 DEF PhasesMatch, streamVars
<1>8. RequestMatches' BY <1>1, NothingIsAsked DEF RequestMatches
<1>9. StartsBlocks' BY <1>1, StartsStay
<1>10. AnswersArrive'
  <2>1. Last([conv EXCEPT !.messages = @ \o <<m>>].messages) = m BY <1>5, LastOfGrown
  <2>2. Last(conv'.messages) = m BY <1>1, <2>1
  <2>3. Arrived(format, provider, conv', blocks) BY <1>5, <2>2 DEF Arrived
  <2>4. Arrived(format, provider, conv, reply)' BY <1>1, <2>3
  <2> QED BY <2>4 DEF AnswersArrive, Answered, Reached, Arrived, Reaches
<1> QED BY <1>6, <1>7, <1>8, <1>9, <1>10

LEMMA UnansweredKeeps == ASSUME CInv, Unanswered PROVE CInv'
<1> USE DEF CInv
<1>1. /\ phase = "sent" /\ phase' = "ready" /\ received' = Nothing
      /\ UNCHANGED <<format, conv, provider, reply, streamVars>>
  BY DEF Unanswered
<1>2. PhasesMatch' BY <1>1 DEF PhasesMatch, streamVars
<1>3. RequestMatches' BY <1>1, NothingIsAsked DEF RequestMatches
<1>4. StartsBlocks' BY <1>1, StartsStay
<1>5. AnswersArrive' BY <1>1 DEF AnswersArrive, Answered
<1>6. Kept(format, conv)' BY <1>1
<1> QED BY <1>2, <1>3, <1>4, <1>5, <1>6

LEMMA StreamAnswerKeeps == ASSUME CInv, StreamAnswer PROVE CInv'
<1> USE DEF CInv
<1>1. /\ phase = "sent" /\ phase' = "streaming" /\ format = "anthropic"
      /\ provider = "anthropic" /\ stream' = "open" /\ input' = input
      /\ UNCHANGED <<format, conv, provider, received, reply>>
  BY DEF StreamAnswer, StreamBegins
<1>2. PhasesMatch' BY <1>1 DEF PhasesMatch
<1>3. RequestMatches' BY <1>1 DEF RequestMatches
<1>4. StartsBlocks' BY <1>1 DEF StartsBlocks, Started
<1>5. AnswersArrive' BY <1>1 DEF AnswersArrive, Answered
<1>6. Kept(format, conv)' BY <1>1
<1> QED BY <1>2, <1>3, <1>4, <1>5, <1>6

LEMMA PassEventsKeeps == ASSUME CInv, Filtered, PassEvents PROVE CInv'
<1> USE DEF CInv
<1>1. phase = "streaming" /\ UNCHANGED <<format, conv, provider, received, reply, phase>>
  BY DEF PassEvents, exchangeVars
<1>2. stream' # "idle" /\ StartsBlocks'
  <2>1. ASSUME NEW e \in Event, ReadEvent(e) \/ BreaksInEvent(e)
        PROVE  stream' # "idle" /\ StartsBlocks'
    <3>1. input' = Append(input, e) /\ Sends(e) /\ stream' \in {"open", "cut"}
      BY <2>1 DEF ReadEvent, BreaksInEvent
    <3>2. e.type = "content_block_start" => e.block # "none"
      BY <3>1 DEF Sends
    <3>3. e.type = "content_block_start" => e.block \in Blocks \union {"thinking"}
      BY <3>2 DEF Event, Kinds
    <3>4. input \in Seq(Event) BY DEF Filtered, StreamTypeOK
    <3>5. /\ DOMAIN input = 1..Len(input) /\ DOMAIN input' = 1..(Len(input) + 1)
          /\ Len(input) \in Nat /\ input'[Len(input) + 1] = e
          /\ \A i \in 1..Len(input) : input'[i] = input[i]
      BY <3>1, <3>4
    <3>6. ASSUME NEW i \in Started' PROVE input'[i].block \in Blocks \union {"thinking"}
      <4>1. i \in DOMAIN input' /\ input'[i].type = "content_block_start"
        BY <3>6 DEF Started
      <4>2. CASE i = Len(input) + 1 BY <3>3, <3>5, <4>1, <4>2
      <4>3. CASE i # Len(input) + 1
        <5>1. i \in DOMAIN input /\ input'[i] = input[i] BY <3>5, <4>1, <4>3
        <5> QED BY <4>1, <5>1 DEF StartsBlocks, Started
      <4> QED BY <4>2, <4>3
    <3> QED BY <3>1, <3>6 DEF StartsBlocks
  <2>2. CASE StreamEnds \/ LineTooLong
    <3>1. stream' # "idle" /\ input' = input BY <2>2 DEF StreamEnds, LineTooLong
    <3> QED BY <3>1 DEF StartsBlocks, Started
  <2> QED BY <2>1, <2>2 DEF PassEvents
<1>3. PhasesMatch' BY <1>1, <1>2 DEF PhasesMatch
<1>4. RequestMatches' BY <1>1 DEF RequestMatches
<1>5. AnswersArrive' BY <1>1 DEF AnswersArrive, Answered
<1>6. Kept(format, conv)' BY <1>1
<1> QED BY <1>2, <1>3, <1>4, <1>5, <1>6

LEMMA StreamGone == ASSUME StreamReturns PROVE stream' = "idle" /\ StartsBlocks'
BY DEF StreamReturns, StartsBlocks, Started

LEMMA TakeStreamKeeps == ASSUME CInv, Filtered, TakeStream PROVE CInv'
<1> USE DEF CInv
<1> DEFINE r == BlocksAt(Started)  s == BlocksAt(Started \intersect sent)
           m == Msg("assistant", s)
<1>1. /\ phase = "streaming" /\ phase' = "client" /\ stream = "complete" /\ StreamReturns
      /\ reply' = r /\ received' = Nothing
      /\ conv' = [conv EXCEPT !.messages = @ \o <<m>>]
      /\ UNCHANGED <<format, provider>>
  BY DEF TakeStream, With
<1>2. format = "anthropic" /\ provider = "anthropic" BY <1>1 DEF PhasesMatch
<1>3. r \in Seq(Answers) /\ s \in Seq(Answers)
  <2>1. Started \in SUBSET Started /\ Started \intersect sent \in SUBSET Started OBVIOUS
  <2> QED BY <2>1, BlocksAtFacts DEF Filtered
<1>4. GatherBy(UseF, s) = GatherBy(UseF, r) /\ GatherBy(TextF, s) = GatherBy(TextF, r)
  BY <1>1, CompleteStream DEF Filtered
<1> HIDE DEF r, s
<1>5. m = Assistant(s, <<>>) BY DEF Msg, Assistant
<1> HIDE DEF m
<1>6. m \in MessagesOf(format) /\ ResultsOf(m) = {} /\ Reaches(m, r)
  BY <1>2, <1>3, <1>4, <1>5, AssistantType, BlocksReach DEF MessagesOf
<1>7. Kept(format, conv)'
  <2>1. Kept(format, [conv EXCEPT !.messages = @ \o <<m>>]) BY <1>6, KeptGrowsByOne
  <2> QED BY <1>1, <2>1
<1>8. stream' = "idle" /\ StartsBlocks' BY <1>1, StreamGone
<1>9. PhasesMatch' BY <1>1, <1>3, <1>8 DEF PhasesMatch
<1>10. RequestMatches' BY <1>1, NothingIsAsked DEF RequestMatches
<1>11. AnswersArrive'
  <2>1. Last([conv EXCEPT !.messages = @ \o <<m>>].messages) = m BY <1>6, LastOfGrown
  <2>2. Last(conv'.messages) = m BY <1>1, <2>1
  <2>3. Arrived(format, provider, conv', r) BY <1>2, <1>6, <2>2 DEF Arrived
  <2>4. Arrived(format, provider, conv, reply)' BY <1>1, <2>3
  <2> QED BY <2>4 DEF AnswersArrive, Answered, Reached, Arrived, Reaches
<1> QED BY <1>7, <1>8, <1>9, <1>10, <1>11

LEMMA DropStreamKeeps == ASSUME CInv, DropStream PROVE CInv'
<1> USE DEF CInv
<1>1. /\ phase = "streaming" /\ phase' = "ready" /\ StreamReturns /\ received' = Nothing
      /\ UNCHANGED <<format, conv, provider, reply>>
  BY DEF DropStream
<1>2. stream' = "idle" /\ StartsBlocks' BY <1>1, StreamGone
<1>3. PhasesMatch' BY <1>1, <1>2 DEF PhasesMatch
<1>4. RequestMatches' BY <1>1, NothingIsAsked DEF RequestMatches
<1>5. AnswersArrive' BY <1>1 DEF AnswersArrive, Answered
<1>6. Kept(format, conv)' BY <1>1
<1> QED BY <1>2, <1>3, <1>4, <1>5, <1>6

LEMMA ConversationGoesOn == CInv /\ Filtered /\ [ExchangeNext]_allVars => CInv'
<1> SUFFICES ASSUME CInv, Filtered, [ExchangeNext]_allVars PROVE CInv' OBVIOUS
<1>1. CASE BeginAgain BY <1>1, BeginAgainKeeps
<1>2. ASSUME NEW content \in Says, Say(content) PROVE CInv' BY <1>2, SayKeeps
<1>3. ASSUME NEW content \in Says \union {<<>>}, ReturnResults(content) PROVE CInv'
  BY <1>3, ReturnResultsKeeps
<1>4. ASSUME NEW p \in {"openai", "anthropic"}, Send(p) PROVE CInv'
  BY <1>4, SendKeeps DEF Formats
<1>5. ASSUME NEW blocks \in Replies, AnswerWhole(blocks) PROVE CInv'
  BY <1>5, AnswerWholeKeeps
<1>6. CASE Unanswered BY <1>6, UnansweredKeeps
<1>7. CASE StreamAnswer BY <1>7, StreamAnswerKeeps
<1>8. CASE PassEvents BY <1>8, PassEventsKeeps
<1>9. CASE TakeStream BY <1>9, TakeStreamKeeps
<1>10. CASE DropStream BY <1>10, DropStreamKeeps
<1>11. CASE UNCHANGED allVars
  <2>1. UNCHANGED <<format, conv, provider, received, reply, phase, input, stream>>
    BY <1>11 DEF allVars, exchangeVars, streamVars
  <2> QED BY <2>1 DEF CInv, PhasesMatch, RequestMatches, StartsBlocks, Started, AnswersArrive,
                      Answered, Reached
<1> QED BY <1>1, <1>2, <1>3, <1>4, <1>5, <1>6, <1>7, <1>8, <1>9, <1>10, <1>11
      DEF ExchangeNext

-----------------------------------------------------------------------------
LEMMA TypesFollow == CInv /\ Filtered => ExchangeTypeOK
<1> SUFFICES ASSUME CInv PROVE ExchangeTypeOK OBVIOUS
<1>1. PhasesMatch /\ Kept(format, conv) /\ Asked(provider, received)
  BY DEF CInv, RequestMatches
<1>2. ASSUME NEW s \in Seq(Messages) PROVE s \in Seq(Message)
  BY MessageKinds, SeqMonotonic
<1>3. conv.messages \in Seq(Messages) BY <1>1, MessagesOfFacts DEF Kept
<1>4. conv \in Conversation
  <2>1. conv = [system |-> conv.system, messages |-> conv.messages]
        /\ conv.system \in Texts \union {Empty}
    BY <1>1 DEF Kept
  <2>2. conv.messages \in Seq(Message) BY <1>2, <1>3
  <2> QED BY <2>1, <2>2 DEF Conversation
<1>5. received \in Conversation
  <2>1. received = [system |-> received.system, messages |-> received.messages]
        /\ received.system \in Texts \union {Empty} /\ received.messages \in Seq(Messages)
    BY <1>1 DEF Asked
  <2>2. received.messages \in Seq(Message) BY <1>2, <2>1
  <2> QED BY <2>1, <2>2 DEF Conversation
<1>6. reply \in Seq(ContentBlock)
  <2>1. Answers \subseteq ContentBlock BY AnswersAreBlocks, BlockFacts
  <2>2. reply \in Seq(Answers) BY <1>1 DEF PhasesMatch
  <2> QED BY <2>1, <2>2, SeqMonotonic
<1>7. ASSUME NEW s \in Seq(Shown) PROVE \A i \in DOMAIN s : s[i].kind \in {"text", "image"}
  BY DEF Shown
<1>8. ASSUME format = "openai", NEW m \in ToSet(conv.messages)
      PROVE  m.content \in Seq(Shown)
  <2>1. Asked(format, conv) BY <1>1, AskedAsKept
  <2>2. \A i \in DOMAIN conv.messages : conv.messages[i].content \in Seq(Shown)
    BY <1>8, <2>1 DEF Asked
  <2> QED BY <1>8, <2>2 DEF ToSet
<1>9. ASSUME provider = "openai", NEW m \in ToSet(received.messages)
      PROVE  m.content \in Seq(Shown)
  <2>1. \A i \in DOMAIN received.messages : received.messages[i].content \in Seq(Shown)
    BY <1>1, <1>9 DEF Asked
  <2> QED BY <1>9, <2>1 DEF ToSet
<1>10. \A m \in (IF format = "openai" THEN ToSet(conv.messages) ELSE {})
             \union (IF provider = "openai" THEN ToSet(received.messages) ELSE {}) :
         \A i \in DOMAIN m.content : m.content[i].kind \in {"text", "image"}
  BY <1>7, <1>8, <1>9
<1> QED BY <1>1, <1>4, <1>5, <1>6, <1>10 DEF ExchangeTypeOK, PhasesMatch, Formats

LEMMA RequestsFollow == CInv => CallsSurvive /\ NoOrphanResults /\ PlainTurnsSurvive
<1> SUFFICES ASSUME CInv PROVE CallsSurvive /\ NoOrphanResults /\ PlainTurnsSurvive OBVIOUS
<1>1. PhasesMatch /\ Kept(format, conv) /\ RequestMatches BY DEF CInv
<1>2. NoOrphanResults BY <1>1 DEF RequestMatches, Asked, Orphanless, NoOrphanResults
<1>3. ASSUME phase = "sent" PROVE Arrives(conv, received)
  BY <1>1, <1>3, TranslateArrives DEF RequestMatches, PhasesMatch, Formats
<1>4. CallsSurvive BY <1>3 DEF CallsSurvive, Arrives
<1>5. PlainTurnsSurvive
  BY <1>3 DEF PlainTurnsSurvive, Arrives, SamePlainTurns, SameTurn
<1> QED BY <1>2, <1>4, <1>5

-----------------------------------------------------------------------------
LEMMA ConversationHolds == ExchangeSpec => [](CInv /\ Filtered)
<1>1. ExchangeSpec => []Filtered
  <2>1. StreamTypeOK /\ ThinkingStripped /\ ClientCanFollow => Filtered BY DEF Filtered
  <2> QED BY <2>1, ConversationsAreFiltered, PTL
<1> QED BY <1>1, ConversationBegins, ConversationGoesOn, PTL DEF ExchangeSpec

(***************************************************************************)
(* What clients, proxy and providers have of a conversation is a           *)
(* conversation, no block that OpenAI does not know reaches an OpenAI      *)
(* client or provider (the loop at openai_adapter.go:50), and the filter   *)
(* runs exactly while an answer is streamed.                               *)
(***************************************************************************)
THEOREM ConversationTypes == ExchangeSpec => []ExchangeTypeOK
BY ConversationHolds, TypesFollow, PTL

(***************************************************************************)
(* Every provider receives every call of the conversation, in the order    *)
(* they were made, in either direction of the translation and however      *)
(* often the providers took turns (openai_adapter.go:69,                   *)
(* anthropic_adapter.go:77).                                               *)
(***************************************************************************)
THEOREM CallsReachProviders == ExchangeSpec => []CallsSurvive
BY ConversationHolds, RequestsFollow, PTL

(***************************************************************************)
(* No provider receives a result without the call it belongs to, before it *)
(* in the same request.                                                    *)
(***************************************************************************)
THEOREM NoResultIsOrphaned == ExchangeSpec => []NoOrphanResults
BY ConversationHolds, RequestsFollow, PTL

(***************************************************************************)
(* What is sent of a message with texts alone, texts before calls, or one  *)
(* result, arrives: its role, texts, calls and results, at its place       *)
(* (openai_adapter.go:78).                                                 *)
(***************************************************************************)
THEOREM PlainTurnsArrive == ExchangeSpec => []PlainTurnsSurvive
BY ConversationHolds, RequestsFollow, PTL

(***************************************************************************)
(* A client gets the calls and a text of every answer, whole or streamed,  *)
(* except an Anthropic client of an OpenAI provider, which gets an empty   *)
(* message (anthropic_adapter.go:157, anthropic.go:169).                   *)
(***************************************************************************)
THEOREM AnswersReachClients == ExchangeSpec => []AnswersArrive
<1>1. CInv => AnswersArrive BY DEF CInv
<1> QED BY <1>1, ConversationHolds, PTL
=============================================================================
