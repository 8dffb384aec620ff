---------------------------- MODULE StreamFilter ----------------------------
(***************************************************************************)
(* streamAnthropicFiltered (internal/proxy/handler.go): the events of an   *)
(* Anthropic stream are passed to the client one by one, without those of  *)
(* thinking blocks.  The filter remembers the indices of open thinking     *)
(* blocks; everything else it decides from the one event it looks at.      *)
(*                                                                         *)
(* The backend is external: it opens, fills and closes blocks by index, at *)
(* most one open block per index.  It may also stop in the middle of an    *)
(* event, or send a line that does not fit the scanner's buffer; both end  *)
(* the loop, and what was read of the last event is flushed unfiltered.    *)
(*                                                                         *)
(* An event is abstracted to what the filter reads (type, index, kind of   *)
(* block or delta), and to the block it belongs to, which only the         *)
(* properties look at.                                                     *)
(***************************************************************************)
EXTENDS Integers, Sequences

CONSTANTS
  Indices,    \* the indices of content blocks
  Blocks,     \* what a block that is not a thinking block may be
  MaxEvents   \* BOUND: events of one stream

ASSUME IndicesAssumption == Indices \subseteq Nat
ASSUME BlocksAssumption  == "thinking" \notin Blocks /\ "none" \notin Blocks
ASSUME EventsAssumption  == MaxEvents \in Nat

Types == {"content_block_start", "content_block_delta", "content_block_stop",
          "other"}
Kinds == Blocks \union {"thinking", "none"}
Deltas == {"thinking_delta", "signature_delta", "content_delta", "none"}

\* block: the block an event belongs to; events of the message, and pings,
\* have none, and no index either.
Event == [type : Types, index : Indices, block : Kinds, delta : Deltas]

VARIABLES
  input,      \* HISTORY: the events read so far
  sent,       \* HISTORY: the positions in it of those written to the client
  thinking,   \* thinkingIdx: the indices of open thinking blocks
  open,       \* EXTERNAL: index -> the block the backend has open, or "none"
  stream      \* "idle", "open", or how it ended: "complete", "cut", "overlong"

streamVars == <<input, sent, thinking, open, stream>>

NoBlocks == [i \in Indices |-> "none"]

StreamInit ==
  /\ input = <<>> /\ sent = {} /\ thinking = {}
  /\ open = NoBlocks
  /\ stream = "idle"

Next1 == Len(input) + 1

-----------------------------------------------------------------------------
(* The backend: what it may send next, and what that does to its blocks.   *)

Sends(e) ==
  CASE e.type = "content_block_start" ->
         open[e.index] = "none" /\ e.block # "none" /\ e.delta = "none"
    [] e.type = "content_block_delta" ->
         /\ open[e.index] = e.block /\ e.block # "none"
         /\ e.delta \in IF e.block = "thinking"
                        THEN {"thinking_delta", "signature_delta"}
                        ELSE {"content_delta"}
    [] e.type = "content_block_stop" ->
         open[e.index] = e.block /\ e.block # "none" /\ e.delta = "none"
    [] OTHER -> /\ e.block = "none" /\ e.delta = "none"
                /\ \A i \in Indices : e.index <= i

Blocks1(e) ==
  CASE e.type = "content_block_start" -> [open EXCEPT ![e.index] = e.block]
    [] e.type = "content_block_stop"  -> [open EXCEPT ![e.index] = "none"]
    [] OTHER -> open

-----------------------------------------------------------------------------
(* The filter                                                              *)

\* Mutant: a stop is dropped by the kind of the last block started.
SkipsByIndex(e) ==
  CASE e.type = "content_block_start" -> e.block = "thinking"
    [] e.type = "content_block_delta" -> e.index \in thinking
    [] OTHER -> FALSE

\* A start by the kind of its block, a delta by its own kind, a stop by index.
Skips(e) ==
  CASE e.type = "content_block_start" -> e.block = "thinking"
    [] e.type = "content_block_delta" -> e.delta = "thinking_delta"
    [] e.type = "content_block_stop"  -> e.index \in thinking
    [] OTHER -> FALSE

\* Mutant: an index is never forgotten.
RemembersAll(e) ==
  IF e.type = "content_block_start" /\ e.block = "thinking"
  THEN thinking \union {e.index} ELSE thinking

Remembers(e) ==
  CASE e.type = "content_block_start" /\ e.block = "thinking" ->
         thinking \union {e.index}
    [] e.type = "content_block_stop" -> thinking \ {e.index}
    [] OTHER -> thinking

StreamBegins ==
  /\ stream = "idle"
  /\ stream' = "open"
  /\ UNCHANGED <<input, sent, thinking, open>>

\* A whole event, up to its blank line.
ReadEvent(e) ==
  /\ stream = "open" /\ Len(input) < MaxEvents
  /\ Sends(e)
  /\ input' = Append(input, e)
  /\ sent' = IF Skips(e) THEN sent ELSE sent \union {Next1}
  /\ thinking' = Remembers(e)
  /\ open' = Blocks1(e)
  /\ UNCHANGED stream

\* The body ends, or the connection breaks, between two events.
StreamEnds ==
  /\ stream = "open"
  /\ stream' = IF open = NoBlocks THEN "complete" ELSE "cut"
  /\ UNCHANGED <<input, sent, thinking, open>>

\* It ends after the lines of an event and before its blank line: they are
\* flushed as they are, with a blank line, so the client sees a whole event.
BreaksInEvent(e) ==
  /\ stream = "open" /\ Len(input) < MaxEvents
  /\ Sends(e)
  /\ input' = Append(input, e)
  /\ sent' = sent \union {Next1}
  /\ open' = Blocks1(e)
  /\ stream' = "cut"
  /\ UNCHANGED thinking

\* A data line of more than a megabyte ends the scan: the client gets the
\* event's first line without data, and nothing of what the backend sends on.
LineTooLong ==
  /\ stream = "open"
  /\ stream' = "overlong"
  /\ UNCHANGED <<input, sent, thinking, open>>

\* The function returns, and its variables are gone.
StreamReturns ==
  /\ stream \in {"complete", "cut", "overlong"}
  /\ input' = <<>> /\ sent' = {} /\ thinking' = {} /\ open' = NoBlocks
  /\ stream' = "idle"

StreamNext ==
  \/ StreamBegins
  \/ \E e \in Event : ReadEvent(e) \/ BreaksInEvent(e)
  \/ StreamEnds \/ LineTooLong \/ StreamReturns

StreamSpec == StreamInit /\ [][StreamNext]_streamVars

-----------------------------------------------------------------------------
\* Types; and an open stream's filter knows the open thinking blocks.
StreamTypeOK ==
  /\ stream = "open" => thinking = {i \in Indices : open[i] = "thinking"}
  /\ input \in Seq(Event)
  /\ sent \subseteq 1..Len(input)
  /\ thinking \subseteq Indices
  /\ open \in [Indices -> Kinds]
  /\ stream \in {"idle", "open", "complete", "cut", "overlong"}

(***************************************************************************)
(* "strips thinking blocks, and writes the remaining events" (handler.go:  *)
(* 434): the client gets exactly the events of the other blocks and of the *)
(* message, and besides them the signatures of thinking blocks, which are  *)
(* deltas of another kind, and whatever event a broken stream ends in.     *)
(***************************************************************************)
ThinkingStripped ==
  \A i \in 1..Len(input) :
    i \in sent <=> \/ input[i].block # "thinking"
                   \/ input[i].delta = "signature_delta"
                   \/ i = Len(input) /\ stream = "cut" /\ i \in sent

(***************************************************************************)
(* The client can follow what it gets: as long as the stream is not        *)
(* broken, every delta with content and every stop belongs to a block      *)
(* whose start the client got before, and that was not stopped in between. *)
(***************************************************************************)
ClientCanFollow ==
  \A i \in sent :
    (/\ input[i].type \in {"content_block_delta", "content_block_stop"}
     /\ input[i].delta # "signature_delta"
     /\ i < Len(input) \/ stream # "cut")
      => \E j \in sent :
           /\ j < i
           /\ input[j].type = "content_block_start"
           /\ input[j].index = input[i].index
           /\ \A k \in sent : (j < k /\ k < i) =>
                ~ (/\ input[k].type = "content_block_stop"
                   /\ input[k].index = input[i].index)
=============================================================================
