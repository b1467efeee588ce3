---------------------------- MODULE StreamDecode ----------------------------
(***************************************************************************)
(* The stream decoders of internal/translate: what each makes of one SSE   *)
(* payload of its protocol, as events.                                     *)
(*                                                                         *)
(* A payload is a record: its part ("open" a block or announce a tool      *)
(* call, "delta", "close", "finish", "usage", "done", "created", "error"), *)
(* the place it names (a tool_calls index, a block index or an item id),   *)
(* the kind of block, the call, the content and the usage it carries.  A   *)
(* chunk of the OpenAI protocol may hold several parts, which are decoded  *)
(* one after the other as if each had come alone.                          *)
(*                                                                         *)
(* Every payload has a model, and the first one an id, so that             *)
(* message_start is the first event and every thinking block gets the      *)
(* signature made up from that id when it closes.                          *)
(***************************************************************************)
EXTENDS StreamEvents, SequencesExt

Payload(part, at, kind, call, frags, usage) ==
  [part |-> part, at |-> at, kind |-> kind, call |-> call, frags |-> frags, usage |-> usage]

Decoded(dec, evs) == [dec |-> dec, evs |-> evs]

\* Block indices: the first text or thinking block takes 0, the others, and
\* every tool of the OpenAI decoder, count from 1.
NextIndex(d) == IF d.slot0 THEN d.next ELSE 0
Allot(d)     == IF d.slot0 THEN [d EXCEPT !.next = @ + 1] ELSE [d EXCEPT !.slot0 = TRUE]

-----------------------------------------------------------------------------
(* OpenAI: blocks are implied, and opened and closed by the decoder. *)

OpenAIDecoder ==
  [started |-> FALSE, text |-> NoIndex, thinking |-> NoIndex, tools |-> <<>>,
   next |-> 1, slot0 |-> FALSE, usage |-> {}, finished |-> FALSE, deltaSent |-> FALSE]

CloseThinking(d) ==
  IF d.thinking = NoIndex THEN <<>>
  ELSE <<BlockDelta(d.thinking, "signature", <<>>), BlockStop(d.thinking)>>
CloseText(d) == IF d.text = NoIndex THEN <<>> ELSE <<BlockStop(d.text)>>
CloseAllTools(d) ==
  LET open == InOrder({d.tools[t] : t \in DOMAIN d.tools})
  IN  [i \in DOMAIN open |-> BlockStop(open[i])]
CloseAll(d) == CloseThinking(d) \o CloseText(d) \o CloseAllTools(d)

ReasoningEvents(d, c) ==
  LET i == NextIndex(d)
  IN  IF d.thinking # NoIndex
        THEN Decoded(d, <<BlockDelta(d.thinking, "thinking", c.frags)>>)
        ELSE Decoded([Allot(d) EXCEPT !.thinking = i],
                     <<BlockStart(i, "thinking", <<>>), BlockDelta(i, "thinking", c.frags)>>)

TextEvents(d, c) ==
  LET i == NextIndex(d)
  IN  IF d.text # NoIndex
        THEN Decoded([d EXCEPT !.thinking = NoIndex],
                     CloseThinking(d) \o <<BlockDelta(d.text, "text", c.frags)>>)
        ELSE Decoded([Allot(d) EXCEPT !.thinking = NoIndex, !.text = i],
                     CloseThinking(d) \o <<BlockStart(i, "text", <<>>),
                                           BlockDelta(i, "text", c.frags)>>)

\* A tool call that is announced closes what is open, and an earlier call at
\* the same index.
NewToolCall(d, c) ==
  Decoded([d EXCEPT !.thinking = NoIndex, !.text = NoIndex, !.next = @ + 1,
                    !.tools = Put(@, c.at, d.next)],
          CloseThinking(d) \o CloseText(d)
            \o (IF c.at \in DOMAIN d.tools THEN <<BlockStop(d.tools[c.at])>> ELSE <<>>)
            \o <<BlockStart(d.next, "tool_use", <<c.call>>)>>
            \o (IF c.frags = <<>> THEN <<>> ELSE <<BlockDelta(d.next, "tool_use", c.frags)>>))

\* Mutant: the arguments go to the tool that was announced last.
ToolFragmentToLast(d, c) ==
  Decoded(d, IF c.at \in DOMAIN d.tools
               THEN <<BlockDelta(d.next - 1, "tool_use", c.frags)>> ELSE <<>>)

ToolFragment(d, c) ==
  Decoded(d, IF c.at \in DOMAIN d.tools
               THEN <<BlockDelta(d.tools[c.at], "tool_use", c.frags)>> ELSE <<>>)

\* finish_reason: message_delta waits for the usage, unless it is there.
FinishEvents(d, c) ==
  LET usage == d.usage \union c.usage
  IN  Decoded([d EXCEPT !.thinking = NoIndex, !.text = NoIndex, !.tools = <<>>,
                        !.finished = TRUE, !.usage = usage,
                        !.deltaSent = @ \/ usage # {}],
              CloseAll(d) \o (IF usage = {} THEN <<>> ELSE <<MessageDelta(usage)>>))

\* The chunk without choices that carries the usage.
UsageOnly(d, c) ==
  LET sends == d.finished /\ ~d.deltaSent
  IN  Decoded([d EXCEPT !.usage = c.usage, !.deltaSent = @ \/ sends],
              IF sends THEN <<MessageDelta(c.usage)>> ELSE <<>>)

\* [DONE]
DecodeDone(d) ==
  LET sends == d.finished /\ ~d.deltaSent
  IN  Decoded([d EXCEPT !.thinking = NoIndex, !.text = NoIndex, !.tools = <<>>,
                        !.deltaSent = @ \/ sends],
              CloseAll(d) \o (IF sends THEN <<MessageDelta({})>> ELSE <<>>) \o <<Ended>>)

DecodeChunk(d, c) ==
  CASE c.part = "delta" /\ c.kind = "thinking" -> ReasoningEvents(d, c)
    [] c.part = "delta" /\ c.kind = "text"     -> TextEvents(d, c)
    [] c.part = "open"                         -> NewToolCall(d, c)
    [] c.part = "delta" /\ c.kind = "tool_use" -> ToolFragment(d, c)
    [] c.part = "finish"                       -> FinishEvents(d, c)
    [] c.part = "usage"                        -> UsageOnly(d, c)

DecodeOpenAI(d, c) ==
  IF c.part = "done" THEN DecodeDone(d)
  ELSE LET r == DecodeChunk([d EXCEPT !.started = TRUE], c)
       IN  Decoded(r.dec, (IF d.started THEN <<>> ELSE <<MessageStart({})>>) \o r.evs)

-----------------------------------------------------------------------------
(* Anthropic: one event for one, with the indices of the upstream.  The    *)
(* usage in message_delta lacks what message_start said; streamLoop puts   *)
(* it back, and therefore the usage heard so far is what is kept.          *)

AnthropicDecoder == {}

DecodeAnthropic(d, c) ==
  CASE c.part = "created" -> Decoded(c.usage, <<MessageStart(c.usage)>>)
    [] c.part = "open"    -> Decoded(d, <<BlockStart(c.at, c.kind, Header(c.kind, c.call, c.frags))>>)
    [] c.part = "delta"   -> Decoded(d, <<BlockDelta(c.at, c.kind, c.frags)>>)
    [] c.part = "close"   -> Decoded(d, <<BlockStop(c.at)>>)
    [] c.part = "finish"  -> Decoded(d \union c.usage, <<MessageDelta(d \union c.usage)>>)
    [] c.part = "done"    -> Decoded(d, <<Ended>>)
    [] c.part = "error"   -> Decoded(d, <<ErrorEvent>>)

-----------------------------------------------------------------------------
(* Responses: items are opened and closed by the upstream, under ids. *)

ResponsesDecoder ==
  [started |-> FALSE, items |-> <<>>, next |-> 1, slot0 |-> FALSE]

ItemAdded(d, c) ==
  LET i == NextIndex(d)
  IN  Decoded([Allot(d) EXCEPT
                 !.items = Put(@, c.at, [index |-> i, kind |-> c.kind, argsSent |-> c.frags # <<>>])],
              <<BlockStart(i, c.kind, Header(c.kind, c.call, <<>>))>>
                \o (IF c.frags = <<>> THEN <<>> ELSE <<BlockDelta(i, c.kind, c.frags)>>))

ItemDelta(d, c) ==
  IF c.at \in DOMAIN d.items /\ d.items[c.at].kind = c.kind
    THEN Decoded([d EXCEPT !.items[c.at].argsSent = @ \/ c.kind = "tool_use"],
                 <<BlockDelta(d.items[c.at].index, c.kind, c.frags)>>)
    ELSE Decoded(d, <<>>)

\* output_item.done repeats the arguments, for upstreams that sent no delta.
ItemDone(d, c) ==
  IF c.at \notin DOMAIN d.items THEN Decoded(d, <<>>)
  ELSE LET it   == d.items[c.at]
           late == it.kind = "tool_use" /\ ~it.argsSent /\ c.frags # <<>>
       IN  Decoded([d EXCEPT !.items = [a \in DOMAIN @ \ {c.at} |-> @[a]]],
                   (IF late THEN <<BlockDelta(it.index, it.kind, c.frags)>> ELSE <<>>)
                     \o <<BlockStop(it.index)>>)

DecodeItem(d, c) ==
  CASE c.part = "created" -> Decoded(d, <<>>)
    [] c.part = "open"    -> ItemAdded(d, c)
    [] c.part = "delta"   -> ItemDelta(d, c)
    [] c.part = "close"   -> ItemDone(d, c)
    [] c.part = "done"    -> Decoded(d, <<MessageDelta(c.usage), Ended>>)
    [] c.part = "error"   -> Decoded(d, <<ErrorEvent>>)

\* The first created or added event starts the message.
DecodeResponses(d, c) ==
  LET starts == c.part \in {"created", "open"} /\ ~d.started
      r      == DecodeItem([d EXCEPT !.started = @ \/ starts], c)
  IN  Decoded(r.dec, (IF starts THEN <<MessageStart({})>> ELSE <<>>) \o r.evs)

-----------------------------------------------------------------------------

Decoder(format) ==
  CASE format = "openai"    -> OpenAIDecoder
    [] format = "anthropic" -> AnthropicDecoder
    [] format = "responses" -> ResponsesDecoder

Decode(format, d, c) ==
  CASE format = "openai"    -> DecodeOpenAI(d, c)
    [] format = "anthropic" -> DecodeAnthropic(d, c)
    [] format = "responses" -> DecodeResponses(d, c)

-----------------------------------------------------------------------------
(* A complete answer, in place of the stream that was asked for, is        *)
(* unfolded into the events a stream would have had.  A block is [kind,    *)
(* call, frags], frags its content.                                        *)

BlockStreamEvents(i, b) ==
  <<BlockStart(i, b.kind, Header(b.kind, b.call, IF b.kind = "opaque" THEN b.frags ELSE <<>>))>>
    \o (IF b.frags = <<>> \/ b.kind = "opaque" THEN <<>> ELSE <<BlockDelta(i, b.kind, b.frags)>>)
    \o (IF b.frags = <<>> \/ b.kind # "thinking" THEN <<>> ELSE <<BlockDelta(i, "signature", <<>>)>>)
    \o <<BlockStop(i)>>

ResponseStreamEvents(body) ==
  <<MessageStart({"in"})>>
    \o FlattenSeq([b \in DOMAIN body |-> BlockStreamEvents(b - 1, body[b])])
    \o <<MessageDelta(Full), Ended>>
=============================================================================
