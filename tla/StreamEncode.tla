---------------------------- MODULE StreamEncode ----------------------------
(***************************************************************************)
(* The stream encoders of internal/translate: the frames each writes for   *)
(* an event, in the client's protocol; and the two places that gather the  *)
(* content of a stream as it goes by, the Responses encoder for the        *)
(* session and streamRecorder for the archive.                             *)
(***************************************************************************)
EXTENDS StreamEvents, SequencesExt

Encoded(enc, frames) == [enc |-> enc, frames |-> frames]

Block(kind, call, frags) == [kind |-> kind, call |-> call, frags |-> frags]

\* The blocks of a map from indices to blocks, by index.
ByIndex(blocks) ==
  LET order == InOrder(DOMAIN blocks)
  IN  [i \in DOMAIN order |-> blocks[order[i]]]

\* Mutant: an index is passed on as it is.
RemappedNot(e, i) == i

\* Block indices as the client sees them, in the order they first appear in.
Remapped(e, i) == IF i \in DOMAIN e.remap THEN e.remap[i] ELSE e.next
Remap(e, i) ==
  IF i \in DOMAIN e.remap THEN e
  ELSE [e EXCEPT !.remap = Put(@, i, e.next), !.next = @ + 1]

-----------------------------------------------------------------------------
(* Anthropic: a frame for every event. *)

AnthropicEncoder == [remap |-> <<>>, next |-> 0]

EncodeAnthropic(e, ev) ==
  IF ev.type \in BlockEvents
    THEN Encoded(Remap(e, ev.index), <<[ev EXCEPT !.index = Remapped(e, ev.index)]>>)
    ELSE Encoded(e, <<ev>>)

-----------------------------------------------------------------------------
(* OpenAI: tool calls are counted, thinking is dropped, blocks do not end. *)

OpenAIEncoder == [tool |-> <<>>, nextTool |-> 0]

\* A call is announced without the arguments its start may carry.
EncodeToolStart(e, ev) ==
  Encoded([tool |-> Put(e.tool, ev.index, e.nextTool), nextTool |-> e.nextTool + 1],
          <<BlockStart(e.nextTool, "tool_use", <<ev.val[1]>>)>>)

EncodeDelta(e, ev) ==
  CASE ev.kind = "text"     -> <<BlockDelta(0, "text", ev.val)>>
    [] ev.kind = "tool_use" -> <<BlockDelta(IF ev.index \in DOMAIN e.tool THEN e.tool[ev.index] ELSE 0,
                                            "tool_use", ev.val)>>
    [] OTHER                -> <<>>

EncodeOpenAI(e, ev) ==
  CASE ev.type = "message_start"       -> Encoded(e, <<MessageStart({})>>)
    [] ev.type = "content_block_start" -> IF ev.kind = "tool_use" THEN EncodeToolStart(e, ev)
                                          ELSE Encoded(e, <<>>)
    [] ev.type = "content_block_delta" -> Encoded(e, EncodeDelta(e, ev))
    [] ev.type = "content_block_stop"  -> Encoded(e, <<>>)
    [] ev.type = "message_delta"       -> Encoded(e, <<MessageDelta(ev.usage)>>)
    [] ev.type = "message_stop"        -> Encoded(e, <<Ended>>)

-----------------------------------------------------------------------------
(* Responses: blocks are items of the output; response.created starts the  *)
(* stream (message_start) and response.completed, with the items that are  *)
(* done and the usage, ends it (message_stop).                             *)

ResponsesEncoder ==
  [started |-> FALSE, completed |-> FALSE, usage |-> {},
   remap |-> <<>>, next |-> 0, blocks |-> <<>>, items |-> <<>>]

CompletedFrames(e) == <<MessageStop(ByIndex(e.items), e.usage)>>

\* Kinds other than these take an index, but no item is opened for them.
ItemKinds == {"text", "thinking", "tool_use"}

BlockStartFrames(e, i, ev) ==
  IF ev.kind \notin ItemKinds THEN Encoded(e, <<>>)
  ELSE LET call  == IF ev.kind = "tool_use" THEN ev.val[1] ELSE 0
           input == IF ev.kind = "tool_use" THEN Tail(ev.val) ELSE <<>>
       IN  Encoded([e EXCEPT !.blocks = Put(@, i, Block(ev.kind, call, input))],
                   <<BlockStart(i, ev.kind, Header(ev.kind, call, <<>>))>>
                     \o (IF input = <<>> THEN <<>> ELSE <<BlockDelta(i, ev.kind, input)>>))

\* A block whose start is missing is started by its first delta.
BlockDeltaFrames(e, i, ev) ==
  IF ev.kind = "signature" THEN Encoded(e, <<>>)
  ELSE LET missing == i \notin DOMAIN e.blocks
           block   == IF missing THEN Block(ev.kind, 0, <<>>) ELSE e.blocks[i]
       IN  Encoded([e EXCEPT !.blocks = Put(@, i, [block EXCEPT !.frags = @ \o ev.val])],
                   (IF missing THEN <<BlockStart(i, ev.kind, Header(ev.kind, 0, <<>>))>> ELSE <<>>)
                     \o <<BlockDelta(i, ev.kind, ev.val)>>)

BlockStopFrames(e, i) ==
  IF i \notin DOMAIN e.blocks THEN Encoded(e, <<>>)
  ELSE Encoded([e EXCEPT !.items = Put(@, i, e.blocks[i])], <<BlockStop(i)>>)

EncodeBlock(e, ev) ==
  LET i == Remapped(e, ev.index)
      r == Remap(e, ev.index)
  IN  CASE ev.type = "content_block_start" -> BlockStartFrames(r, i, ev)
        [] ev.type = "content_block_delta" -> BlockDeltaFrames(r, i, ev)
        [] ev.type = "content_block_stop"  -> BlockStopFrames(r, i)

\* message_delta: the tokens written replace, the tokens read add.
AbsorbUsage(e, ev) == [e EXCEPT !.usage = (@ \intersect {"in"}) \union ev.usage]

\* Only the frames of a block are preceded by a missing response.created.
EncodeResponses(e, ev) ==
  LET s == [e EXCEPT !.started = TRUE]
  IN  CASE ev.type = "message_start" ->
             Encoded([s EXCEPT !.usage = (@ \ {"in"}) \union (ev.usage \intersect {"in"})],
                     IF e.started THEN <<>> ELSE <<MessageStart({})>>)
        [] ev.type \in BlockEvents ->
             LET b == EncodeBlock(s, ev)
             IN  Encoded(b.enc, (IF e.started THEN <<>> ELSE <<MessageStart({})>>) \o b.frames)
        [] ev.type = "message_delta" -> Encoded(AbsorbUsage(s, ev), <<>>)
        [] ev.type = "message_stop" ->
             IF e.completed THEN Encoded(s, <<>>)
             ELSE Encoded([s EXCEPT !.completed = TRUE], CompletedFrames(s))

\* Mutant: Flush does not look whether the stream has been completed.
FlushResponsesAgain(e) == (IF e.started THEN <<>> ELSE <<MessageStart({})>>) \o CompletedFrames(e)

\* Flush: what was not sent of response.created and response.completed.
FlushResponses(e) ==
  (IF e.started THEN <<>> ELSE <<MessageStart({})>>)
    \o (IF e.completed THEN <<>> ELSE CompletedFrames(e))

-----------------------------------------------------------------------------

Encoder(format) ==
  CASE format = "openai"    -> OpenAIEncoder
    [] format = "anthropic" -> AnthropicEncoder
    [] format = "responses" -> ResponsesEncoder

Encode(format, e, ev) ==
  CASE format = "openai"    -> EncodeOpenAI(e, ev)
    [] format = "anthropic" -> EncodeAnthropic(e, ev)
    [] format = "responses" -> EncodeResponses(e, ev)

EncodeAll(format, evs) ==
  LET after[n \in 0 .. Len(evs)] ==
        IF n = 0 THEN Encoded(Encoder(format), <<>>)
        ELSE LET r == Encode(format, after[n - 1].enc, evs[n])
             IN  Encoded(r.enc, after[n - 1].frames \o r.frames)
  IN  after[Len(evs)]

-----------------------------------------------------------------------------
(* streamRecorder.  A start that comes with content keeps it; a delta      *)
(* without a start opens its block.                                        *)

EnsureKind(rec, i, kind) == IF i \in DOMAIN rec THEN rec ELSE Put(rec, i, Block(kind, 0, <<>>))

\* Mutant: a delta without a start is dropped.
RecordEventStarted(rec, ev) ==
  CASE ev.type = "content_block_start" ->
         Put(rec, ev.index, IF ev.kind = "tool_use" THEN Block(ev.kind, ev.val[1], Tail(ev.val))
                            ELSE Block(ev.kind, 0, ev.val))
    [] ev.type = "content_block_delta" /\ ev.index \in DOMAIN rec ->
         [rec EXCEPT ![ev.index].frags = @ \o ev.val]
    [] OTHER -> rec

RecordEvent(rec, ev) ==
  CASE ev.type = "content_block_start" ->
         Put(rec, ev.index, IF ev.kind = "tool_use" THEN Block(ev.kind, ev.val[1], Tail(ev.val))
                            ELSE Block(ev.kind, 0, ev.val))
    [] ev.type = "content_block_delta" /\ ev.kind = "signature" ->
         EnsureKind(rec, ev.index, "thinking")
    [] ev.type = "content_block_delta" /\ ev.kind # "signature" ->
         [EnsureKind(rec, ev.index, ev.kind) EXCEPT ![ev.index].frags = @ \o ev.val]
    [] OTHER -> rec
=============================================================================
